------------------------------ MODULE Discovery ------------------------------
(***************************************************************************)
(* How the Windows helper finds phones (helper/discovery.cpp): it asks for *)
(* a service by multicast DNS, reads every packet that comes until a       *)
(* deadline, and lists the phones whose records it has heard.  Packets     *)
(* come in any order, more than once or not at all, hold any of a phone's  *)
(* records, and write a name in full or as a pointer to an earlier one.    *)
(*                                                                         *)
(* A name is a sequence of labels, a label <<text, capital>>; a packet is  *)
(* a sequence of cells: a label, a pointer, the end of a name, the fixed   *)
(* part of a record, or data.  Offsets count cells.                        *)
(***************************************************************************)
EXTENDS Integers, Sequences, FiniteSetsExt

CONSTANTS
  Phones,    \* phones on the network
  Paired,    \* those that are paired
  Orders,    \* the records a packet may hold, in their order
  MaxJumps   \* pointers followed in one name (8)

VARIABLES
  services,   \* by the service's name in small letters, what is known of it
  addresses,  \* by the host's name in small letters, its address
  heard,      \* records that have come, <<phone, type>>
  found       \* the phones listed, <<>> before the deadline

dvars == <<services, addresses, heard, found>>

(***************************************************************************)
(* What the phones say.                                                    *)
(***************************************************************************)
Small(text) == <<text, FALSE>>
Capital(text) == <<text, TRUE>>
Service == <<Small("_reashoot"), Small("local")>>
Instance(p) == <<Small(p)>> \o Service
Host(p) == <<Small("host"), Small(p), Small("local")>>
Types == {"PTR", "SRV", "TXT", "A"}

\* A packet holds records of these types, and three jumps read a name of three labels.
ASSUME DiscoveryAssumption == Orders \subseteq Seq(Types) /\ MaxJumps \in Nat /\ MaxJumps >= 3

Address(p) == <<<<"address", p>>>>

\* Some names are spelled with capitals in one place and without in another.
Owner(p, type) ==
  CASE type = "PTR" -> Service [] type \in {"SRV", "TXT"} -> Instance(p) [] type = "A" -> Host(p)
Named(p, type) ==
  CASE type = "PTR" -> <<Capital(p)>> \o Service
    [] type = "SRV" -> <<Small("host"), Capital(p), Small("local")>>
Content(p, type) ==
  CASE type = "PTR" -> <<>>  [] type = "SRV" -> <<<<"port", p>>>>
    [] type = "TXT" -> <<<<"txt", p>>>> [] type = "A" -> <<<<"addr", p>>>>

\* The offsets at which a name has been written, and the cells that write another.
WriteName(cells, name, compress) ==
  LET at(i) == {o \in DOMAIN cells : /\ cells[o][1] = "start"
                                     /\ cells[o][2] = SubSeq(name, i, Len(name))}
      known == {i \in DOMAIN name : at(i) # {}}
      n     == IF compress /\ known # {} THEN Min(known) - 1 ELSE Len(name)
      labels == [i \in 1..n |-> <<"start", SubSeq(name, i, Len(name))>>]
  IN labels \o IF n < Len(name) THEN <<<<"pointer", Min(at(n + 1))>>>> ELSE <<<<"end">>>>

WriteRecord(cells, p, type, compress) ==
  LET owned == cells \o WriteName(cells, Owner(p, type), compress)
      head  == Append(owned, <<"fixed">>) \o Content(p, type)
      named == IF type \in {"PTR", "SRV"} THEN WriteName(head, Named(p, type), compress) ELSE <<>>
  IN owned \o <<<<"fixed", type, Len(Content(p, type)) + Len(named)>>>> \o Content(p, type) \o named

\* A label's cell carries the rest of its name, for the writer; a reader sees the label.
Label(cell) == cell[2][1]

\* The packet as it is after each of its records.
Written(p, types, compress) ==
  LET cells[n \in 0..Len(types)] ==
        IF n = 0 THEN <<>> ELSE WriteRecord(cells[n - 1], p, types[n], compress)
  IN cells

\* A packet, and how many of its cells each of its records ends at; and every one there can be.
PacketOf(p, types, compress) ==
  LET written == Written(p, types, compress)
  IN [cells |-> written[Len(types)], ends |-> [i \in DOMAIN types |-> Len(written[i])]]
Packets == [of \in Phones \X Orders \X BOOLEAN |-> PacketOf(of[1], of[2], of[3])]

(***************************************************************************)
(* readName, from each cell and with each number of jumps left: the set of *)
(* the name that is there, empty when none can be read.  The labels up to  *)
(* the end or a pointer are the name's, or its beginning.                  *)
(***************************************************************************)
Stops(cells, offset) == {i \in offset..Len(cells) : cells[i][1] # "start"}
LabelsFrom(cells, offset, stop) ==
  [i \in 1..(stop - offset) |-> Label(cells[offset + i - 1])]

Prefixed(labels, names) == {labels \o rest : rest \in names}

\* The names at each cell, when `beyond` are those that a pointer leads to.
NamesAt(cells, beyond) ==
  [offset \in DOMAIN cells |->
     LET stop   == Min(Stops(cells, offset))
         labels == LabelsFrom(cells, offset, stop)
     IN IF Stops(cells, offset) = {} THEN {}
        ELSE IF cells[stop][1] = "end" THEN {labels}
        ELSE IF cells[stop][1] # "pointer" THEN {}
        ELSE Prefixed(labels, beyond[cells[stop][2]])]

Readings(cells) ==
  LET read[jumps \in 0..MaxJumps] ==
        NamesAt(cells, IF jumps = 0 THEN [offset \in DOMAIN cells |-> {}] ELSE read[jumps - 1])
  IN read

ReadName(cells, offset) ==
  IF offset \in DOMAIN cells THEN Readings(cells)[MaxJumps][offset] ELSE {}
After(cells, offset) == Min(Stops(cells, offset)) + 1

(***************************************************************************)
(* parseRecords: those that are complete, of as many as the packet's       *)
(* header promises.                                                        *)
(***************************************************************************)
Data(cells, offset) == After(cells, offset) + 1
Following(cells, offset) == Data(cells, offset) + cells[After(cells, offset)][3]

IsComplete(cells, offset) ==
  /\ ReadName(cells, offset) # {}
  /\ After(cells, offset) <= Len(cells)
  /\ Following(cells, offset) <= Len(cells) + 1

RecordAt(cells, offset) ==
  [owner |-> CHOOSE name \in ReadName(cells, offset) : TRUE,
   type |-> cells[After(cells, offset)][2], data |-> Data(cells, offset)]

\* The records so far and where the next one begins.
ParseNext(cells, last) ==
  IF IsComplete(cells, last.offset)
  THEN [records |-> Append(last.records, RecordAt(cells, last.offset)),
        offset |-> Following(cells, last.offset)]
  ELSE last

Parsed(cells, count) ==
  LET parsed[n \in 0..count] ==
        IF n = 0 THEN [records |-> <<>>, offset |-> 1] ELSE ParseNext(cells, parsed[n - 1])
  IN parsed

ParseRecords(cells, count) == Parsed(cells, count)[count].records

(***************************************************************************)
(* discoverPhonesWithMdns.                                                 *)
(***************************************************************************)
Lowercase(name) == [i \in DOMAIN name |-> Small(name[i][1])]

Default == <<"http", "8788">>
Unknown == [name |-> <<>>, target |-> <<>>, port |-> <<>>, httpPort |-> Default, paired |-> FALSE]
Put(f, k, v) == [x \in DOMAIN f \cup {k} |-> IF x = k THEN v ELSE f[x]]
Details(known, owner) == IF owner \in DOMAIN known THEN known[owner] ELSE Unknown
NamedAtLeast(service, owner) == IF service.name = <<>> THEN [service EXCEPT !.name = owner] ELSE service

\* One record: what is known is a pair of services and addresses.
Take(known, cells, r) ==
  LET owner == Lowercase(r.owner)
      names == ReadName(cells, r.data)         \* a PTR record is a name
      targets == ReadName(cells, r.data + 1)   \* an SRV record ends with one
      name  == CHOOSE n \in names : TRUE
      of    == cells[r.data][2]
      s     == Details(known.services, owner)
      with(k, v) == [known EXCEPT !.services = Put(@, k, v)]
  IN CASE r.type = "PTR" -> 
            IF owner = Service /\ names # {}
            THEN with(Lowercase(name), [Details(known.services, Lowercase(name)) EXCEPT !.name = name])
            ELSE known
       [] r.type = "SRV" ->
            with(owner, [NamedAtLeast(s, r.owner) EXCEPT !.port = <<"port", of>>,
                                                   !.target = IF targets = {} THEN @ ELSE CHOOSE t \in targets : TRUE])
       [] r.type = "TXT" ->
            with(owner, [NamedAtLeast(s, r.owner) EXCEPT !.httpPort = <<"http", of>>, !.paired = of \in Paired])
       [] r.type = "A" -> [known EXCEPT !.addresses = Put(@, owner, Address(of))]

\* What is known after each of the records.
Learnt(known, cells, records) ==
  LET learnt[n \in 0..Len(records)] ==
        IF n = 0 THEN known ELSE Take(learnt[n - 1], cells, records[n])
  IN learnt

AddressOf_AsSpelled(target) ==
  IF target \in DOMAIN addresses THEN addresses[target] ELSE target
AddressOf(target) ==
  IF Lowercase(target) \in DOMAIN addresses THEN addresses[Lowercase(target)] ELSE target

Listed(s) ==
  [name |-> s.name, host |-> AddressOf(s.target), port |-> s.port, httpPort |-> s.httpPort,
   paired |-> s.paired]

DiscoveryInit ==
  /\ services = <<>> /\ addresses = <<>> /\ heard = {} /\ found = <<>>

\* A packet arrives, the end of it perhaps missing.
ReceivePacket(p, types, packet, kept) ==
  LET cells == SubSeq(packet.cells, 1, kept)
      whole == {i \in DOMAIN types : packet.ends[i] <= kept}
      records == ParseRecords(cells, Len(types))
      after == Learnt([services |-> services, addresses |-> addresses], cells, records)[Len(records)]
  IN /\ found = <<>>
     /\ services' = after.services /\ addresses' = after.addresses
     /\ heard' = heard \cup {<<p, types[i]>> : i \in whole} /\ UNCHANGED found

Deadline ==
  /\ found = <<>>
  /\ found' = <<{Listed(services[k]) : k \in {k \in DOMAIN services :
                   services[k].port # <<>> /\ AddressOf(services[k].target) # <<>>}}>>
  /\ UNCHANGED <<services, addresses, heard>>

DiscoveryNext ==
  \/ \E p \in Phones, types \in Orders, compress \in BOOLEAN :
       LET packet == Packets[<<p, types, compress>>]
       IN \E kept \in 0..Len(packet.cells) : ReceivePacket(p, types, packet, kept)
  \/ Deadline

DiscoverySpec == DiscoveryInit /\ [][DiscoveryNext]_dvars

(***************************************************************************)
(* The list says of each phone what its records say, whatever packets they *)
(* came in: a phone is listed once its SRV record has come, with its       *)
(* address if that has come.                                               *)
(***************************************************************************)
Expected(p) ==
  [name |-> IF <<p, "PTR">> \in heard THEN Named(p, "PTR") ELSE Instance(p),
   host |-> IF <<p, "A">> \in heard THEN Address(p) ELSE Named(p, "SRV"),
   port |-> <<"port", p>>, httpPort |-> IF <<p, "TXT">> \in heard THEN <<"http", p>> ELSE Default,
   paired |-> <<p, "TXT">> \in heard /\ p \in Paired]

PhonesAsAnnounced ==
  found # <<>> => found[1] = {Expected(p) : p \in {p \in Phones : <<p, "SRV">> \in heard}}
=============================================================================
