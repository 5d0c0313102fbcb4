---------------------------- MODULE DiscoveryProofs ----------------------------
(***************************************************************************)
(* Discovery lists what the phones have said, whatever packets it came in, *)
(* proved for any phones and any records in a packet.                      *)
(*                                                                         *)
(* The argument follows a name from the packet's writer to its reader.  A  *)
(* packet is Closed: each label in it is followed by the rest of its name, *)
(* in place or through a pointer to where that rest stands.  Names are no  *)
(* longer than three labels, so a name that stands in a closed packet is   *)
(* read back with three jumps (NameIsRead).  Each record then begins where *)
(* the one before it ends, and a packet that is cut short yields exactly   *)
(* the records that end before the cut (RecordsAreParsed).  What is known  *)
(* is therefore what the records heard say (Knows), and that is the        *)
(* inductive invariant (ListInv).                                          *)
(***************************************************************************)
EXTENDS Discovery, SequenceTheorems, WellFoundedInduction, TLAPS

(***************************************************************************)
(* What packets are made of.                                               *)
(***************************************************************************)
LabelSet == (Phones \cup {"_reashoot", "local", "host"}) \X BOOLEAN
Name == Seq(LabelSet)
Cell ==
  ({"start"} \X (Name \ {<<>>})) \cup ({"pointer"} \X Nat) \cup {<<"end">>, <<"fixed">>}
  \cup ({"fixed"} \X Types \X Nat) \cup ({"port", "txt", "addr"} \X Phones)

\* What NamesAt gives: at each cell, the names that can be read there.
Table(cells) == [DOMAIN cells -> SUBSET Name]

\* What stands behind the label at o spells the rest of its name, within e cells.
Spelled(cells, o, e) ==
  LET s == cells[o][2]
  IN /\ Len(s) \in 1..3 /\ o + 1 <= e
     /\ \/ Len(s) = 1 /\ cells[o + 1] = <<"end">>
        \/ Len(s) > 1 /\ cells[o + 1] = <<"start", Tail(s)>>
        \/ Len(s) > 1 /\ \E t \in 1..o : /\ cells[o + 1] = <<"pointer", t>>
                                        /\ cells[t] = <<"start", Tail(s)>>
Closed(cells, e) == \A o \in 1..e : cells[o][1] = "start" => Spelled(cells, o, e)
\* Pointers lead to what stands before them.
Backward(cells) ==
  \A o \in DOMAIN cells : cells[o][1] = "pointer" => cells[o][2] \in 1..(o - 1)

(***************************************************************************)
(* Numbers.                                                                *)
(***************************************************************************)
\* Induction over the naturals, for a set.
LEMMA NatSet ==
  ASSUME NEW S, S \subseteq Nat, 0 \in S, \A n \in S : n + 1 \in S
  PROVE  S = Nat
<1> SUFFICES ASSUME Nat \ S # {} PROVE FALSE OBVIOUS
<1>1. PICK n \in Nat \ S : \A m \in Nat \ S : ~(<<m, n>> \in OpToRel(<, Nat))
  BY NatLessThanWellFounded, WFMin
<1>2. n # 0 /\ n - 1 \in Nat OBVIOUS
<1>3. n - 1 < n BY <1>2
<1>4. <<n - 1, n>> \in OpToRel(<, Nat) BY <1>2, <1>3 DEF OpToRel
<1>5. n - 1 \in S BY <1>1, <1>2, <1>4
<1>6. (n - 1) + 1 \in S BY <1>5
<1>7. (n - 1) + 1 = n OBVIOUS
<1> QED BY <1>6, <1>7

\* The same up to a bound.
LEMMA UpTo ==
  ASSUME NEW k \in Nat, NEW S, 0 \in S, \A n \in 0..k : n \in S /\ n < k => n + 1 \in S
  PROVE  0..k \subseteq S
<1> DEFINE T == {n \in Nat : n <= k => n \in S}
<1>1. 0 \in T OBVIOUS
<1>2. \A n \in T : n + 1 \in T OBVIOUS
<1>3. T = Nat BY <1>1, <1>2, NatSet
<1> QED BY <1>3

LEMMA MinIs ==
  ASSUME NEW S, S \subseteq Nat, S # {}
  PROVE  Min(S) \in S /\ \A x \in S : Min(S) <= x
<1>1. PICK n \in S : \A m \in S : ~(<<m, n>> \in OpToRel(<, Nat))
  BY NatLessThanWellFounded, WFMin
<1>2. \A x \in S : n <= x
  <2> SUFFICES ASSUME NEW x \in S, ~(n <= x) PROVE FALSE OBVIOUS
  <2>1. x \in Nat /\ n \in Nat /\ x < n OBVIOUS
  <2>2. <<x, n>> \in OpToRel(<, Nat) BY <2>1 DEF OpToRel
  <2> QED BY <1>1, <2>2
<1> QED BY <1>2 DEF Min

(***************************************************************************)
(* The recursive functions are what their definitions say.                 *)
(***************************************************************************)
WrittenBody(p, types, compress, f, n) ==
  IF n = 0 THEN <<>> ELSE WriteRecord(f[n - 1], p, types[n], compress)

LEMMA WrittenDef ==
  ASSUME NEW p, NEW types, NEW compress, Len(types) \in Nat
  PROVE  Written(p, types, compress) = [n \in 0..Len(types) |-> WrittenBody(p, types, compress, Written(p, types, compress), n)]
<1> DEFINE Is(f, k) == f = [n \in 0..k |-> WrittenBody(p, types, compress, f, n)]
           S == {k \in Nat : \E f : Is(f, k)}
<1>1. 0 \in S
  <2>1. Is([n \in 0..0 |-> WrittenBody(p, types, compress, <<>>, 0)], 0) BY DEF WrittenBody
  <2> QED BY <2>1
<1>2. ASSUME NEW k \in S PROVE k + 1 \in S
  <2>1. PICK f : Is(f, k) BY <1>2
  <2> DEFINE g == [n \in 0..(k + 1) |-> IF n = k + 1 THEN WrittenBody(p, types, compress, f, k + 1) ELSE f[n]]
  <2>2. k \in Nat BY <1>2
  <2>3. \A n \in 0..k : g[n] = f[n] BY <2>2
  <2>4. \A n \in 0..(k + 1) : WrittenBody(p, types, compress, g, n) = WrittenBody(p, types, compress, f, n) BY <2>2, <2>3 DEF WrittenBody
  <2>5. \A n \in 0..k : f[n] = WrittenBody(p, types, compress, f, n) BY <2>1
  <2>6. \A n \in 0..(k + 1) : g[n] = WrittenBody(p, types, compress, g, n)
    <3> HIDE DEF Is
    <3> QED BY <2>2, <2>4, <2>5
  <2>7. g = [n \in 0..(k + 1) |-> g[n]] OBVIOUS
  <2>8. Is(g, k + 1)
    <3> HIDE DEF g
    <3> QED BY <2>6, <2>7
  <2>9. \E h : Is(h, k + 1) BY <2>8
  <2> HIDE DEF Is
  <2> QED BY <2>2, <2>9
<1>3. S = Nat
  <2> HIDE DEF Is
  <2> QED BY <1>1, <1>2, NatSet
<1>4. \E f : Is(f, Len(types)) BY <1>3
<1>5. Written(p, types, compress) = CHOOSE f : Is(f, Len(types)) BY DEF Written, WrittenBody
<1>6. Is(Written(p, types, compress), Len(types))
  <2> HIDE DEF Is
  <2> QED BY <1>4, <1>5
<1> QED BY <1>6

ReadingsBody(cells, f, n) ==
  NamesAt(cells, IF n = 0 THEN [offset \in DOMAIN cells |-> {}] ELSE f[n - 1])

LEMMA ReadingsDef ==
  ASSUME NEW cells, MaxJumps \in Nat
  PROVE  Readings(cells) = [n \in 0..MaxJumps |-> ReadingsBody(cells, Readings(cells), n)]
<1> DEFINE Is(f, k) == f = [n \in 0..k |-> ReadingsBody(cells, f, n)]
           S == {k \in Nat : \E f : Is(f, k)}
<1>1. 0 \in S
  <2>1. Is([n \in 0..0 |-> ReadingsBody(cells, <<>>, 0)], 0) BY DEF ReadingsBody
  <2> QED BY <2>1
<1>2. ASSUME NEW k \in S PROVE k + 1 \in S
  <2>1. PICK f : Is(f, k) BY <1>2
  <2> DEFINE g == [n \in 0..(k + 1) |-> IF n = k + 1 THEN ReadingsBody(cells, f, k + 1) ELSE f[n]]
  <2>2. k \in Nat BY <1>2
  <2>3. \A n \in 0..k : g[n] = f[n] BY <2>2
  <2>4. \A n \in 0..(k + 1) : ReadingsBody(cells, g, n) = ReadingsBody(cells, f, n) BY <2>2, <2>3 DEF ReadingsBody
  <2>5. \A n \in 0..k : f[n] = ReadingsBody(cells, f, n) BY <2>1
  <2>6. \A n \in 0..(k + 1) : g[n] = ReadingsBody(cells, g, n)
    <3> HIDE DEF Is
    <3> QED BY <2>2, <2>4, <2>5
  <2>7. g = [n \in 0..(k + 1) |-> g[n]] OBVIOUS
  <2>8. Is(g, k + 1)
    <3> HIDE DEF g
    <3> QED BY <2>6, <2>7
  <2>9. \E h : Is(h, k + 1) BY <2>8
  <2> HIDE DEF Is
  <2> QED BY <2>2, <2>9
<1>3. S = Nat
  <2> HIDE DEF Is
  <2> QED BY <1>1, <1>2, NatSet
<1>4. \E f : Is(f, MaxJumps) BY <1>3
<1>5. Readings(cells) = CHOOSE f : Is(f, MaxJumps) BY DEF Readings, ReadingsBody
<1>6. Is(Readings(cells), MaxJumps)
  <2> HIDE DEF Is
  <2> QED BY <1>4, <1>5
<1> QED BY <1>6

ParsedBody(cells, count, f, n) ==
  IF n = 0 THEN [records |-> <<>>, offset |-> 1] ELSE ParseNext(cells, f[n - 1])

LEMMA ParsedDef ==
  ASSUME NEW cells, NEW count, count \in Nat
  PROVE  Parsed(cells, count) = [n \in 0..count |-> ParsedBody(cells, count, Parsed(cells, count), n)]
<1> DEFINE Is(f, k) == f = [n \in 0..k |-> ParsedBody(cells, count, f, n)]
           S == {k \in Nat : \E f : Is(f, k)}
<1>1. 0 \in S
  <2>1. Is([n \in 0..0 |-> ParsedBody(cells, count, <<>>, 0)], 0) BY DEF ParsedBody
  <2> QED BY <2>1
<1>2. ASSUME NEW k \in S PROVE k + 1 \in S
  <2>1. PICK f : Is(f, k) BY <1>2
  <2> DEFINE g == [n \in 0..(k + 1) |-> IF n = k + 1 THEN ParsedBody(cells, count, f, k + 1) ELSE f[n]]
  <2>2. k \in Nat BY <1>2
  <2>3. \A n \in 0..k : g[n] = f[n] BY <2>2
  <2>4. \A n \in 0..(k + 1) : ParsedBody(cells, count, g, n) = ParsedBody(cells, count, f, n) BY <2>2, <2>3 DEF ParsedBody
  <2>5. \A n \in 0..k : f[n] = ParsedBody(cells, count, f, n) BY <2>1
  <2>6. \A n \in 0..(k + 1) : g[n] = ParsedBody(cells, count, g, n)
    <3> HIDE DEF Is
    <3> QED BY <2>2, <2>4, <2>5
  <2>7. g = [n \in 0..(k + 1) |-> g[n]] OBVIOUS
  <2>8. Is(g, k + 1)
    <3> HIDE DEF g
    <3> QED BY <2>6, <2>7
  <2>9. \E h : Is(h, k + 1) BY <2>8
  <2> HIDE DEF Is
  <2> QED BY <2>2, <2>9
<1>3. S = Nat
  <2> HIDE DEF Is
  <2> QED BY <1>1, <1>2, NatSet
<1>4. \E f : Is(f, count) BY <1>3
<1>5. Parsed(cells, count) = CHOOSE f : Is(f, count) BY DEF Parsed, ParsedBody
<1>6. Is(Parsed(cells, count), count)
  <2> HIDE DEF Is
  <2> QED BY <1>4, <1>5
<1> QED BY <1>6

LearntBody(known, cells, records, f, n) ==
  IF n = 0 THEN known ELSE Take(f[n - 1], cells, records[n])

LEMMA LearntDef ==
  ASSUME NEW known, NEW cells, NEW records, Len(records) \in Nat
  PROVE  Learnt(known, cells, records) = [n \in 0..Len(records) |-> LearntBody(known, cells, records, Learnt(known, cells, records), n)]
<1> DEFINE Is(f, k) == f = [n \in 0..k |-> LearntBody(known, cells, records, f, n)]
           S == {k \in Nat : \E f : Is(f, k)}
<1>1. 0 \in S
  <2>1. Is([n \in 0..0 |-> LearntBody(known, cells, records, <<>>, 0)], 0) BY DEF LearntBody
  <2> QED BY <2>1
<1>2. ASSUME NEW k \in S PROVE k + 1 \in S
  <2>1. PICK f : Is(f, k) BY <1>2
  <2> DEFINE g == [n \in 0..(k + 1) |-> IF n = k + 1 THEN LearntBody(known, cells, records, f, k + 1) ELSE f[n]]
  <2>2. k \in Nat BY <1>2
  <2>3. \A n \in 0..k : g[n] = f[n] BY <2>2
  <2>4. \A n \in 0..(k + 1) : LearntBody(known, cells, records, g, n) = LearntBody(known, cells, records, f, n) BY <2>2, <2>3 DEF LearntBody
  <2>5. \A n \in 0..k : f[n] = LearntBody(known, cells, records, f, n) BY <2>1
  <2>6. \A n \in 0..(k + 1) : g[n] = LearntBody(known, cells, records, g, n)
    <3> HIDE DEF Is
    <3> QED BY <2>2, <2>4, <2>5
  <2>7. g = [n \in 0..(k + 1) |-> g[n]] OBVIOUS
  <2>8. Is(g, k + 1)
    <3> HIDE DEF g
    <3> QED BY <2>6, <2>7
  <2>9. \E h : Is(h, k + 1) BY <2>8
  <2> HIDE DEF Is
  <2> QED BY <2>2, <2>9
<1>3. S = Nat
  <2> HIDE DEF Is
  <2> QED BY <1>1, <1>2, NatSet
<1>4. \E f : Is(f, Len(records)) BY <1>3
<1>5. Learnt(known, cells, records) = CHOOSE f : Is(f, Len(records)) BY DEF Learnt, LearntBody
<1>6. Is(Learnt(known, cells, records), Len(records))
  <2> HIDE DEF Is
  <2> QED BY <1>4, <1>5
<1> QED BY <1>6

(***************************************************************************)
(* Reading a name.                                                         *)
(***************************************************************************)
LEMMA CellKinds ==
  ASSUME NEW c \in Cell
  PROVE  /\ c[1] = "start" => c = <<"start", c[2]>> /\ c[2] \in Name /\ c[2] # <<>>
                              /\ Label(c) \in LabelSet
         /\ c[1] = "pointer" => c = <<"pointer", c[2]>> /\ c[2] \in Nat
<1>1. c[1] = "start" => c = <<"start", c[2]>> /\ c[2] \in Name /\ c[2] # <<>> BY DEF Cell
<1>2. c[1] = "pointer" => c = <<"pointer", c[2]>> /\ c[2] \in Nat BY DEF Cell
<1>3. ASSUME c[1] = "start" PROVE Label(c) \in LabelSet
  <2>1. c[2] \in Seq(LabelSet) /\ c[2] # <<>> BY <1>1, <1>3 DEF Name
  <2>2. Len(c[2]) \in Nat \ {0} BY <2>1, EmptySeq
  <2> QED BY <2>1, <2>2 DEF Label
<1> QED BY <1>1, <1>2, <1>3

LEMMA StopIs ==
  ASSUME NEW cells \in Seq(Cell), NEW o \in DOMAIN cells, Stops(cells, o) # {}
  PROVE  /\ Min(Stops(cells, o)) \in o..Len(cells)
         /\ cells[Min(Stops(cells, o))][1] # "start"
         /\ \A i \in o..(Min(Stops(cells, o)) - 1) : cells[i][1] = "start"
<1>1. DOMAIN cells = 1..Len(cells) /\ Len(cells) \in Nat BY LenProperties
<1>2. Stops(cells, o) \subseteq Nat BY <1>1 DEF Stops
<1>3. Min(Stops(cells, o)) \in Stops(cells, o) /\ \A x \in Stops(cells, o) : Min(Stops(cells, o)) <= x
  BY <1>2, MinIs
<1> HIDE DEF Min
<1>4. \A i \in o..Len(cells) : cells[i][1] # "start" => i \in Stops(cells, o) BY DEF Stops
<1>5. Min(Stops(cells, o)) \in o..Len(cells) /\ cells[Min(Stops(cells, o))][1] # "start"
  BY <1>3 DEF Stops
<1> DEFINE m == Min(Stops(cells, o))
<1>6. ASSUME NEW i \in o..(m - 1), cells[i][1] # "start" PROVE FALSE
  <2>1. i \in Stops(cells, o) BY <1>1, <1>4, <1>5, <1>6
  <2>2. m <= i BY <1>3, <2>1
  <2> QED BY <1>1, <1>5, <2>2
<1> QED BY <1>5, <1>6

\* The other way round.
LEMMA StopAt ==
  ASSUME NEW cells \in Seq(Cell), NEW o \in DOMAIN cells, NEW e \in o..Len(cells),
         cells[e][1] # "start", \A i \in o..(e - 1) : cells[i][1] = "start"
  PROVE  Stops(cells, o) # {} /\ Min(Stops(cells, o)) = e
<1>1. DOMAIN cells = 1..Len(cells) /\ Len(cells) \in Nat BY LenProperties
<1>2. Stops(cells, o) # {} BY <1>1 DEF Stops
<1>3. Min(Stops(cells, o)) \in o..Len(cells) /\ cells[Min(Stops(cells, o))][1] # "start"
      /\ \A i \in o..(Min(Stops(cells, o)) - 1) : cells[i][1] = "start"
  BY <1>2, StopIs
<1> DEFINE m == Min(Stops(cells, o))
<1>4. m \in o..Len(cells) /\ cells[m][1] # "start" /\ \A i \in o..(m - 1) : cells[i][1] = "start"
  BY <1>3
<1> HIDE DEF m
<1>5. m = e
  <2>1. ~(m < e) BY <1>1, <1>4
  <2>2. ~(e < m) BY <1>1, <1>4
  <2> QED BY <1>1, <1>4, <2>1, <2>2
<1> QED BY <1>2, <1>5 DEF m

LEMMA LabelsAre ==
  ASSUME NEW cells \in Seq(Cell), NEW o \in DOMAIN cells, NEW e \in o..Len(cells),
         \A i \in o..(e - 1) : cells[i][1] = "start"
  PROVE  /\ LabelsFrom(cells, o, e) \in Name /\ Len(LabelsFrom(cells, o, e)) = e - o
         /\ o < e => LabelsFrom(cells, o, e) = <<Label(cells[o])>> \o LabelsFrom(cells, o + 1, e)
         /\ o = e => LabelsFrom(cells, o, e) = <<>>
<1>1. DOMAIN cells = 1..Len(cells) /\ Len(cells) \in Nat BY LenProperties
<1>2. ASSUME NEW a \in o..e
      PROVE  LabelsFrom(cells, a, e) \in Name /\ Len(LabelsFrom(cells, a, e)) = e - a
  <2>1. e - a \in Nat BY <1>1
  <2>2. \A i \in 1..(e - a) : Label(cells[a + i - 1]) \in LabelSet
    <3> SUFFICES ASSUME NEW i \in 1..(e - a) PROVE Label(cells[a + i - 1]) \in LabelSet OBVIOUS
    <3>1. a + i - 1 \in o..(e - 1) /\ a + i - 1 \in 1..Len(cells) BY <1>1
    <3> QED BY <1>1, <3>1, CellKinds
  <2> QED BY <2>1, <2>2 DEF LabelsFrom, Name
<1>3. ASSUME o < e PROVE LabelsFrom(cells, o, e) = <<Label(cells[o])>> \o LabelsFrom(cells, o + 1, e)
  <2>1. o + 1 \in o..e /\ o \in o..e BY <1>1, <1>3
  <2>2. /\ LabelsFrom(cells, o, e) \in Seq(LabelSet) /\ Len(LabelsFrom(cells, o, e)) = e - o
        /\ LabelsFrom(cells, o + 1, e) \in Seq(LabelSet)
        /\ Len(LabelsFrom(cells, o + 1, e)) = e - (o + 1)
    BY <1>2, <2>1 DEF Name
  <2>3. Label(cells[o]) \in LabelSet BY <1>1, <1>3, CellKinds
  <2>4. <<Label(cells[o])>> \in Seq(LabelSet) /\ Len(<<Label(cells[o])>>) = 1 BY <2>3
  <2> DEFINE s == <<Label(cells[o])>>
             t == LabelsFrom(cells, o + 1, e)
  <2>5. /\ s \o t \in Seq(LabelSet) /\ Len(s \o t) = 1 + (e - (o + 1))
        /\ \A i \in 1..(1 + (e - (o + 1))) : (s \o t)[i] = IF i <= 1 THEN s[i] ELSE t[i - 1]
    <3> HIDE DEF s, t
    <3>1. s \in Seq(LabelSet) /\ t \in Seq(LabelSet) /\ Len(s) = 1 /\ Len(t) = e - (o + 1)
      BY <2>2, <2>4 DEF s, t
    <3>2. /\ s \o t \in Seq(LabelSet) /\ Len(s \o t) = Len(s) + Len(t)
          /\ \A i \in 1..(Len(s) + Len(t)) : (s \o t)[i] = IF i <= Len(s) THEN s[i] ELSE t[i - Len(s)]
      BY <3>1, ConcatProperties
    <3> QED BY <3>1, <3>2
  <2>6. \A i \in 1..(e - o) : LabelsFrom(cells, o, e)[i] = (s \o t)[i]
    <3> SUFFICES ASSUME NEW i \in 1..(e - o) PROVE LabelsFrom(cells, o, e)[i] = (s \o t)[i] OBVIOUS
    <3>1. LabelsFrom(cells, o, e)[i] = Label(cells[o + i - 1]) BY DEF LabelsFrom
    <3>2. CASE i = 1 BY <1>1, <1>3, <2>5, <3>1, <3>2
    <3>3. CASE i > 1
      <4>1. t[i - 1] = Label(cells[(o + 1) + (i - 1) - 1]) BY <1>1, <3>3 DEF LabelsFrom
      <4>2. (o + 1) + (i - 1) - 1 = o + i - 1 BY <1>1
      <4>3. i \in 1..(1 + (e - (o + 1))) /\ ~(i <= 1) BY <1>1, <3>3
      <4>4. (s \o t)[i] = t[i - 1] BY <2>5, <4>3
      <4> QED BY <3>1, <4>1, <4>2, <4>4
    <3>4. i = 1 \/ i > 1 BY <1>1
    <3> QED BY <3>2, <3>3, <3>4
  <2>7. e - o = 1 + (e - (o + 1)) BY <1>1
  <2> HIDE DEF s, t
  <2>8. LabelsFrom(cells, o, e) = s \o t BY <2>2, <2>5, <2>6, <2>7, SeqEqual
  <2> QED BY <2>8 DEF s, t
<1>4. o = e => LabelsFrom(cells, o, e) = <<>> BY <1>1 DEF LabelsFrom
<1>5. o \in o..e BY <1>1
<1> QED BY <1>2, <1>3, <1>4, <1>5

LEMMA NamesAssociate ==
  ASSUME NEW s \in Name, NEW t \in Name, NEW u \in Name
  PROVE  (s \o t) \o u = s \o (t \o u)
BY ConcatAssociative, SMT DEF Name

\* What NamesAt says of a cell that is the end of a name, a pointer, or a label.
LEMMA NamesAtStop ==
  ASSUME NEW cells \in Seq(Cell), NEW o \in DOMAIN cells, NEW e \in o..Len(cells), NEW beyond,
         cells[e][1] # "start", \A i \in o..(e - 1) : cells[i][1] = "start"
  PROVE  /\ cells[e][1] = "end" => NamesAt(cells, beyond)[o] = {LabelsFrom(cells, o, e)}
         /\ cells[e][1] = "pointer" => NamesAt(cells, beyond)[o] =
              Prefixed(LabelsFrom(cells, o, e), beyond[cells[e][2]])
         /\ cells[e][1] \notin {"end", "pointer"} => NamesAt(cells, beyond)[o] = {}
<1>1. Stops(cells, o) # {} /\ Min(Stops(cells, o)) = e BY StopAt
<1> HIDE DEF Min
<1> QED BY <1>1 DEF NamesAt

LEMMA NamesAtTypes ==
  ASSUME NEW cells \in Seq(Cell), Backward(cells), NEW beyond \in Table(cells)
  PROVE  NamesAt(cells, beyond) \in Table(cells)
<1>1. DOMAIN cells = 1..Len(cells) /\ Len(cells) \in Nat BY LenProperties
<1> SUFFICES ASSUME NEW o \in DOMAIN cells PROVE NamesAt(cells, beyond)[o] \subseteq Name
  BY DEF NamesAt, Table
<1>2. CASE Stops(cells, o) = {} BY <1>2 DEF NamesAt
<1>3. CASE Stops(cells, o) # {}
  <2>1. PICK e \in o..Len(cells) : cells[e][1] # "start" /\ \A i \in o..(e - 1) : cells[i][1] = "start"
    BY <1>3, StopIs
  <2>2. LabelsFrom(cells, o, e) \in Name BY <2>1, LabelsAre
  <2>3. ASSUME cells[e][1] = "pointer", NEW rest \in beyond[cells[e][2]]
        PROVE  LabelsFrom(cells, o, e) \o rest \in Name
    <3>1. e \in DOMAIN cells BY <1>1
    <3>2. cells[e][2] \in DOMAIN cells BY <1>1, <2>3, <3>1 DEF Backward
    <3>3. rest \in Name BY <2>3, <3>2 DEF Table
    <3> QED BY <2>2, <3>3, ConcatProperties DEF Name
  <2>4. /\ cells[e][1] = "end" => NamesAt(cells, beyond)[o] = {LabelsFrom(cells, o, e)}
        /\ cells[e][1] = "pointer" => NamesAt(cells, beyond)[o] =
             Prefixed(LabelsFrom(cells, o, e), beyond[cells[e][2]])
        /\ cells[e][1] \notin {"end", "pointer"} => NamesAt(cells, beyond)[o] = {}
    BY <2>1, NamesAtStop
  <2>5. CASE cells[e][1] = "end"
    <3>1. NamesAt(cells, beyond)[o] = {LabelsFrom(cells, o, e)} BY <2>4, <2>5
    <3>2. {LabelsFrom(cells, o, e)} \subseteq Name BY <2>2
    <3> QED BY <3>1, <3>2
  <2>6. CASE cells[e][1] = "pointer"
    <3>1. NamesAt(cells, beyond)[o] = Prefixed(LabelsFrom(cells, o, e), beyond[cells[e][2]])
      BY <2>4, <2>6
    <3> QED BY <2>3, <2>6, <3>1 DEF Prefixed
  <2>7. CASE cells[e][1] \notin {"end", "pointer"} BY <2>4, <2>7
  <2> QED BY <2>5, <2>6, <2>7
<1> QED BY <1>2, <1>3

LEMMA EndIsNamed ==
  ASSUME NEW cells \in Seq(Cell), NEW o \in DOMAIN cells, NEW beyond, cells[o] = <<"end">>
  PROVE  NamesAt(cells, beyond)[o] = {<<>>}
<1>1. DOMAIN cells = 1..Len(cells) /\ Len(cells) \in Nat BY LenProperties
<1>2. o \in o..Len(cells) /\ \A i \in o..(o - 1) : cells[i][1] = "start" BY <1>1
<1>3. LabelsFrom(cells, o, o) = <<>> BY <1>1, <1>2, LabelsAre
<1>4. cells[o][1] = "end" /\ cells[o][1] # "start" OBVIOUS
<1> QED BY <1>2, <1>3, <1>4, NamesAtStop

LEMMA PointerIsNamed ==
  ASSUME NEW cells \in Seq(Cell), NEW o \in DOMAIN cells, NEW beyond, NEW s \in Name,
         cells[o][1] = "pointer", beyond[cells[o][2]] = {s}
  PROVE  NamesAt(cells, beyond)[o] = {s}
<1>1. DOMAIN cells = 1..Len(cells) /\ Len(cells) \in Nat BY LenProperties
<1>2. o \in o..Len(cells) /\ \A i \in o..(o - 1) : cells[i][1] = "start" BY <1>1
<1>3. LabelsFrom(cells, o, o) = <<>> BY <1>1, <1>2, LabelsAre
<1>4. cells[o][1] # "start" /\ o \in o..Len(cells) BY <1>2
<1>5. NamesAt(cells, beyond)[o] = Prefixed(LabelsFrom(cells, o, o), beyond[cells[o][2]])
  <2>1. PICK e \in o..Len(cells) : e = o BY <1>4
  <2>2. cells[e][1] # "start" /\ cells[e][1] = "pointer" BY <1>4, <2>1
  <2>3. \A i \in o..(e - 1) : cells[i][1] = "start" BY <1>2, <2>1
  <2>4. NamesAt(cells, beyond)[o] = Prefixed(LabelsFrom(cells, o, e), beyond[cells[e][2]])
    BY <2>2, <2>3, NamesAtStop
  <2> QED BY <2>1, <2>4
<1>6. <<>> \o s = s BY ConcatEmptySeq DEF Name
<1> QED BY <1>3, <1>5, <1>6 DEF Prefixed

LEMMA LabelIsNamed ==
  ASSUME NEW cells \in Seq(Cell), Backward(cells), NEW o \in DOMAIN cells,
         NEW beyond \in Table(cells), NEW s \in Name,
         NEW q \in DOMAIN cells, q = o + 1,
         cells[o][1] = "start", NamesAt(cells, beyond)[q] = {s}
  PROVE  NamesAt(cells, beyond)[o] = {<<Label(cells[o])>> \o s}
<1>0. DOMAIN cells = 1..Len(cells) /\ Len(cells) \in Nat BY LenProperties
<1>1. o + 1 \in DOMAIN cells BY <1>0
<1>2. Stops(cells, o + 1) # {} BY <1>1 DEF NamesAt
<1>3. PICK e \in (o + 1)..Len(cells) :
        cells[e][1] # "start" /\ \A i \in (o + 1)..(e - 1) : cells[i][1] = "start"
  BY <1>1, <1>2, StopIs
<1>4. e \in o..Len(cells) /\ \A i \in o..(e - 1) : cells[i][1] = "start" BY <1>0, <1>3
<1> DEFINE l == <<Label(cells[o])>>
           a == LabelsFrom(cells, o, e)
           b == LabelsFrom(cells, o + 1, e)
<1>5. a = l \o b
  <2>1. o < e BY <1>0, <1>3
  <2> QED BY <1>4, <2>1, LabelsAre
<1>6. b \in Name BY <1>1, <1>3, LabelsAre
<1>7. l \in Name BY <1>0, CellKinds DEF Name
<1>8. /\ cells[e][1] = "end" => NamesAt(cells, beyond)[o] = {a}
      /\ cells[e][1] = "pointer" => NamesAt(cells, beyond)[o] = Prefixed(a, beyond[cells[e][2]])
      /\ cells[e][1] \notin {"end", "pointer"} => NamesAt(cells, beyond)[o] = {}
  BY <1>3, <1>4, NamesAtStop
<1>9. /\ cells[e][1] = "end" => {s} = {b}
      /\ cells[e][1] = "pointer" => {s} = Prefixed(b, beyond[cells[e][2]])
      /\ cells[e][1] \notin {"end", "pointer"} => {s} = {}
  <2>1. /\ cells[e][1] = "end" => NamesAt(cells, beyond)[o + 1] = {b}
        /\ cells[e][1] = "pointer" => NamesAt(cells, beyond)[o + 1] = Prefixed(b, beyond[cells[e][2]])
        /\ cells[e][1] \notin {"end", "pointer"} => NamesAt(cells, beyond)[o + 1] = {}
    BY <1>1, <1>3, NamesAtStop
  <2> QED BY <2>1
<1> HIDE DEF a, b, l
<1>10. CASE cells[e][1] = "end" BY <1>5, <1>8, <1>9, <1>10 DEF l
<1>11. CASE cells[e][1] = "pointer"
  <2>1. cells[e][2] \in DOMAIN cells BY <1>0, <1>4, <1>11 DEF Backward
  <2>2. \A rest \in beyond[cells[e][2]] : rest \in Name BY <2>1 DEF Table
  <2>3. \A rest \in beyond[cells[e][2]] : a \o rest = l \o (b \o rest)
    <3> SUFFICES ASSUME NEW rest \in beyond[cells[e][2]] PROVE a \o rest = l \o (b \o rest) OBVIOUS
    <3>1. rest \in Name /\ b \in Name /\ l \in Name BY <1>6, <1>7, <2>2
    <3>2. (l \o b) \o rest = l \o (b \o rest) BY <3>1, NamesAssociate
    <3> QED BY <1>5, <3>2
  <2>4. {s} = Prefixed(b, beyond[cells[e][2]]) BY <1>9, <1>11
  <2>5. NamesAt(cells, beyond)[o] = Prefixed(a, beyond[cells[e][2]]) BY <1>8, <1>11
  <2>6. \A rest \in beyond[cells[e][2]] : a \o rest = l \o s BY <2>3, <2>4 DEF Prefixed
  <2>7. beyond[cells[e][2]] # {} BY <2>4 DEF Prefixed
  <2>8. NamesAt(cells, beyond)[o] = {l \o s} BY <2>5, <2>6, <2>7 DEF Prefixed
  <2> QED BY <2>8 DEF l
<1>12. CASE cells[e][1] \notin {"end", "pointer"} BY <1>9, <1>12
<1> QED BY <1>10, <1>11, <1>12

LEMMA ReadingsTypes ==
  ASSUME NEW cells \in Seq(Cell), Backward(cells), MaxJumps \in Nat, NEW j \in 0..MaxJumps
  PROVE  Readings(cells)[j] \in Table(cells)
<1> DEFINE Nothing == [offset \in DOMAIN cells |-> {}]
           S == {n \in 0..MaxJumps : Readings(cells)[n] \in Table(cells)}
<1>1. \A n \in 0..MaxJumps : Readings(cells)[n] =
         NamesAt(cells, IF n = 0 THEN Nothing ELSE Readings(cells)[n - 1])
  BY ReadingsDef DEF ReadingsBody
<1>2. 0 \in S
  <2>1. Nothing \in Table(cells) BY DEF Table
  <2>2. 0 \in 0..MaxJumps OBVIOUS
  <2>3. Readings(cells)[0] = NamesAt(cells, IF 0 = 0 THEN Nothing ELSE Readings(cells)[0 - 1])
    BY <1>1, <2>2
  <2>4. Readings(cells)[0] = NamesAt(cells, Nothing) BY <2>3
  <2> HIDE DEF Nothing
  <2> QED BY <2>1, <2>2, <2>4, NamesAtTypes
<1>3. ASSUME NEW n \in 0..MaxJumps, n \in S, n < MaxJumps PROVE n + 1 \in S
  <2>1. n + 1 \in 0..MaxJumps /\ n + 1 # 0 /\ (n + 1) - 1 = n BY <1>3
  <2>2. Readings(cells)[n + 1] = NamesAt(cells, Readings(cells)[n]) BY <1>1, <2>1
  <2>3. Readings(cells)[n] \in Table(cells) BY <1>3
  <2> QED BY <2>1, <2>2, <2>3, NamesAtTypes
<1> HIDE DEF S
<1>4. 0..MaxJumps \subseteq S BY <1>2, <1>3, UpTo
<1> QED BY <1>4 DEF S

\* A name is its label and the rest of it.
LEMMA NameOfParts ==
  ASSUME NEW s \in Name, s # <<>>
  PROVE  /\ Tail(s) \in Name /\ s = <<s[1]>> \o Tail(s) /\ Len(Tail(s)) = Len(s) - 1
         /\ Len(s) = 1 => s = <<s[1]>> \o <<>>
<1>1. s \in Seq(LabelSet) BY DEF Name
<1>2. Len(s) \in Nat \ {0} BY <1>1, EmptySeq
<1> QED BY <1>1, <1>2 DEF Name

\* The label at o begins a name that is read whole with as many jumps as it has labels
\* but one.
IsRead(cells, e, n) ==
  \A o \in 1..e, j \in 0..MaxJumps :
    cells[o][1] = "start" /\ Len(cells[o][2]) = n /\ j >= n - 1
      => Readings(cells)[j][o] = {cells[o][2]}

LEMMA LabelIsRead ==
  ASSUME NEW cells \in Seq(Cell), NEW e \in 0..Len(cells), Closed(cells, e), Backward(cells),
         MaxJumps \in Nat, NEW n \in 1..3, n > 1 => IsRead(cells, e, n - 1)
  PROVE  IsRead(cells, e, n)
<1>1. DOMAIN cells = 1..Len(cells) /\ Len(cells) \in Nat BY LenProperties
<1> SUFFICES ASSUME NEW o \in 1..e, NEW j \in 0..MaxJumps,
                    cells[o][1] = "start", Len(cells[o][2]) = n, j >= n - 1
             PROVE  Readings(cells)[j][o] = {cells[o][2]}
  BY DEF IsRead
<1>s. PICK s : s = cells[o][2] OBVIOUS
<1>b. PICK beyond : beyond = IF j = 0 THEN [offset \in DOMAIN cells |-> {}] ELSE Readings(cells)[j - 1]
  OBVIOUS
<1>2. Readings(cells)[j] = NamesAt(cells, beyond) BY <1>b, ReadingsDef DEF ReadingsBody
<1>3. beyond \in Table(cells)
  <2>1. CASE j = 0 BY <1>b, <2>1 DEF Table
  <2>2. CASE j # 0
    <3>1. j - 1 \in 0..MaxJumps BY <2>2
    <3> QED BY <1>b, <2>2, <3>1, ReadingsTypes
  <2> QED BY <2>1, <2>2
<1>4. /\ o \in DOMAIN cells /\ o + 1 \in DOMAIN cells /\ o < Len(cells)
      /\ s \in Name /\ s # <<>> /\ Label(cells[o]) = s[1]
  <2>1. Spelled(cells, o, e) BY DEF Closed
  <2>2. o \in DOMAIN cells /\ o + 1 <= e BY <1>1, <2>1 DEF Spelled
  <2>3. s \in Name /\ s # <<>> BY <1>1, <1>s, <2>2, CellKinds
  <2> QED BY <1>1, <1>s, <2>2, <2>3 DEF Label
<1>5. /\ Len(s) = n /\ o + 1 <= e
      /\ \/ n = 1 /\ cells[o + 1] = <<"end">>
         \/ n > 1 /\ cells[o + 1] = <<"start", Tail(s)>>
         \/ n > 1 /\ \E t \in 1..o : /\ cells[o + 1] = <<"pointer", t>>
                                     /\ cells[t] = <<"start", Tail(s)>>
  <2>1. Spelled(cells, o, e) BY DEF Closed
  <2> QED BY <1>s, <2>1 DEF Spelled
<1>r. PICK rest : rest = IF n = 1 THEN <<>> ELSE Tail(s) OBVIOUS
<1>6. NamesAt(cells, beyond)[o + 1] = {rest} /\ rest \in Name
  <2>1. CASE n = 1
    <3>1. cells[o + 1] = <<"end">> BY <1>5, <2>1
    <3>2. <<>> \in Name BY EmptySeq DEF Name
    <3>3. NamesAt(cells, beyond)[o + 1] = {<<>>} BY <1>4, <3>1, EndIsNamed
    <3> QED BY <1>r, <2>1, <3>2, <3>3
  <2>2. CASE n > 1
    <3>1. Tail(s) \in Name /\ Len(Tail(s)) = n - 1 BY <1>4, <1>5, NameOfParts
    <3>2. IsRead(cells, e, n - 1) BY <2>2
    <3>3. CASE cells[o + 1] = <<"start", Tail(s)>>
      <4>1. o + 1 \in 1..e BY <1>5
      <4>0. cells[o + 1][1] = "start" /\ cells[o + 1][2] = Tail(s) BY <3>3
      <4>2. j >= (n - 1) - 1 BY <2>2
      <4>3. Readings(cells)[j][o + 1] = {Tail(s)}
        BY <3>1, <3>2, <4>0, <4>1, <4>2 DEF IsRead
      <4> QED BY <1>2, <1>r, <2>2, <3>1, <4>3
    <3>4. CASE \E t \in 1..o : cells[o + 1] = <<"pointer", t>> /\ cells[t] = <<"start", Tail(s)>>
      <4>1. PICK t \in 1..o : cells[o + 1] = <<"pointer", t>> /\ cells[t] = <<"start", Tail(s)>>
        BY <3>4
      <4>2. j # 0 /\ j - 1 \in 0..MaxJumps /\ j - 1 >= (n - 1) - 1 /\ t \in 1..e BY <2>2
      <4>0. cells[t][1] = "start" /\ cells[t][2] = Tail(s) BY <4>1
      <4>3. Readings(cells)[j - 1][t] = {Tail(s)} BY <3>1, <3>2, <4>0, <4>2 DEF IsRead
      <4>4. beyond[t] = {Tail(s)} BY <1>b, <4>2, <4>3
      <4>5. cells[o + 1][1] = "pointer" /\ cells[o + 1][2] = t BY <4>1
      <4>7. beyond[cells[o + 1][2]] = {Tail(s)} BY <4>4, <4>5
      <4>6. NamesAt(cells, beyond)[o + 1] = {Tail(s)}
        <5>1. PICK q \in DOMAIN cells : q = o + 1 BY <1>4
        <5>2. PICK u \in Name : u = Tail(s) BY <3>1
        <5>3. cells[q][1] = "pointer" /\ beyond[cells[q][2]] = {u} BY <4>5, <4>7, <5>1, <5>2
        <5>4. NamesAt(cells, beyond)[q] = {u} BY <5>3, PointerIsNamed
        <5> QED BY <5>1, <5>2, <5>4
      <4> QED BY <1>r, <2>2, <3>1, <4>6
    <3>5. \/ cells[o + 1] = <<"start", Tail(s)>>
          \/ \E t \in 1..o : cells[o + 1] = <<"pointer", t>> /\ cells[t] = <<"start", Tail(s)>>
      BY <1>5, <2>2
    <3> QED BY <3>3, <3>4, <3>5
  <2> QED BY <2>1, <2>2
<1>7. NamesAt(cells, beyond)[o] = {<<s[1]>> \o rest}
  <2>1. cells[o][1] = "start" OBVIOUS
  <2>2. NamesAt(cells, beyond)[o] = {<<Label(cells[o])>> \o rest}
    <3>1. PICK q \in DOMAIN cells : q = o + 1 BY <1>4
    <3>2. NamesAt(cells, beyond)[q] = {rest} BY <1>6, <3>1
    <3>3. o \in DOMAIN cells /\ rest \in Name BY <1>4, <1>6
    <3> QED BY <1>3, <2>1, <3>1, <3>2, <3>3, LabelIsNamed
  <2> QED BY <1>4, <2>2
<1>8. s = <<s[1]>> \o rest BY <1>4, <1>5, <1>r, NameOfParts
<1> QED BY <1>2, <1>7, <1>8, <1>s

\* Three jumps are enough for the names of this program.
LEMMA NameIsRead ==
  ASSUME NEW cells \in Seq(Cell), NEW e \in 0..Len(cells), Closed(cells, e), Backward(cells),
         MaxJumps \in Nat, MaxJumps >= 3, NEW o \in 1..e, NEW s, Len(s) \in 1..3,
         \/ cells[o] = <<"start", s>>
         \/ \E t \in 1..(o - 1) : cells[o] = <<"pointer", t>> /\ cells[t] = <<"start", s>>
  PROVE  ReadName(cells, o) = {s}
<1>1. DOMAIN cells = 1..Len(cells) /\ Len(cells) \in Nat BY LenProperties
<1>2. IsRead(cells, e, 1) BY LabelIsRead
<1>3. IsRead(cells, e, 2) BY <1>2, LabelIsRead
<1>4. IsRead(cells, e, 3) BY <1>3, LabelIsRead
<1>5. ASSUME NEW t \in 1..e, NEW j \in 2..MaxJumps, cells[t] = <<"start", s>>
      PROVE  Readings(cells)[j][t] = {s} /\ s \in Name
  <2>1. cells[t][1] = "start" /\ cells[t][2] = s /\ t \in DOMAIN cells BY <1>1, <1>5
  <2> QED BY <1>2, <1>3, <1>4, <2>1, CellKinds DEF IsRead
<1>6. ReadName(cells, o) = Readings(cells)[MaxJumps][o] BY <1>1 DEF ReadName
<1>7. CASE cells[o] = <<"start", s>> BY <1>5, <1>6, <1>7
<1>8. CASE \E t \in 1..(o - 1) : cells[o] = <<"pointer", t>> /\ cells[t] = <<"start", s>>
  <2>1. PICK t \in 1..(o - 1) : cells[o] = <<"pointer", t>> /\ cells[t] = <<"start", s>> BY <1>8
  <2>2. MaxJumps - 1 \in 2..MaxJumps /\ MaxJumps - 1 \in 0..MaxJumps /\ MaxJumps # 0
        /\ MaxJumps \in 0..MaxJumps /\ t \in 1..e
    OBVIOUS
  <2>3. Readings(cells)[MaxJumps - 1][t] = {s} /\ s \in Name BY <1>5, <2>1, <2>2
  <2>4. Readings(cells)[MaxJumps] = NamesAt(cells, Readings(cells)[MaxJumps - 1])
    BY <2>2, ReadingsDef DEF ReadingsBody
  <2>5. Readings(cells)[MaxJumps - 1] \in Table(cells) BY <2>2, ReadingsTypes
  <2>6. cells[o][1] = "pointer" /\ cells[o][2] = t /\ o \in DOMAIN cells BY <1>1, <2>1
  <2>7. NamesAt(cells, Readings(cells)[MaxJumps - 1])[o] = {s} BY <2>3, <2>5, <2>6, PointerIsNamed
  <2> QED BY <1>6, <2>4, <2>7
<1> QED BY <1>7, <1>8

(***************************************************************************)
(* Writing a name.                                                         *)
(***************************************************************************)
LEMMA NamesHaveLabels ==
  ASSUME NEW p \in Phones
  PROVE  /\ Service \in Name /\ Len(Service) = 2
         /\ Instance(p) \in Name /\ Len(Instance(p)) = 3
         /\ Host(p) \in Name /\ Len(Host(p)) = 3
         /\ Named(p, "PTR") \in Name /\ Len(Named(p, "PTR")) = 3
         /\ Named(p, "SRV") \in Name /\ Len(Named(p, "SRV")) = 3
<1>1. /\ Small(p) \in LabelSet /\ Capital(p) \in LabelSet /\ Small("host") \in LabelSet
      /\ Small("local") \in LabelSet /\ Small("_reashoot") \in LabelSet
  BY DEF LabelSet, Small, Capital
<1>2. Service \in Seq(LabelSet) /\ Len(Service) = 2 BY <1>1 DEF Service
<1>3. <<Small(p)>> \in Seq(LabelSet) /\ Len(<<Small(p)>>) = 1 BY <1>1
<1>4. <<Capital(p)>> \in Seq(LabelSet) /\ Len(<<Capital(p)>>) = 1 BY <1>1
<1>9. ASSUME NEW s \in Seq(LabelSet), NEW t \in Seq(LabelSet), Len(s) = 1, Len(t) = 2
      PROVE  s \o t \in Seq(LabelSet) /\ Len(s \o t) = 3
  <2>1. s \o t \in Seq(LabelSet) OBVIOUS
  <2>2. Len(s \o t) = Len(s) + Len(t) OBVIOUS
  <2> QED BY <1>9, <2>1, <2>2
<1>5. Instance(p) \in Seq(LabelSet) /\ Len(Instance(p)) = 3
  BY <1>2, <1>3, <1>9 DEF Instance
<1>6. Host(p) \in Seq(LabelSet) /\ Len(Host(p)) = 3 BY <1>1 DEF Host
<1>7. Named(p, "PTR") \in Seq(LabelSet) /\ Len(Named(p, "PTR")) = 3
  <2>1. Named(p, "PTR") = <<Capital(p)>> \o Service BY DEF Named
  <2> QED BY <1>2, <1>4, <1>9, <2>1
<1>8. Named(p, "SRV") \in Seq(LabelSet) /\ Len(Named(p, "SRV")) = 3
  <2>1. Named(p, "SRV") = <<Small("host"), Capital(p), Small("local")>> BY DEF Named
  <2>2. PICK a \in LabelSet, b \in LabelSet, c \in LabelSet :
          a = Small("host") /\ b = Capital(p) /\ c = Small("local")
    BY <1>1
  <2>3. <<a, b, c>> \in Seq(LabelSet) /\ Len(<<a, b, c>>) = 3 OBVIOUS
  <2> QED BY <2>1, <2>2, <2>3
<1> QED BY <1>2, <1>5, <1>6, <1>7, <1>8 DEF Name

\* The rest of a name from its i-th label on.
LEMMA Suffixes ==
  ASSUME NEW name \in Name, NEW i \in 1..Len(name)
  PROVE  LET s == SubSeq(name, i, Len(name))
         IN /\ s \in Name /\ s # <<>> /\ Len(s) = Len(name) - i + 1
            /\ i < Len(name) => Tail(s) = SubSeq(name, i + 1, Len(name))
            /\ i = 1 => s = name
<1>1. name \in Seq(LabelSet) /\ Len(name) \in Nat BY DEF Name
<1>2. SubSeq(name, i, Len(name)) \in Seq(LabelSet) /\ Len(SubSeq(name, i, Len(name))) = Len(name) - i + 1
  BY <1>1, SubSeqProperties
<1>3. i < Len(name) => Tail(SubSeq(name, i, Len(name))) = SubSeq(name, i + 1, Len(name))
  BY <1>1, HeadTailOfSubSeq
<1>4. i = 1 => SubSeq(name, i, Len(name)) = name BY <1>1, SubSeqFull
<1>5. SubSeq(name, i, Len(name)) # <<>>
  <2>1. Len(name) - i + 1 # 0 BY <1>1
  <2>2. Len(<<>>) = 0 OBVIOUS
  <2> QED BY <1>2, <2>1, <2>2
<1> QED BY <1>2, <1>3, <1>4, <1>5 DEF Name

\* The cells w are n labels of the name, and its end or a pointer to the rest of it.
Writes(cells, name, w, n) ==
  /\ n \in 0..Len(name) /\ w \in Seq(Cell) /\ Len(w) = n + 1
  /\ \A i \in 1..n : w[i] = <<"start", SubSeq(name, i, Len(name))>>
  /\ n = Len(name) => w[n + 1] = <<"end">>
  /\ n < Len(name) => \E t \in DOMAIN cells : /\ cells[t] = <<"start", SubSeq(name, n + 1, Len(name))>>
                                             /\ w[n + 1] = <<"pointer", t>>

LEMMA NameIsWritten ==
  ASSUME NEW cells \in Seq(Cell), NEW name \in Name, NEW compress
  PROVE  \E n \in 0..Len(name) : Writes(cells, name, WriteName(cells, name, compress), n)
<1> DEFINE at(i) == {o \in DOMAIN cells : /\ cells[o][1] = "start"
                                          /\ cells[o][2] = SubSeq(name, i, Len(name))}
           known == {i \in DOMAIN name : at(i) # {}}
<1>1. DOMAIN name = 1..Len(name) /\ Len(name) \in Nat /\ DOMAIN cells = 1..Len(cells) /\ Len(cells) \in Nat
  BY LenProperties DEF Name
<1>n. PICK n : n = IF compress /\ known # {} THEN Min(known) - 1 ELSE Len(name) OBVIOUS
<1>l. PICK labels : labels = [i \in 1..n |-> <<"start", SubSeq(name, i, Len(name))>>] OBVIOUS
<1>c. PICK last : last = IF n < Len(name) THEN <<"pointer", Min(at(n + 1))>> ELSE <<"end">> OBVIOUS
<1>2. WriteName(cells, name, compress) = labels \o <<last>>
  <2>1. CASE n < Len(name) BY <1>n, <1>l, <1>c, <2>1 DEF WriteName
  <2>2. CASE ~(n < Len(name)) BY <1>n, <1>l, <1>c, <2>2 DEF WriteName
  <2> QED BY <2>1, <2>2
<1>3. n \in 0..Len(name) /\ (n < Len(name) => at(n + 1) # {})
  <2>1. CASE ~(compress /\ known # {})
    <3>1. n = Len(name) BY <1>n, <2>1
    <3> HIDE DEF known, at
    <3> QED BY <1>1, <3>1
  <2>2. CASE compress /\ known # {}
    <3>1. known \subseteq Nat BY <1>1
    <3> HIDE DEF known
    <3>2. Min(known) \in known BY <2>2, <3>1, MinIs
    <3>3. n = Min(known) - 1 BY <1>n, <2>2
    <3> USE DEF known
    <3>4. Min(known) \in 1..Len(name) /\ at(Min(known)) # {} BY <1>1, <3>2
    <3> HIDE DEF known, Min, at
    <3> QED BY <1>1, <3>3, <3>4
  <2> QED BY <2>1, <2>2
<1> HIDE DEF known
<1>4. labels \in Seq(Cell) /\ Len(labels) = n
      /\ \A i \in 1..n : labels[i] = <<"start", SubSeq(name, i, Len(name))>>
  <2>1. \A i \in 1..n : <<"start", SubSeq(name, i, Len(name))>> \in Cell
    <3> SUFFICES ASSUME NEW i \in 1..n PROVE <<"start", SubSeq(name, i, Len(name))>> \in Cell OBVIOUS
    <3>1. i \in 1..Len(name) BY <1>1, <1>3
    <3>2. SubSeq(name, i, Len(name)) \in Name \ {<<>>} BY <3>1, Suffixes
    <3> QED BY <3>2 DEF Cell
  <2>2. n \in Nat BY <1>1, <1>3
  <2>3. labels \in [1..n -> Cell] BY <1>l, <2>1
  <2>4. labels \in Seq(Cell) BY <2>2, <2>3
  <2>5. Len(labels) = n BY <2>2, <2>3, <2>4, LenProperties
  <2>6. \A i \in 1..n : labels[i] = <<"start", SubSeq(name, i, Len(name))>> BY <1>l
  <2> QED BY <2>4, <2>5, <2>6
<1>5. /\ n < Len(name) => \E t \in DOMAIN cells : /\ cells[t] = <<"start", SubSeq(name, n + 1, Len(name))>>
                                                  /\ last = <<"pointer", t>>
      /\ n = Len(name) => last = <<"end">>
      /\ last \in Cell
  <2>1. CASE n < Len(name)
    <3>1. at(n + 1) \subseteq Nat BY <1>1
    <3>2. at(n + 1) # {} BY <1>3, <2>1
    <3>3. PICK S : S = at(n + 1) OBVIOUS
    <3>4. Min(S) \in S BY <3>1, <3>2, <3>3, MinIs
    <3>5. PICK t : t = Min(S) OBVIOUS
    <3>6. t \in DOMAIN cells /\ cells[t][1] = "start" /\ cells[t][2] = SubSeq(name, n + 1, Len(name))
      BY <3>3, <3>4, <3>5
    <3>7. cells[t] = <<"start", SubSeq(name, n + 1, Len(name))>>
      <4>1. cells[t] \in Cell BY <1>1, <3>6
      <4> QED BY <3>6, <4>1, CellKinds
    <3>8. last = <<"pointer", t>> BY <1>c, <2>1, <3>3, <3>5
    <3>9. last \in Cell BY <1>1, <3>6, <3>8 DEF Cell
    <3> QED BY <2>1, <3>6, <3>7, <3>8, <3>9
  <2>2. CASE n = Len(name)
    <3>1. ~(n < Len(name)) BY <1>1, <2>2
    <3>2. last = <<"end">> BY <1>c, <3>1
    <3>3. last \in Cell BY <3>2 DEF Cell
    <3> QED BY <3>1, <3>2, <3>3
  <2>3. n < Len(name) \/ n = Len(name)
    <3>1. n \in 0..Len(name) BY <1>3
    <3>2. Len(name) \in Nat BY <1>1
    <3> HIDE DEF at
    <3> QED BY <3>1, <3>2
  <2>4. ~(n < Len(name) /\ n = Len(name))
    <3>1. Len(name) \in Nat BY <1>1
    <3> HIDE DEF at, known
    <3>2. ~(Len(name) < Len(name)) BY <3>1
    <3> QED BY <3>2
  <2> HIDE DEF at
  <2> QED BY <2>1, <2>2, <2>3, <2>4
<1> HIDE DEF at
<1>6. /\ labels \o <<last>> \in Seq(Cell) /\ Len(labels \o <<last>>) = n + 1
      /\ \A i \in 1..n : (labels \o <<last>>)[i] = labels[i]
      /\ (labels \o <<last>>)[n + 1] = last
  <2>1. n \in Nat BY <1>1, <1>3
  <2> QED BY <1>4, <1>5, <2>1
<1>7. Writes(cells, name, labels \o <<last>>, n)
  <2>1. \A i \in 1..n : (labels \o <<last>>)[i] = <<"start", SubSeq(name, i, Len(name))>>
    BY <1>4, <1>6
  <2>2. PICK w : w = labels \o <<last>> OBVIOUS
  <2>3. Writes(cells, name, w, n) BY <1>3, <1>5, <1>6, <2>1, <2>2 DEF Writes
  <2> QED BY <2>2, <2>3
<1> QED BY <1>2, <1>3, <1>7

(***************************************************************************)
(* Where names and records stand.                                          *)
(***************************************************************************)
\* The name stands at o, and e is the last cell of it that is there.
NameStands(c, o, name, e) ==
  /\ o <= e /\ c[e][1] # "start" /\ \A i \in o..(e - 1) : c[i][1] = "start"
  /\ \/ c[o] = <<"start", name>>
     \/ \E t \in 1..(o - 1) : c[o] = <<"pointer", t>> /\ c[t] = <<"start", name>>

\* A record of p's is in the cells from b + 1 to e; f is its fixed part.
LaidAt(c, p, type, b, f, e) ==
  /\ f \in (b + 2)..(e - 1) /\ c[f] = <<"fixed", type, e - f>>
  /\ NameStands(c, b + 1, Owner(p, type), f - 1)
  /\ type = "PTR" => NameStands(c, f + 1, Named(p, "PTR"), e)
  /\ type = "SRV" => /\ f + 2 <= e /\ c[f + 1] = <<"port", p>>
                     /\ NameStands(c, f + 2, Named(p, "SRV"), e)
  /\ type = "TXT" => c[f + 1] = <<"txt", p>>
  /\ type = "A" => c[f + 1] = <<"addr", p>>
Laid(c, p, type, b, e) == \E f \in Nat : LaidAt(c, p, type, b, f, e)

Agree(c, d, e) == \A i \in 1..e : c[i] = d[i]

\* What has been laid stays as long as the cells up to its end do.
LEMMA StaysClosed ==
  ASSUME NEW c, NEW d, NEW e \in Nat, Agree(c, d, e), Closed(c, e)
  PROVE  Closed(d, e)
<1> SUFFICES ASSUME NEW o \in 1..e, d[o][1] = "start" PROVE Spelled(d, o, e) BY DEF Closed
<1>1. d[o] = c[o] BY DEF Agree
<1>2. Spelled(c, o, e) BY <1>1 DEF Closed
<1>3. o + 1 \in 1..e BY <1>2 DEF Spelled
<1>4. d[o + 1] = c[o + 1] BY <1>3 DEF Agree
<1>5. \A t \in 1..o : d[t] = c[t] BY DEF Agree
<1> QED BY <1>1, <1>2, <1>4, <1>5 DEF Spelled

LEMMA NameStays ==
  ASSUME NEW c, NEW d, NEW e \in Nat, Agree(c, d, e),
         NEW o \in Nat, o >= 1, NEW name, NEW s \in Nat, s <= e, NameStands(c, o, name, s)
  PROVE  NameStands(d, o, name, s)
<1>1. o <= s /\ c[s][1] # "start" /\ \A i \in o..(s - 1) : c[i][1] = "start"
  BY DEF NameStands
<1>2. s \in 1..e /\ o \in 1..e BY <1>1
<1>3. d[s] = c[s] /\ d[o] = c[o] BY <1>2 DEF Agree
<1>4. \A i \in o..(s - 1) : d[i][1] = "start"
  <2> SUFFICES ASSUME NEW i \in o..(s - 1) PROVE d[i][1] = "start" OBVIOUS
  <2>1. i \in 1..e OBVIOUS
  <2>2. d[i] = c[i] BY <2>1 DEF Agree
  <2> QED BY <1>1, <2>2
<1>5. \A t \in 1..(o - 1) : d[t] = c[t] BY <1>2 DEF Agree
<1>6. \/ c[o] = <<"start", name>>
      \/ \E t \in 1..(o - 1) : c[o] = <<"pointer", t>> /\ c[t] = <<"start", name>>
  BY DEF NameStands
<1> QED BY <1>1, <1>3, <1>4, <1>5, <1>6 DEF NameStands

LEMMA RecordStays ==
  ASSUME NEW c, NEW d, NEW e \in Nat, Agree(c, d, e),
         NEW p, NEW type, NEW b \in Nat, NEW l \in Nat, l <= e, Laid(c, p, type, b, l)
  PROVE  Laid(d, p, type, b, l)
<1>1. PICK f \in Nat : LaidAt(c, p, type, b, f, l) BY DEF Laid
<1>2. f \in (b + 2)..(l - 1) /\ c[f] = <<"fixed", type, l - f>> /\ NameStands(c, b + 1, Owner(p, type), f - 1)
  BY <1>1 DEF LaidAt
<1>3. f \in 1..e /\ f + 1 \in 1..e BY <1>2
<1>4. d[f] = c[f] /\ d[f + 1] = c[f + 1] BY <1>3 DEF Agree
<1>5. NameStands(d, b + 1, Owner(p, type), f - 1)
  <2>1. PICK o \in Nat, s \in Nat : o = b + 1 /\ s = f - 1 BY <1>2
  <2>2. o >= 1 /\ s <= e /\ NameStands(c, o, Owner(p, type), s) BY <1>2, <2>1
  <2> QED BY <2>1, <2>2, NameStays
<1>6. ASSUME type = "PTR" PROVE NameStands(d, f + 1, Named(p, "PTR"), l)
  <2>1. PICK o \in Nat : o = f + 1 OBVIOUS
  <2>2. o >= 1 /\ NameStands(c, o, Named(p, "PTR"), l) BY <1>1, <1>6, <2>1 DEF LaidAt
  <2> QED BY <2>1, <2>2, NameStays
<1>7. ASSUME type = "SRV"
      PROVE  f + 2 <= l /\ c[f + 1] = <<"port", p>> /\ NameStands(d, f + 2, Named(p, "SRV"), l)
  <2>1. PICK o \in Nat : o = f + 2 OBVIOUS
  <2>2. o >= 1 /\ NameStands(c, o, Named(p, "SRV"), l) /\ f + 2 <= l /\ c[f + 1] = <<"port", p>>
    BY <1>1, <1>7, <2>1 DEF LaidAt
  <2> QED BY <2>1, <2>2, NameStays
<1>8. /\ type = "TXT" => c[f + 1] = <<"txt", p>>
      /\ type = "A" => c[f + 1] = <<"addr", p>>
  BY <1>1 DEF LaidAt
<1>9. LaidAt(d, p, type, b, f, l) BY <1>2, <1>4, <1>5, <1>6, <1>7, <1>8 DEF LaidAt
<1> QED BY <1>9 DEF Laid

(***************************************************************************)
(* Appending to a packet.                                                  *)
(***************************************************************************)
Packet(c) == c \in Seq(Cell) /\ Closed(c, Len(c)) /\ Backward(c)

LEMMA Appended ==
  ASSUME NEW c \in Seq(Cell), NEW w \in Seq(Cell)
  PROVE  /\ c \o w \in Seq(Cell) /\ Len(c \o w) = Len(c) + Len(w)
         /\ Len(c) \in Nat /\ Len(w) \in Nat
         /\ Agree(c, c \o w, Len(c))
         /\ \A i \in 1..Len(w) : (c \o w)[Len(c) + i] = w[i]
         /\ \A i \in (Len(c) + 1)..Len(c \o w) : i - Len(c) \in 1..Len(w) /\ (c \o w)[i] = w[i - Len(c)]
<1>1. Len(c) \in Nat /\ Len(w) \in Nat OBVIOUS
<1>2. c \o w \in Seq(Cell) /\ Len(c \o w) = Len(c) + Len(w) OBVIOUS
<1>3. \A i \in 1..Len(c) : (c \o w)[i] = c[i] OBVIOUS
<1>4. ASSUME NEW i \in 1..Len(w) PROVE (c \o w)[Len(c) + i] = w[i]
  <2>1. Len(c) + i \in 1..(Len(c) + Len(w)) /\ Len(c) + i > Len(c) /\ (Len(c) + i) - Len(c) = i BY <1>1
  <2> QED BY <1>1, <2>1
<1>5. ASSUME NEW i \in (Len(c) + 1)..Len(c \o w)
      PROVE  i - Len(c) \in 1..Len(w) /\ (c \o w)[i] = w[i - Len(c)]
  <2>1. PICK k : k = i - Len(c) OBVIOUS
  <2>2. k \in 1..Len(w) /\ i = Len(c) + k BY <1>1, <1>2, <2>1
  <2> QED BY <1>4, <2>1, <2>2
<1> QED BY <1>1, <1>2, <1>3, <1>4, <1>5 DEF Agree

\* Cells that are no label and no pointer leave a packet one.
LEMMA DataExtends ==
  ASSUME NEW c, Packet(c), NEW w \in Seq(Cell), \A i \in 1..Len(w) : w[i][1] \notin {"start", "pointer"}
  PROVE  Packet(c \o w)
<1>1. c \in Seq(Cell) /\ Closed(c, Len(c)) /\ Backward(c) BY DEF Packet
<1>d. PICK d : d = c \o w OBVIOUS
<1>2. /\ d \in Seq(Cell) /\ Len(d) = Len(c) + Len(w) /\ Len(c) \in Nat /\ Len(w) \in Nat
      /\ Agree(c, d, Len(c))
      /\ \A i \in (Len(c) + 1)..Len(d) : i - Len(c) \in 1..Len(w) /\ d[i] = w[i - Len(c)]
  BY <1>1, <1>d, Appended
<1>3. \A i \in (Len(c) + 1)..Len(d) : d[i][1] \notin {"start", "pointer"} BY <1>2
<1>4. DOMAIN d = 1..Len(d) /\ DOMAIN c = 1..Len(c) BY <1>1, <1>2, LenProperties
<1>5. Closed(d, Len(c)) BY <1>1, <1>2, StaysClosed
<1>6. Closed(d, Len(d))
  <2> SUFFICES ASSUME NEW o \in 1..Len(d), d[o][1] = "start" PROVE Spelled(d, o, Len(d)) BY DEF Closed
  <2>1. o \in 1..Len(c) BY <1>2, <1>3
  <2>2. Spelled(d, o, Len(c)) BY <1>5, <2>1 DEF Closed
  <2>3. o + 1 <= Len(d) BY <1>2, <2>2 DEF Spelled
  <2> QED BY <2>2, <2>3 DEF Spelled
<1>7. Backward(d)
  <2> SUFFICES ASSUME NEW o \in 1..Len(d), d[o][1] = "pointer" PROVE d[o][2] \in 1..(o - 1)
    BY <1>4 DEF Backward
  <2>1. o \in 1..Len(c) BY <1>2, <1>3
  <2>2. d[o] = c[o] BY <1>2, <2>1 DEF Agree
  <2> QED BY <1>1, <1>4, <2>1, <2>2 DEF Backward
<1> QED BY <1>2, <1>6, <1>7, <1>d DEF Packet

\* Nor does a name that is written at its end.
LEMMA NameExtends ==
  ASSUME NEW c, Packet(c), NEW name \in Name, Len(name) \in 1..3, NEW w, NEW n, Writes(c, name, w, n)
  PROVE  Packet(c \o w) /\ NameStands(c \o w, Len(c) + 1, name, Len(c) + Len(w)) /\ w \in Seq(Cell) /\ Len(w) >= 1
<1>1. c \in Seq(Cell) /\ Closed(c, Len(c)) /\ Backward(c) BY DEF Packet
<1>w. /\ n \in 0..Len(name) /\ w \in Seq(Cell) /\ Len(w) = n + 1
      /\ \A i \in 1..n : w[i] = <<"start", SubSeq(name, i, Len(name))>>
      /\ n = Len(name) => w[n + 1] = <<"end">>
      /\ n < Len(name) => \E t \in DOMAIN c : /\ c[t] = <<"start", SubSeq(name, n + 1, Len(name))>>
                                             /\ w[n + 1] = <<"pointer", t>>
  BY DEF Writes
<1>d. PICK d : d = c \o w OBVIOUS
<1>2. /\ d \in Seq(Cell) /\ Len(d) = Len(c) + Len(w) /\ Len(c) \in Nat /\ Len(w) \in Nat
      /\ Agree(c, d, Len(c))
      /\ \A i \in 1..Len(w) : d[Len(c) + i] = w[i]
      /\ \A i \in (Len(c) + 1)..Len(d) : i - Len(c) \in 1..Len(w) /\ d[i] = w[i - Len(c)]
  BY <1>1, <1>d, <1>w, Appended
<1>4. DOMAIN d = 1..Len(d) /\ DOMAIN c = 1..Len(c) BY <1>1, <1>2, LenProperties
<1>5. Closed(d, Len(c)) BY <1>1, <1>2, StaysClosed
\* The rest of the name.
<1>s. ASSUME NEW i \in 1..n
      PROVE  /\ d[Len(c) + i] = <<"start", SubSeq(name, i, Len(name))>>
             /\ Len(SubSeq(name, i, Len(name))) = Len(name) - i + 1
             /\ i < Len(name) => Tail(SubSeq(name, i, Len(name))) = SubSeq(name, i + 1, Len(name))
  <2>1. i \in 1..Len(w) /\ i \in 1..Len(name) BY <1>w
  <2> QED BY <1>2, <1>w, <2>1, Suffixes
<1>e. /\ d[Len(c) + n + 1] = w[n + 1] /\ n + 1 \in 1..Len(w)
      /\ n = Len(name) => d[Len(c) + n + 1] = <<"end">>
      /\ n < Len(name) => \E t \in 1..Len(c) : /\ d[t] = <<"start", SubSeq(name, n + 1, Len(name))>>
                                              /\ d[Len(c) + n + 1] = <<"pointer", t>>
  <2>1. n + 1 \in 1..Len(w) BY <1>w
  <2>2. Len(c) + (n + 1) = Len(c) + n + 1 BY <1>2, <1>w
  <2>3. d[Len(c) + n + 1] = w[n + 1]
    <3>1. \A i \in 1..Len(w) : d[Len(c) + i] = w[i] BY <1>2
    <3>2. d[Len(c) + (n + 1)] = w[n + 1] BY <2>1, <3>1
    <3> QED BY <2>2, <3>2
  <2>4. \A t \in 1..Len(c) : d[t] = c[t] BY <1>2 DEF Agree
  <2> QED BY <1>4, <1>w, <2>1, <2>3, <2>4
<1>6. Closed(d, Len(d))
  <2> SUFFICES ASSUME NEW o \in 1..Len(d), d[o][1] = "start" PROVE Spelled(d, o, Len(d)) BY DEF Closed
  <2>1. CASE o \in 1..Len(c)
    <3>2. Spelled(d, o, Len(c)) BY <1>5, <2>1 DEF Closed
    <3>3. o + 1 <= Len(d) BY <1>2, <3>2 DEF Spelled
    <3> QED BY <3>2, <3>3 DEF Spelled
  <2>2. CASE o \notin 1..Len(c)
    <3>1. PICK i \in 1..(n + 1) : o = Len(c) + i
      <4>1. o \in (Len(c) + 1)..Len(d) BY <1>2, <2>2
      <4>2. o - Len(c) \in 1..(n + 1) /\ o = Len(c) + (o - Len(c)) BY <1>2, <1>w, <4>1
      <4> QED BY <4>2
    <3>2. i # n + 1
      <4> SUFFICES ASSUME i = n + 1 PROVE FALSE OBVIOUS
      <4>1. o = Len(c) + n + 1 BY <1>2, <1>w, <3>1
      <4>2. n = Len(name) \/ n < Len(name) BY <1>w
      <4> QED BY <1>e, <4>1, <4>2
    <3>3. i \in 1..n BY <1>w, <3>1, <3>2
    <3>s. PICK s : s = SubSeq(name, i, Len(name)) OBVIOUS
    <3>4. /\ d[o] = <<"start", s>> /\ Len(s) = Len(name) - i + 1
          /\ i < Len(name) => Tail(s) = SubSeq(name, i + 1, Len(name))
      BY <1>s, <3>1, <3>3, <3>s
    <3>a. Len(s) \in 1..3
      <4>1. i \in 1..Len(name) BY <1>w, <3>3
      <4>2. Len(s) = Len(name) - i + 1 BY <3>4
      <4>3. \A l \in 1..3, k \in Nat : k \in 1..l => l - k + 1 \in 1..3 OBVIOUS
      <4>4. i \in Nat BY <3>3
      <4> QED BY <4>1, <4>2, <4>3, <4>4
    <3>b. o + 1 <= Len(d)
      <4>1. Len(d) = Len(c) + (n + 1) /\ Len(c) \in Nat /\ n \in Nat BY <1>2, <1>w
      <4> QED BY <3>1, <3>3, <4>1
    <3>5. Len(s) \in 1..3 /\ o + 1 <= Len(d) /\ d[o][2] = s BY <3>4, <3>a, <3>b
    <3>6. CASE i < n
      <4>1. i + 1 \in 1..n /\ i < Len(name) /\ Len(c) + (i + 1) = o + 1 BY <1>2, <1>w, <3>1, <3>6
      <4>2. d[Len(c) + (i + 1)] = <<"start", SubSeq(name, i + 1, Len(name))>>
        <5>1. PICK k \in 1..n : k = i + 1 BY <4>1
        <5>2. d[Len(c) + k] = <<"start", SubSeq(name, k, Len(name))>> BY <1>s
        <5> QED BY <5>1, <5>2
      <4>3. d[o + 1] = <<"start", Tail(s)>> BY <3>4, <4>1, <4>2
      <4>4. Len(s) > 1 BY <1>w, <3>4, <4>1
      <4> QED BY <3>5, <4>3, <4>4 DEF Spelled
    <3>7. CASE i = n /\ n < Len(name)
      <4>1. PICK t \in 1..Len(c) : /\ d[t] = <<"start", SubSeq(name, n + 1, Len(name))>>
                                   /\ d[Len(c) + n + 1] = <<"pointer", t>>
        BY <1>e, <3>7
      <4>2. Len(c) + n + 1 = o + 1 /\ t \in 1..o BY <1>2, <1>w, <3>1, <3>7
      <4>3. Tail(s) = SubSeq(name, n + 1, Len(name)) BY <3>4, <3>7
      <4>4. d[o + 1] = <<"pointer", t>> /\ d[t] = <<"start", Tail(s)>> BY <4>1, <4>2, <4>3
      <4>5. Len(s) > 1 BY <1>w, <3>4, <3>7
      <4> QED BY <3>5, <4>2, <4>4, <4>5 DEF Spelled
    <3>8. CASE i = n /\ n = Len(name)
      <4>1. Len(c) + n + 1 = o + 1 BY <1>2, <1>w, <3>1, <3>8
      <4>2. d[o + 1] = <<"end">> BY <1>e, <3>8, <4>1
      <4>3. Len(s) = 1 BY <1>w, <3>4, <3>8
      <4> QED BY <3>5, <4>2, <4>3 DEF Spelled
    <3>9. i < n \/ (i = n /\ n < Len(name)) \/ (i = n /\ n = Len(name)) BY <1>w, <3>3
    <3> QED BY <3>6, <3>7, <3>8, <3>9
  <2> QED BY <2>1, <2>2
<1>7. Backward(d)
  <2> SUFFICES ASSUME NEW o \in 1..Len(d), d[o][1] = "pointer" PROVE d[o][2] \in 1..(o - 1)
    BY <1>4 DEF Backward
  <2>1. CASE o \in 1..Len(c)
    <3>1. d[o] = c[o] BY <1>2, <2>1 DEF Agree
    <3> QED BY <1>1, <1>4, <2>1, <3>1 DEF Backward
  <2>2. CASE o \notin 1..Len(c)
    <3>1. PICK i \in 1..(n + 1) : o = Len(c) + i
      <4>1. o \in (Len(c) + 1)..Len(d) BY <1>2, <2>2
      <4>2. o - Len(c) \in 1..(n + 1) /\ o = Len(c) + (o - Len(c)) BY <1>2, <1>w, <4>1
      <4> QED BY <4>2
    <3>2. i \notin 1..n BY <1>s, <3>1
    <3>3. o = Len(c) + n + 1
      <4>1. Len(c) \in Nat /\ n \in Nat BY <1>2, <1>w
      <4>2. i = n + 1 BY <3>1, <3>2, <4>1
      <4> QED BY <3>1, <4>1, <4>2
    <3>4. n < Len(name) BY <1>e, <1>w, <3>3
    <3>5. PICK t \in 1..Len(c) : d[Len(c) + n + 1] = <<"pointer", t>> BY <1>e, <3>4
    <3>6. d[o][2] = t BY <3>3, <3>5
    <3> QED BY <1>2, <1>w, <3>3, <3>6
  <2> QED BY <2>1, <2>2
<1>8. NameStands(d, Len(c) + 1, name, Len(c) + Len(w))
  <2>1. Len(c) + Len(w) = Len(c) + n + 1 /\ Len(c) + 1 <= Len(c) + Len(w) BY <1>2, <1>w
  <2>2. d[Len(c) + Len(w)][1] # "start"
    <3>1. n = Len(name) \/ n < Len(name) BY <1>w
    <3>2. d[Len(c) + n + 1][1] # "start" BY <1>e, <3>1
    <3> QED BY <2>1, <3>2
  <2>3. \A i \in (Len(c) + 1)..(Len(c) + Len(w) - 1) : d[i][1] = "start"
    <3> SUFFICES ASSUME NEW i \in (Len(c) + 1)..(Len(c) + Len(w) - 1) PROVE d[i][1] = "start" OBVIOUS
    <3>1. PICK k : k = i - Len(c) OBVIOUS
    <3>2. k \in 1..n /\ i = Len(c) + k BY <1>2, <1>w, <3>1
    <3> QED BY <1>s, <3>2
  <2>4. CASE n = 0
    <3>1. n < Len(name) BY <2>4
    <3>2. PICK t \in 1..Len(c) : /\ d[t] = <<"start", SubSeq(name, n + 1, Len(name))>>
                                 /\ d[Len(c) + n + 1] = <<"pointer", t>>
      BY <1>e, <3>1
    <3>3. Len(c) + n + 1 = Len(c) + 1 /\ n + 1 = 1 BY <1>2, <2>4
    <3>4. SubSeq(name, n + 1, Len(name)) = name
      <4>1. PICK i \in 1..Len(name) : i = 1 OBVIOUS
      <4>2. SubSeq(name, i, Len(name)) = name BY <4>1, Suffixes
      <4> QED BY <3>3, <4>1, <4>2
    <3>5. d[Len(c) + 1] = <<"pointer", t>> /\ d[t] = <<"start", name>> BY <3>2, <3>3, <3>4
    <3>6. t \in 1..((Len(c) + 1) - 1) BY <1>2
    <3> QED BY <2>1, <2>2, <2>3, <3>5, <3>6 DEF NameStands
  <2>5. CASE n # 0
    <3>1. PICK i \in 1..n : i = 1 BY <1>w, <2>5
    <3>2. d[Len(c) + i] = <<"start", SubSeq(name, i, Len(name))>> BY <1>s
    <3>3. i \in 1..Len(name) BY <1>w
    <3>4. SubSeq(name, i, Len(name)) = name BY <3>1, <3>3, Suffixes
    <3>5. d[Len(c) + 1] = <<"start", name>> BY <3>1, <3>2, <3>4
    <3> QED BY <2>1, <2>2, <2>3, <3>5 DEF NameStands
  <2> QED BY <2>4, <2>5
<1>9. Packet(d) BY <1>2, <1>6, <1>7 DEF Packet
<1> QED BY <1>2, <1>8, <1>9, <1>d, <1>w

(***************************************************************************)
(* Writing a record.                                                       *)
(***************************************************************************)
LEMMA WhatIsOwned ==
  ASSUME NEW p \in Phones, NEW type \in Types
  PROVE  Owner(p, type) \in Name /\ Len(Owner(p, type)) \in 1..3
<1>1. CASE type = "PTR"
  <2>1. Owner(p, type) = Service BY <1>1 DEF Owner
  <2> QED BY <2>1, NamesHaveLabels
<1>2. CASE type \in {"SRV", "TXT"}
  <2>1. Owner(p, type) = Instance(p) BY <1>2 DEF Owner
  <2> QED BY <2>1, NamesHaveLabels
<1>3. CASE type = "A"
  <2>1. Owner(p, type) = Host(p) BY <1>3 DEF Owner
  <2> QED BY <2>1, NamesHaveLabels
<1> QED BY <1>1, <1>2, <1>3 DEF Types

LEMMA WhatIsNamed ==
  ASSUME NEW p \in Phones, NEW type \in {"PTR", "SRV"}
  PROVE  Named(p, type) \in Name /\ Len(Named(p, type)) \in 1..3
<1>1. CASE type = "PTR" BY <1>1, NamesHaveLabels
<1>2. CASE type = "SRV" BY <1>2, NamesHaveLabels
<1> QED BY <1>1, <1>2

LEMMA WhatIsContained ==
  ASSUME NEW p \in Phones, NEW type \in Types
  PROVE  LET k == Content(p, type)
         IN /\ k \in Seq(Cell) /\ Len(k) \in {0, 1} /\ \A i \in 1..Len(k) : k[i][1] \notin {"start", "pointer"}
            /\ type = "PTR" => Len(k) = 0
            /\ type # "PTR" => Len(k) = 1
            /\ type = "SRV" => k[1] = <<"port", p>>
            /\ type = "TXT" => k[1] = <<"txt", p>>
            /\ type = "A" => k[1] = <<"addr", p>>
<1>0. <<"port", p>> \in Cell /\ <<"txt", p>> \in Cell /\ <<"addr", p>> \in Cell BY DEF Cell
<1>1. CASE type = "PTR"
  <2>1. Content(p, type) = <<>> BY <1>1 DEF Content
  <2>2. PICK k : k = Content(p, type) OBVIOUS
  <2>3. k \in Seq(Cell) /\ Len(k) = 0 BY <2>1, <2>2
  <2>4. \A i \in 1..0 : FALSE OBVIOUS
  <2> QED BY <1>1, <2>2, <2>3, <2>4
<1>2. ASSUME NEW x \in {"port", "txt", "addr"}
      PROVE  /\ <<<<x, p>>>> \in Seq(Cell) /\ Len(<<<<x, p>>>>) = 1 /\ <<<<x, p>>>>[1] = <<x, p>>
             /\ \A i \in 1..1 : <<<<x, p>>>>[i][1] \notin {"start", "pointer"}
  <2>1. PICK y \in Cell : y = <<x, p>> BY <1>0
  <2>2. <<y>> \in Seq(Cell) /\ Len(<<y>>) = 1 /\ <<y>>[1] = y OBVIOUS
  <2>3. y[1] \notin {"start", "pointer"} BY <2>1
  <2>4. \A i \in 1..1 : i = 1 OBVIOUS
  <2> QED BY <2>1, <2>2, <2>3, <2>4
<1>3. CASE type = "SRV"
  <2>1. Content(p, type) = <<<<"port", p>>>> BY <1>3 DEF Content
  <2> QED BY <1>2, <1>3, <2>1
<1>4. CASE type = "TXT"
  <2>1. Content(p, type) = <<<<"txt", p>>>> BY <1>4 DEF Content
  <2> QED BY <1>2, <1>4, <2>1
<1>5. CASE type = "A"
  <2>1. Content(p, type) = <<<<"addr", p>>>> BY <1>5 DEF Content
  <2> QED BY <1>2, <1>5, <2>1
<1> QED BY <1>1, <1>3, <1>4, <1>5 DEF Types

\* The length of a record's data does not change what a name after it may point to.
LEMMA HeadWrites ==
  ASSUME NEW c \in Seq(Cell), NEW type \in Types, NEW l \in Nat,
         NEW k \in Seq(Cell), \A i \in 1..Len(k) : k[i][1] \notin {"start", "pointer"},
         NEW name, NEW w, NEW n, Writes(Append(c, <<"fixed">>) \o k, name, w, n)
  PROVE  Writes((c \o <<<<"fixed", type, l>>>>) \o k, name, w, n)
<1>1. PICK a \in Cell, b \in Cell : a = <<"fixed">> /\ b = <<"fixed", type, l>> BY DEF Cell
<1>2. a[1] # "start" BY <1>1
<1>3. Append(c, a) \in Seq(Cell) /\ Len(Append(c, a)) = Len(c) + 1 /\ Len(c) \in Nat /\ Len(k) \in Nat
      /\ \A t \in 1..Len(c) : Append(c, a)[t] = c[t]
      /\ Append(c, a)[Len(c) + 1] = a
  OBVIOUS
<1>4. c \o <<b>> \in Seq(Cell) /\ Len(c \o <<b>>) = Len(c) + 1 /\ \A t \in 1..Len(c) : (c \o <<b>>)[t] = c[t]
  OBVIOUS
<1>5. PICK g, h : g = Append(c, a) /\ h = c \o <<b>> OBVIOUS
<1>6. g \o k \in Seq(Cell) /\ Len(g \o k) = Len(c) + 1 + Len(k)
      /\ (\A t \in 1..(Len(c) + 1) : (g \o k)[t] = g[t])
      /\ \A t \in (Len(c) + 2)..Len(g \o k) : t - (Len(c) + 1) \in 1..Len(k) /\ (g \o k)[t] = k[t - (Len(c) + 1)]
  <2>1. g \in Seq(Cell) /\ Len(g) = Len(c) + 1 BY <1>3, <1>5
  <2>2. /\ g \o k \in Seq(Cell) /\ Len(g \o k) = Len(g) + Len(k) /\ Agree(g, g \o k, Len(g))
        /\ \A t \in (Len(g) + 1)..Len(g \o k) : t - Len(g) \in 1..Len(k) /\ (g \o k)[t] = k[t - Len(g)]
    BY <2>1, Appended
  <2>3. \A t \in 1..Len(g) : (g \o k)[t] = g[t] BY <2>2 DEF Agree
  <2>4. (Len(c) + 1) + 1 = Len(c) + 2 BY <1>3
  <2> QED BY <2>1, <2>2, <2>3, <2>4
<1>7. h \o k \in Seq(Cell) /\ Len(h \o k) = Len(c) + 1 + Len(k)
      /\ \A t \in 1..(Len(c) + 1) : (h \o k)[t] = h[t]
  <2>1. h \in Seq(Cell) /\ Len(h) = Len(c) + 1 BY <1>4, <1>5
  <2>2. h \o k \in Seq(Cell) /\ Len(h \o k) = Len(h) + Len(k) /\ Agree(h, h \o k, Len(h))
    BY <2>1, Appended
  <2> QED BY <2>1, <2>2 DEF Agree
<1>8. ASSUME NEW t \in DOMAIN (g \o k), (g \o k)[t][1] = "start"
      PROVE  t \in DOMAIN (h \o k) /\ (h \o k)[t] = (g \o k)[t]
  <2>1. DOMAIN (g \o k) = 1..Len(g \o k) /\ DOMAIN (h \o k) = 1..Len(h \o k) BY <1>6, <1>7, LenProperties
  <2>2. t \in DOMAIN (h \o k) BY <1>6, <1>7, <2>1
  <2>3. t \in 1..Len(c)
    <3>1. t \in 1..(Len(c) + 1 + Len(k)) /\ t \in Nat BY <1>3, <1>6, <2>1
    <3>2. t # Len(c) + 1
      <4> SUFFICES ASSUME t = Len(c) + 1 PROVE FALSE OBVIOUS
      <4>1. t \in 1..(Len(c) + 1) BY <1>3
      <4>2. (g \o k)[t] = g[t] BY <1>6, <4>1
      <4>3. (g \o k)[t] = a BY <1>3, <1>5, <4>2
      <4> QED BY <1>2, <1>8, <4>3
    <3>3. t \notin (Len(c) + 2)..Len(g \o k)
      <4> SUFFICES ASSUME t \in (Len(c) + 2)..Len(g \o k) PROVE FALSE OBVIOUS
      <4>1. PICK i \in 1..Len(k) : (g \o k)[t] = k[i] BY <1>6
      <4> QED BY <1>8, <4>1
    <3> QED BY <1>3, <1>6, <3>1, <3>2, <3>3
  <2>4. t \in 1..(Len(c) + 1) BY <1>3, <2>3
  <2>5. (g \o k)[t] = c[t] BY <1>3, <1>5, <1>6, <2>3, <2>4
  <2>6. (h \o k)[t] = c[t] BY <1>4, <1>5, <1>7, <2>3, <2>4
  <2> QED BY <2>2, <2>5, <2>6
<1>9. Writes(g \o k, name, w, n) BY <1>1, <1>5
<1>10. ASSUME n < Len(name)
       PROVE  \E t \in DOMAIN (h \o k) : /\ (h \o k)[t] = <<"start", SubSeq(name, n + 1, Len(name))>>
                                         /\ w[n + 1] = <<"pointer", t>>
  <2>1. PICK t \in DOMAIN (g \o k) : /\ (g \o k)[t] = <<"start", SubSeq(name, n + 1, Len(name))>>
                                     /\ w[n + 1] = <<"pointer", t>>
    BY <1>9, <1>10 DEF Writes
  <2>2. (g \o k)[t][1] = "start" BY <2>1
  <2> QED BY <1>8, <2>1, <2>2
<1>11. Writes(h \o k, name, w, n) BY <1>9, <1>10 DEF Writes
<1> QED BY <1>1, <1>5, <1>11

\* A record is laid at the end of the packet, which stays one.
LEMMA RecordIsWritten ==
  ASSUME NEW c, Packet(c), NEW p \in Phones, NEW type \in Types, NEW compress
  PROVE  LET d == WriteRecord(c, p, type, compress)
         IN /\ Packet(d) /\ Agree(c, d, Len(c)) /\ Len(c) \in Nat /\ Len(d) \in Nat /\ Len(c) < Len(d)
            /\ Laid(d, p, type, Len(c), Len(d))
<1>c. c \in Seq(Cell) /\ Len(c) \in Nat BY DEF Packet
<1>k. PICK k : k = Content(p, type) OBVIOUS
<1>1. /\ k \in Seq(Cell) /\ Len(k) \in {0, 1} /\ (\A i \in 1..Len(k) : k[i][1] \notin {"start", "pointer"})
      /\ type = "PTR" => Len(k) = 0
      /\ type # "PTR" => Len(k) = 1
      /\ type = "SRV" => k[1] = <<"port", p>>
      /\ type = "TXT" => k[1] = <<"txt", p>>
      /\ type = "A" => k[1] = <<"addr", p>>
  BY <1>k, WhatIsContained
\* The name of the owner.
<1>v. PICK v : v = WriteName(c, Owner(p, type), compress) OBVIOUS
<1>o. PICK owned : owned = c \o v OBVIOUS
<1>2. /\ Packet(owned) /\ NameStands(owned, Len(c) + 1, Owner(p, type), Len(c) + Len(v))
      /\ v \in Seq(Cell) /\ Len(v) >= 1 /\ Len(v) \in Nat
      /\ owned \in Seq(Cell) /\ Len(owned) = Len(c) + Len(v) /\ Agree(c, owned, Len(c))
  <2>0. Owner(p, type) \in Name /\ Len(Owner(p, type)) \in 1..3 BY WhatIsOwned
  <2>1. PICK n : Writes(c, Owner(p, type), v, n) BY <1>c, <1>v, <2>0, NameIsWritten
  <2>2. /\ Packet(owned) /\ NameStands(owned, Len(c) + 1, Owner(p, type), Len(c) + Len(v))
        /\ v \in Seq(Cell) /\ Len(v) >= 1
    BY <1>o, <2>0, <2>1, NameExtends
  <2>3. owned \in Seq(Cell) /\ Len(owned) = Len(c) + Len(v) /\ Agree(c, owned, Len(c)) /\ Len(v) \in Nat
    BY <1>c, <1>o, <2>2, Appended
  <2> QED BY <2>2, <2>3
\* The name in the data.
<1>h. PICK head : head = Append(owned, <<"fixed">>) \o k OBVIOUS
<1>w. PICK w : w = IF type \in {"PTR", "SRV"} THEN WriteName(head, Named(p, type), compress) ELSE <<>>
  OBVIOUS
<1>l. PICK l : l = Len(k) + Len(w) OBVIOUS
<1>3. head \in Seq(Cell)
  <2>1. PICK a \in Cell : a = <<"fixed">> BY DEF Cell
  <2>2. Append(owned, a) \in Seq(Cell) BY <1>2
  <2> QED BY <1>1, <1>h, <2>1, <2>2, Appended
<1>4. /\ w \in Seq(Cell) /\ Len(w) \in Nat
      /\ type \in {"PTR", "SRV"} => Len(w) >= 1 /\ \E n : Writes(head, Named(p, type), w, n)
  <2>1. CASE type \in {"PTR", "SRV"}
    <3>1. Named(p, type) \in Name BY <2>1, WhatIsNamed
    <3>2. PICK n : Writes(head, Named(p, type), w, n) BY <1>3, <1>w, <2>1, <3>1, NameIsWritten
    <3>3. n \in Nat /\ w \in Seq(Cell) /\ Len(w) = n + 1
      <4>1. Len(Named(p, type)) \in Nat BY <2>1, WhatIsNamed
      <4> QED BY <3>2, <4>1 DEF Writes
    <3> QED BY <3>2, <3>3
  <2>2. CASE type \notin {"PTR", "SRV"}
    <3>1. w = <<>> BY <1>w, <2>2
    <3>2. <<>> \in Seq(Cell) /\ Len(<<>>) = 0 OBVIOUS
    <3> QED BY <2>2, <3>1, <3>2
  <2> QED BY <2>1, <2>2
<1>5. l \in Nat /\ l >= 1
  <2>1. Len(k) = 1 \/ Len(w) >= 1 BY <1>1, <1>4
  <2> QED BY <1>1, <1>4, <1>l, <2>1
<1>x. PICK fixed \in Cell : fixed = <<"fixed", type, l>> BY <1>5 DEF Cell
\* The record up to the name in its data.
<1>b. PICK base : base = (owned \o <<fixed>>) \o k OBVIOUS
<1>6. /\ Packet(base) /\ base \in Seq(Cell) /\ Len(base) = Len(owned) + 1 + Len(k)
      /\ Agree(owned, base, Len(owned)) /\ base[Len(owned) + 1] = fixed
      /\ Len(k) = 1 => base[Len(owned) + 2] = k[1]
  <2>1. <<fixed>> \in Seq(Cell) /\ Len(<<fixed>>) = 1 /\ <<fixed>>[1] = fixed OBVIOUS
  <2>2. \A i \in 1..1 : <<fixed>>[i][1] \notin {"start", "pointer"}
    <3>1. fixed[1] = "fixed" BY <1>x
    <3>2. \A i \in 1..1 : i = 1 OBVIOUS
    <3> QED BY <2>1, <3>1, <3>2
  <2>3. PICK g : g = owned \o <<fixed>> OBVIOUS
  <2>4. Packet(g) BY <1>2, <2>1, <2>2, <2>3, DataExtends
  <2>5. g \in Seq(Cell) /\ Len(g) = Len(owned) + 1 /\ Len(owned) \in Nat /\ Agree(owned, g, Len(owned))
        /\ g[Len(owned) + 1] = fixed
    <3>1. PICK f \in Seq(Cell) : f = <<fixed>> /\ Len(f) = 1 /\ f[1] = fixed BY <2>1
    <3>2. g \in Seq(Cell) /\ Len(g) = Len(owned) + Len(f) /\ Len(owned) \in Nat /\ Agree(owned, g, Len(owned))
          /\ \A i \in 1..Len(f) : g[Len(owned) + i] = f[i]
      BY <1>2, <2>3, <3>1, Appended
    <3>3. 1 \in 1..Len(f) BY <3>1
    <3>4. g[Len(owned) + 1] = f[1] BY <3>2, <3>3
    <3> QED BY <3>1, <3>2, <3>4
  <2>6. Packet(base) BY <1>1, <1>b, <2>3, <2>4, DataExtends
  <2>7. /\ base \in Seq(Cell) /\ Len(base) = Len(g) + Len(k) /\ Agree(g, base, Len(g))
        /\ \A i \in 1..Len(k) : base[Len(g) + i] = k[i]
    BY <1>1, <1>b, <2>3, <2>5, Appended
  <2>8. Agree(owned, base, Len(owned)) /\ base[Len(owned) + 1] = g[Len(owned) + 1]
    <3>1. \A i \in 1..Len(owned) : g[i] = owned[i] BY <2>5 DEF Agree
    <3>2. \A i \in 1..(Len(owned) + 1) : base[i] = g[i] BY <2>5, <2>7 DEF Agree
    <3>3. \A i \in 1..Len(owned) : base[i] = owned[i] BY <2>5, <3>1, <3>2
    <3>4. Len(owned) + 1 \in 1..(Len(owned) + 1) BY <2>5
    <3> QED BY <3>2, <3>3, <3>4 DEF Agree
  <2>9. ASSUME Len(k) = 1 PROVE base[Len(owned) + 2] = k[1]
    <3>1. base[Len(g) + 1] = k[1] BY <2>7, <2>9
    <3>2. Len(g) + 1 = Len(owned) + 2 BY <2>5
    <3> QED BY <3>1, <3>2
  <2> QED BY <2>5, <2>6, <2>7, <2>8, <2>9
<1>d. PICK d : d = base \o w OBVIOUS
<1>7. WriteRecord(c, p, type, compress) = d
  <2>1. owned = c \o WriteName(c, Owner(p, type), compress) BY <1>o, <1>v
  <2>2. head = Append(owned, <<"fixed">>) \o Content(p, type) BY <1>h, <1>k
  <2>3. WriteRecord(c, p, type, compress) = owned \o <<<<"fixed", type, Len(Content(p, type)) + Len(w)>>>> \o Content(p, type) \o w
    BY <2>1, <2>2, <1>w DEF WriteRecord
  <2> QED BY <1>b, <1>d, <1>k, <1>l, <1>x, <2>3
<1>8. /\ d \in Seq(Cell) /\ Len(d) = Len(base) + Len(w) /\ Agree(base, d, Len(base))
  BY <1>4, <1>6, <1>d, Appended
<1>9. /\ Packet(d)
      /\ type \in {"PTR", "SRV"} => NameStands(d, Len(base) + 1, Named(p, type), Len(d))
  <2>1. CASE type \in {"PTR", "SRV"}
    <3>1. PICK n : Writes(head, Named(p, type), w, n) BY <1>4, <2>1
    <3>2. Writes(base, Named(p, type), w, n)
      <4>1. Writes(Append(owned, <<"fixed">>) \o k, Named(p, type), w, n) BY <1>h, <3>1
      <4>2. Writes((owned \o <<<<"fixed", type, l>>>>) \o k, Named(p, type), w, n)
        BY <1>1, <1>2, <1>5, <4>1, HeadWrites
      <4> QED BY <1>b, <1>x, <4>2
    <3>3. Named(p, type) \in Name /\ Len(Named(p, type)) \in 1..3 BY <2>1, WhatIsNamed
    <3>4. Packet(d) /\ NameStands(d, Len(base) + 1, Named(p, type), Len(base) + Len(w))
      BY <1>6, <1>d, <3>2, <3>3, NameExtends
    <3> QED BY <1>8, <3>4
  <2>2. CASE type \notin {"PTR", "SRV"}
    <3>1. w = <<>> BY <1>w, <2>2
    <3>2. d = base BY <1>6, <1>d, <3>1, ConcatEmptySeq
    <3> QED BY <1>6, <2>2, <3>2
  <2> QED BY <2>1, <2>2
\* Where everything is.
<1>f. PICK f \in Nat, b \in Nat, e \in Nat : f = Len(owned) + 1 /\ b = Len(c) /\ e = Len(d)
  BY <1>1, <1>2, <1>4, <1>6, <1>8, <1>c
<1>10. /\ f \in (b + 2)..(e - 1) /\ e - f = l /\ Len(base) + 1 = f + 1 + Len(k) /\ f - 1 = Len(owned)
       /\ b < e /\ Len(owned) <= Len(base) /\ Len(base) >= f
  <2>1. f = b + Len(v) + 1 /\ e = f + Len(k) + Len(w) BY <1>2, <1>6, <1>8, <1>c, <1>f, <1>1, <1>4
  <2>2. /\ Len(v) \in Nat /\ Len(v) >= 1 /\ Len(k) \in Nat /\ Len(w) \in Nat
        /\ l = Len(k) + Len(w) /\ l >= 1
    BY <1>1, <1>2, <1>4, <1>5, <1>l
  <2>3. f = Len(owned) + 1 /\ Len(base) = Len(owned) + 1 + Len(k) /\ Len(owned) \in Nat
    BY <1>2, <1>6, <1>f
  <2>5. f \in (b + 2)..(e - 1) /\ b < e BY <2>1, <2>2
  <2>6. e - f = l BY <2>1, <2>2
  <2>7. Len(base) + 1 = f + 1 + Len(k) /\ f - 1 = Len(owned) BY <2>2, <2>3
  <2>8. Len(owned) <= Len(base) /\ Len(base) >= f BY <2>2, <2>3
  <2> QED BY <2>5, <2>6, <2>7, <2>8
<1>11. Agree(owned, d, Len(owned)) /\ d[f] = fixed /\ (Len(k) = 1 => d[f + 1] = k[1])
  <2>1. \A i \in 1..Len(owned) : base[i] = owned[i] BY <1>6 DEF Agree
  <2>2. \A i \in 1..Len(base) : d[i] = base[i] BY <1>8 DEF Agree
  <2>3. \A i \in 1..Len(owned) : i \in 1..Len(base) BY <1>2, <1>6, <1>10
  <2>4. Agree(owned, d, Len(owned)) BY <2>1, <2>2, <2>3 DEF Agree
  <2>5. f \in 1..Len(base) BY <1>6, <1>10, <1>f
  <2>6. d[f] = fixed BY <1>6, <1>f, <2>2, <2>5
  <2>7. ASSUME Len(k) = 1 PROVE d[f + 1] = k[1]
    <3>1. f + 1 = Len(owned) + 2 /\ f + 1 = Len(base) BY <1>2, <1>6, <1>f, <1>c, <2>7
    <3>2. f + 1 \in 1..Len(base) BY <3>1, <1>f
    <3> QED BY <1>6, <2>2, <2>7, <3>1, <3>2
  <2> QED BY <2>4, <2>6, <2>7
<1>12. NameStands(d, b + 1, Owner(p, type), f - 1)
  <2>0. b + 1 \in Nat /\ f - 1 \in Nat BY <1>f, <1>10
  <2>1. PICK o \in Nat, s \in Nat : o = b + 1 /\ s = f - 1 BY <2>0
  <2>2. o >= 1 /\ s <= Len(owned) /\ Len(owned) \in Nat /\ NameStands(owned, o, Owner(p, type), s)
    BY <1>2, <1>10, <1>c, <1>f, <2>1
  <2>3. NameStands(d, o, Owner(p, type), s) BY <1>11, <2>2, NameStays
  <2> QED BY <2>1, <2>3
<1>13. LaidAt(d, p, type, b, f, e)
  <2>1. type = "PTR" => NameStands(d, f + 1, Named(p, "PTR"), e)
    <3> SUFFICES ASSUME type = "PTR" PROVE NameStands(d, f + 1, Named(p, "PTR"), e) OBVIOUS
    <3>1. Len(base) + 1 = f + 1 BY <1>1, <1>10, <1>f
    <3>2. NameStands(d, Len(base) + 1, Named(p, type), Len(d)) BY <1>9
    <3> QED BY <1>f, <3>1, <3>2
  <2>2. type = "SRV" => f + 2 <= e /\ NameStands(d, f + 2, Named(p, "SRV"), e)
    <3> SUFFICES ASSUME type = "SRV" PROVE f + 2 <= e /\ NameStands(d, f + 2, Named(p, "SRV"), e) OBVIOUS
    <3>0. Len(k) = 1 BY <1>1
    <3>1. Len(base) + 1 = f + 2 BY <1>10, <1>f, <3>0
    <3>2. NameStands(d, Len(base) + 1, Named(p, type), Len(d)) BY <1>9
    <3>3. NameStands(d, f + 2, Named(p, "SRV"), e) BY <1>f, <3>1, <3>2
    <3>4. f + 2 <= e BY <3>3 DEF NameStands
    <3> QED BY <3>3, <3>4
  <2>3. /\ type = "SRV" => d[f + 1] = <<"port", p>>
        /\ type = "TXT" => d[f + 1] = <<"txt", p>>
        /\ type = "A" => d[f + 1] = <<"addr", p>>
    BY <1>1, <1>11
  <2>4. d[f] = <<"fixed", type, e - f>> BY <1>10, <1>11, <1>x
  <2> QED BY <1>10, <1>12, <2>1, <2>2, <2>3, <2>4 DEF LaidAt
<1>14. Laid(d, p, type, Len(c), Len(d)) BY <1>13, <1>f DEF Laid
<1>15. Agree(c, d, Len(c))
  <2>1. \A i \in 1..Len(c) : owned[i] = c[i] BY <1>2 DEF Agree
  <2>2. \A i \in 1..Len(owned) : d[i] = owned[i] BY <1>11 DEF Agree
  <2>3. \A i \in 1..Len(c) : i \in 1..Len(owned) BY <1>2, <1>c
  <2> QED BY <2>1, <2>2, <2>3 DEF Agree
<1> QED BY <1>7, <1>9, <1>10, <1>14, <1>15, <1>f

(***************************************************************************)
(* Writing a packet.                                                       *)
(***************************************************************************)
\* The packet c holds the first n records of a phone; ends are where they end.
HoldsRecords(c, ends, p, types, n) ==
  /\ Packet(c) /\ ends[0] = 0 /\ ends[n] = Len(c)
  /\ \A i \in 0..n : ends[i] \in Nat /\ ends[i] <= Len(c) /\ Closed(c, ends[i])
  /\ \A i \in 1..n : ends[i - 1] < ends[i] /\ Laid(c, p, types[i], ends[i - 1], ends[i])

LEMMA PacketGrows ==
  ASSUME NEW p \in Phones, NEW types \in Seq(Types), NEW compress, NEW ends,
         NEW n \in 0..Len(types), NEW k \in 1..Len(types), k = n + 1,
         NEW c, HoldsRecords(c, ends, p, types, n),
         NEW d, d = WriteRecord(c, p, types[k], compress), ends[k] = Len(d)
  PROVE  HoldsRecords(d, ends, p, types, k)
<1>0. /\ Packet(c) /\ ends[0] = 0 /\ ends[n] = Len(c)
      /\ \A i \in 0..n : ends[i] \in Nat /\ ends[i] <= Len(c) /\ Closed(c, ends[i])
      /\ \A i \in 1..n : ends[i - 1] < ends[i] /\ Laid(c, p, types[i], ends[i - 1], ends[i])
  BY DEF HoldsRecords
<1>1. types[k] \in Types OBVIOUS
<1>2. /\ Packet(d) /\ Agree(c, d, Len(c)) /\ Len(c) \in Nat /\ Len(d) \in Nat /\ Len(c) < Len(d)
      /\ Laid(d, p, types[k], Len(c), Len(d))
  BY <1>0, <1>1, RecordIsWritten
<1>3. ASSUME NEW i \in 0..n PROVE ends[i] \in Nat /\ ends[i] <= Len(d) /\ Closed(d, ends[i])
  <2>1. ends[i] \in Nat /\ ends[i] <= Len(c) /\ Closed(c, ends[i]) BY <1>0
  <2>2. Agree(c, d, ends[i])
    <3>1. \A j \in 1..ends[i] : j \in 1..Len(c) BY <1>2, <2>1
    <3> QED BY <1>2, <3>1 DEF Agree
  <2> QED BY <1>2, <2>1, <2>2, StaysClosed
<1>4. Closed(d, ends[k]) BY <1>2 DEF Packet
<1>5. \A i \in 0..k : i = k \/ i \in 0..n OBVIOUS
<1>6. ASSUME NEW i \in 1..n PROVE ends[i - 1] < ends[i] /\ Laid(d, p, types[i], ends[i - 1], ends[i])
  <2>1. PICK b, e : b = ends[i - 1] /\ e = ends[i] OBVIOUS
  <2>2. i - 1 \in 0..n /\ i \in 0..n OBVIOUS
  <2>3. b \in Nat /\ e \in Nat /\ e <= Len(c) /\ b < e /\ Laid(c, p, types[i], b, e) BY <1>0, <2>1, <2>2
  <2>4. Laid(d, p, types[i], b, e) BY <1>2, <2>3, RecordStays
  <2> QED BY <2>1, <2>3, <2>4
<1>7. ends[k - 1] < ends[k] /\ Laid(d, p, types[k], ends[k - 1], ends[k])
  <2>1. k - 1 = n OBVIOUS
  <2> QED BY <1>0, <1>2, <2>1
<1>8. \A i \in 1..k : i = k \/ i \in 1..n OBVIOUS
<1>9. \A i \in 0..k : ends[i] \in Nat /\ ends[i] <= Len(d) /\ Closed(d, ends[i]) BY <1>2, <1>3, <1>4, <1>5
<1>10. \A i \in 1..k : ends[i - 1] < ends[i] /\ Laid(d, p, types[i], ends[i - 1], ends[i])
  BY <1>6, <1>7, <1>8
<1> QED BY <1>0, <1>2, <1>9, <1>10 DEF HoldsRecords

EndsOf(written, count) == [n \in 0..count |-> Len(written[n])]

LEMMA PacketIsWritten ==
  ASSUME NEW p \in Phones, NEW types \in Seq(Types), NEW compress
  PROVE  LET written == Written(p, types, compress)
         IN HoldsRecords(written[Len(types)], EndsOf(written, Len(types)), p, types, Len(types))
<1>0. PICK count \in Nat : count = Len(types) OBVIOUS
<1>w. PICK written : written = Written(p, types, compress) OBVIOUS
<1>1. written = Written(p, types, compress) /\ count = Len(types) BY <1>0, <1>w
<1>e. PICK ends : ends = EndsOf(written, count) OBVIOUS
<1>2. \A n \in 0..count : written[n] = WrittenBody(p, types, compress, written, n) /\ ends[n] = Len(written[n])
  BY <1>1, <1>e, WrittenDef DEF EndsOf
<1> DEFINE S == {n \in 0..count : HoldsRecords(written[n], ends, p, types, n)}
<1>3. 0 \in S
  <2>1. 0 \in 0..count OBVIOUS
  <2>2. written[0] = <<>> /\ ends[0] = Len(written[0]) BY <1>2, <2>1 DEF WrittenBody
  <2>3. PICK c : c = written[0] OBVIOUS
  <2>4. c \in Seq(Cell) /\ Len(c) = 0 /\ DOMAIN c = 1..0 BY <2>2, <2>3
  <2>5. \A i \in 1..0 : FALSE OBVIOUS
  <2>6. Closed(c, 0) /\ Backward(c) BY <2>4, <2>5 DEF Closed, Backward
  <2>7. Packet(c) BY <2>4, <2>6 DEF Packet
  <2>8. \A i \in 0..0 : i = 0 OBVIOUS
  <2>9. ends[0] = 0 BY <2>2, <2>3, <2>4
  <2>10. HoldsRecords(c, ends, p, types, 0) BY <2>4, <2>5, <2>6, <2>7, <2>8, <2>9 DEF HoldsRecords
  <2> QED BY <2>1, <2>3, <2>10
<1>4. ASSUME NEW n \in 0..count, n \in S, n < count PROVE n + 1 \in S
  <2>1. PICK k \in 1..count : k = n + 1 BY <1>4
  <2>2. k \in 0..count /\ k # 0 /\ k - 1 = n BY <2>1
  <2>3. written[k] = WriteRecord(written[n], p, types[k], compress) /\ ends[k] = Len(written[k])
    BY <1>2, <2>2 DEF WrittenBody
  <2>4. PICK c, d : c = written[n] /\ d = written[k] OBVIOUS
  <2>5. HoldsRecords(c, ends, p, types, n) BY <1>4, <2>4
  <2>6. d = WriteRecord(c, p, types[k], compress) /\ ends[k] = Len(d) BY <2>3, <2>4
  <2>7. HoldsRecords(d, ends, p, types, k) BY <1>1, <2>1, <2>5, <2>6, PacketGrows
  <2> QED BY <2>1, <2>2, <2>4, <2>7
<1>5. 0..count \subseteq S
  <2> HIDE DEF S
  <2> QED BY <1>3, <1>4, UpTo
<1>6. count \in S BY <1>5
<1>7. HoldsRecords(written[count], ends, p, types, count) BY <1>6
<1> QED BY <1>1, <1>7, <1>e

(***************************************************************************)
(* Reading a packet.                                                       *)
(***************************************************************************)
Record == [owner : Name, type : Types, data : Nat]

\* The reader has understood a record of p's.
Says(cells, r, p, type) ==
  /\ r \in Record /\ r.owner = Owner(p, type) /\ r.type = type
  /\ type = "PTR" => ReadName(cells, r.data) = {Named(p, "PTR")}
  /\ type = "SRV" => cells[r.data][2] = p /\ ReadName(cells, r.data + 1) = {Named(p, "SRV")}
  /\ type \in {"TXT", "A"} => cells[r.data][2] = p

\* A name that stands is read, and where it ends.
LEMMA StandingNameIsRead ==
  ASSUME NEW cells \in Seq(Cell), NEW e \in 0..Len(cells), Closed(cells, e), Backward(cells),
         MaxJumps \in Nat, MaxJumps >= 3, NEW o \in 1..e, NEW l \in o..e, NEW s, Len(s) \in 1..3,
         NameStands(cells, o, s, l)
  PROVE  ReadName(cells, o) = {s} /\ After(cells, o) = l + 1
<1>1. ReadName(cells, o) = {s} BY NameIsRead DEF NameStands
<1>2. o \in DOMAIN cells /\ l \in o..Len(cells)
  <2>1. DOMAIN cells = 1..Len(cells) BY LenProperties
  <2>2. Len(cells) \in Nat OBVIOUS
  <2> QED BY <2>1, <2>2
<1>3. Min(Stops(cells, o)) = l BY <1>2, StopAt DEF NameStands
<1> QED BY <1>1, <1>3 DEF After

LEMMA WholeRecordIsRead ==
  ASSUME NEW cells \in Seq(Cell), NEW e \in 0..Len(cells), Closed(cells, e), Backward(cells),
         MaxJumps \in Nat, MaxJumps >= 3, NEW p \in Phones, NEW type \in Types, NEW b \in Nat,
         Laid(cells, p, type, b, e), NEW o, o = b + 1
  PROVE  /\ IsComplete(cells, o) /\ Following(cells, o) = e + 1
         /\ Says(cells, RecordAt(cells, o), p, type)
<1>1. PICK f \in Nat : LaidAt(cells, p, type, b, f, e) BY DEF Laid
<1>2. /\ f \in (b + 2)..(e - 1) /\ cells[f] = <<"fixed", type, e - f>>
      /\ NameStands(cells, b + 1, Owner(p, type), f - 1)
      /\ type = "PTR" => NameStands(cells, f + 1, Named(p, "PTR"), e)
      /\ type = "SRV" => /\ f + 2 <= e /\ cells[f + 1] = <<"port", p>>
                         /\ NameStands(cells, f + 2, Named(p, "SRV"), e)
      /\ type = "TXT" => cells[f + 1] = <<"txt", p>>
      /\ type = "A" => cells[f + 1] = <<"addr", p>>
  BY <1>1 DEF LaidAt
<1>3. Len(cells) \in Nat /\ e \in Nat OBVIOUS
<1>4. ReadName(cells, o) = {Owner(p, type)} /\ After(cells, o) = f
  <2>1. PICK l : l = f - 1 OBVIOUS
  <2>2. o \in 1..e /\ l \in o..e /\ l + 1 = f BY <1>2, <1>3, <2>1
  <2>3. NameStands(cells, o, Owner(p, type), l) BY <1>2, <2>1
  <2>4. Len(Owner(p, type)) \in 1..3 BY WhatIsOwned
  <2>5. ReadName(cells, o) = {Owner(p, type)} /\ After(cells, o) = l + 1
    BY <2>2, <2>3, <2>4, StandingNameIsRead
  <2> QED BY <2>2, <2>5
<1>5. cells[f][2] = type /\ cells[f][3] = e - f BY <1>2
<1>6. Data(cells, o) = f + 1 BY <1>4 DEF Data
<1>7. Following(cells, o) = e + 1
  <2>1. Following(cells, o) = (f + 1) + (e - f) BY <1>4, <1>5, <1>6 DEF Following
  <2> QED BY <1>2, <1>3, <2>1
<1>8. IsComplete(cells, o)
  <2>1. f <= Len(cells) /\ e + 1 <= Len(cells) + 1 BY <1>2, <1>3
  <2> QED BY <1>4, <1>7, <2>1 DEF IsComplete
<1>9. RecordAt(cells, o) = [owner |-> Owner(p, type), type |-> type, data |-> f + 1]
  <2>1. (CHOOSE name \in {Owner(p, type)} : TRUE) = Owner(p, type) OBVIOUS
  <2> QED BY <1>4, <1>5, <1>6, <2>1 DEF RecordAt
<1>r. PICK r : r = RecordAt(cells, o) OBVIOUS
<1>10. r.owner = Owner(p, type) /\ r.type = type /\ r.data = f + 1 BY <1>9, <1>r
<1>11. ASSUME type = "PTR" PROVE ReadName(cells, r.data) = {Named(p, "PTR")}
  <2>1. PICK q : q = f + 1 OBVIOUS
  <2>2. q \in 1..e /\ e \in q..e BY <1>2, <1>3, <2>1
  <2>3. NameStands(cells, q, Named(p, "PTR"), e) BY <1>2, <1>11, <2>1
  <2>4. Len(Named(p, "PTR")) \in 1..3 BY WhatIsNamed
  <2>5. ReadName(cells, q) = {Named(p, "PTR")} BY <2>2, <2>3, <2>4, StandingNameIsRead
  <2> QED BY <1>10, <2>1, <2>5
<1>12. ASSUME type = "SRV" PROVE cells[r.data][2] = p /\ ReadName(cells, r.data + 1) = {Named(p, "SRV")}
  <2>1. PICK q : q = f + 2 OBVIOUS
  <2>2. q \in 1..e /\ e \in q..e BY <1>2, <1>3, <1>12, <2>1
  <2>3. NameStands(cells, q, Named(p, "SRV"), e) BY <1>2, <1>12, <2>1
  <2>4. Len(Named(p, "SRV")) \in 1..3 BY WhatIsNamed
  <2>5. ReadName(cells, q) = {Named(p, "SRV")} BY <2>2, <2>3, <2>4, StandingNameIsRead
  <2>6. (f + 1) + 1 = q BY <2>1
  <2>7. cells[f + 1][2] = p BY <1>2, <1>12
  <2> QED BY <1>10, <2>5, <2>6, <2>7
<1>13. type \in {"TXT", "A"} => cells[r.data][2] = p BY <1>2, <1>10
<1>a. r \in Record
  <2>1. Owner(p, type) \in Name BY WhatIsOwned
  <2> QED BY <1>9, <1>r, <2>1 DEF Record
<1>14. Says(cells, r, p, type) BY <1>10, <1>11, <1>12, <1>13, <1>a DEF Says
<1> QED BY <1>7, <1>8, <1>14, <1>r

\* A record that is cut off is not read.
LEMMA CutRecordIsNotRead ==
  ASSUME NEW cells \in Seq(Cell), NEW full, NEW kept \in Nat, Len(cells) = kept, Agree(full, cells, kept),
         MaxJumps \in Nat, NEW p \in Phones, NEW type \in Types, NEW b \in Nat, NEW e \in Nat,
         Laid(full, p, type, b, e), b <= kept, kept < e, NEW o, o = b + 1
  PROVE  ~IsComplete(cells, o)
<1>1. PICK f \in Nat : LaidAt(full, p, type, b, f, e) BY DEF Laid
<1>2. f \in (b + 2)..(e - 1) /\ full[f] = <<"fixed", type, e - f>>
      /\ NameStands(full, b + 1, Owner(p, type), f - 1)
  BY <1>1 DEF LaidAt
<1>3. DOMAIN cells = 1..kept BY LenProperties
<1>4. \A i \in o..(f - 2) : full[i][1] = "start"
  <2>1. \A i \in (b + 1)..((f - 1) - 1) : full[i][1] = "start" BY <1>2 DEF NameStands
  <2>2. (f - 1) - 1 = f - 2 BY <1>2
  <2> QED BY <2>1, <2>2
<1>5. CASE kept < f - 1
  <2>1. CASE o \notin DOMAIN cells BY <2>1 DEF ReadName, IsComplete
  <2>2. CASE o \in DOMAIN cells
    <3>1. ASSUME NEW i \in o..kept PROVE cells[i][1] = "start"
      <4>1. i \in 1..kept /\ i \in o..(f - 2) BY <1>2, <1>5
      <4> QED BY <1>4, <4>1 DEF Agree
    <3>2. Stops(cells, o) = {} BY <3>1 DEF Stops
    <3>3. MaxJumps \in 0..MaxJumps OBVIOUS
    <3>4. Readings(cells)[MaxJumps] = ReadingsBody(cells, Readings(cells), MaxJumps)
      BY <3>3, ReadingsDef
    <3>5. Readings(cells)[MaxJumps][o] = {} BY <2>2, <3>2, <3>4 DEF ReadingsBody, NamesAt
    <3>6. ReadName(cells, o) = {} BY <2>2, <3>5 DEF ReadName
    <3> QED BY <3>6 DEF IsComplete
  <2> QED BY <2>1, <2>2
<1>6. CASE ~(kept < f - 1)
  <2>1. PICK l : l = f - 1 OBVIOUS
  <2>2. o \in DOMAIN cells /\ l \in o..Len(cells) /\ l \in 1..kept BY <1>2, <1>3, <1>6, <2>1
  <2>3. cells[l][1] # "start"
    <3>1. full[l][1] # "start" BY <1>2, <2>1 DEF NameStands
    <3> QED BY <2>2, <3>1 DEF Agree
  <2>4. \A i \in o..(l - 1) : cells[i][1] = "start"
    <3> SUFFICES ASSUME NEW i \in o..(l - 1) PROVE cells[i][1] = "start" OBVIOUS
    <3>1. i \in 1..kept /\ i \in o..(f - 2) BY <1>2, <2>1, <2>2
    <3> QED BY <1>4, <3>1 DEF Agree
  <2>5. Min(Stops(cells, o)) = l BY <2>2, <2>3, <2>4, StopAt
  <2>6. After(cells, o) = f BY <1>2, <2>1, <2>5 DEF After
  <2>7. CASE kept < f
    <3>1. ~(f <= kept) BY <2>7
    <3> QED BY <2>6, <3>1 DEF IsComplete
  <2>8. CASE f <= kept
    <3>1. f \in 1..kept BY <1>2, <2>8
    <3>2. cells[f] = full[f] BY <3>1 DEF Agree
    <3>3. cells[f][3] = e - f BY <1>2, <3>2
    <3>4. Following(cells, o) = (f + 1) + (e - f) BY <2>6, <3>3 DEF Following, Data
    <3>5. ~(Following(cells, o) <= kept + 1) BY <1>2, <3>4
    <3> QED BY <3>5 DEF IsComplete
  <2> QED BY <1>2, <2>7, <2>8
<1> QED BY <1>5, <1>6

LEMMA EndsGrow ==
  ASSUME NEW c, NEW ends, NEW p, NEW types, NEW n \in Nat, HoldsRecords(c, ends, p, types, n),
         NEW i \in 0..n, NEW j \in 0..n, i <= j
  PROVE  ends[i] <= ends[j]
<1> DEFINE S == {k \in 0..n : i <= k => ends[i] <= ends[k]}
<1>1. \A k \in 0..n : ends[k] \in Nat BY DEF HoldsRecords
<1>2. \A k \in 1..n : ends[k - 1] < ends[k] BY DEF HoldsRecords
<1>3. 0 \in S
  <2>1. i <= 0 => i = 0 OBVIOUS
  <2> QED BY <1>1, <2>1
<1>4. ASSUME NEW k \in 0..n, k \in S, k < n PROVE k + 1 \in S
  <2>1. k + 1 \in 1..n /\ k + 1 \in 0..n /\ (k + 1) - 1 = k BY <1>4
  <2>2. ends[k] < ends[k + 1] BY <1>2, <2>1
  <2>3. ends[k] \in Nat /\ ends[k + 1] \in Nat /\ ends[i] \in Nat BY <1>1, <2>1
  <2>4. CASE i <= k BY <1>4, <2>1, <2>2, <2>3, <2>4
  <2>5. CASE ~(i <= k)
    <3>1. i <= k + 1 => i = k + 1 BY <2>5
    <3> QED BY <2>1, <2>3, <3>1
  <2> QED BY <2>4, <2>5
<1>5. 0..n \subseteq S
  <2> HIDE DEF S
  <2> QED BY <1>3, <1>4, UpTo
<1> QED BY <1>5

\* After n steps the reader has the first records, up to the one that is cut off.
Read(cells, last, ends, p, types, kept, n) ==
  \E m \in 0..n :
    /\ ends[m] <= kept /\ (m < n => kept < ends[m + 1])
    /\ last.offset = ends[m] + 1 /\ Len(last.records) = m /\ last.records \in Seq(Record)
    /\ \A i \in 1..m : Says(cells, last.records[i], p, types[i])

LEMMA RecordIsParsed ==
  ASSUME MaxJumps \in Nat, MaxJumps >= 3, NEW p \in Phones, NEW types \in Seq(Types),
         NEW full, NEW ends, HoldsRecords(full, ends, p, types, Len(types)),
         NEW kept \in 0..Len(full), NEW cells \in Seq(Cell), Len(cells) = kept, Agree(full, cells, kept),
         Backward(cells),
         NEW n \in 0..Len(types), n < Len(types), NEW last, Read(cells, last, ends, p, types, kept, n)
  PROVE  Read(cells, ParseNext(cells, last), ends, p, types, kept, n + 1)
<1>0. /\ Packet(full) /\ ends[0] = 0 /\ ends[Len(types)] = Len(full) /\ Len(types) \in Nat
      /\ \A i \in 0..Len(types) : ends[i] \in Nat /\ ends[i] <= Len(full) /\ Closed(full, ends[i])
      /\ \A i \in 1..Len(types) : ends[i - 1] < ends[i] /\ Laid(full, p, types[i], ends[i - 1], ends[i])
  BY DEF HoldsRecords
<1>k. kept \in Nat
  <2>1. Len(full) \in Nat BY <1>0 DEF Packet
  <2> QED BY <2>1
<1>1. PICK m \in 0..n :
        /\ ends[m] <= kept /\ (m < n => kept < ends[m + 1])
        /\ last.offset = ends[m] + 1 /\ Len(last.records) = m /\ last.records \in Seq(Record)
        /\ \A i \in 1..m : Says(cells, last.records[i], p, types[i])
  BY DEF Read
<1>2. m \in 0..Len(types) /\ m + 1 \in 1..Len(types) /\ (m + 1) - 1 = m /\ m + 1 \in 0..Len(types) BY <1>0
<1>3. PICK k \in 1..Len(types) : k = m + 1 BY <1>2
<1>b. PICK b \in Nat, e \in Nat : b = ends[m] /\ e = ends[k]
  <2>1. ends[m] \in Nat /\ ends[k] \in Nat BY <1>0, <1>2, <1>3
  <2> QED BY <2>1
<1>4. b < e /\ Laid(full, p, types[k], b, e) /\ Closed(full, e) /\ types[k] \in Types /\ b <= kept
  <2>1. k - 1 = m BY <1>3
  <2>2. b < e /\ Laid(full, p, types[k], b, e) BY <1>0, <1>b, <2>1
  <2>3. Closed(full, e) BY <1>0, <1>2, <1>3, <1>b
  <2> QED BY <1>1, <1>b, <2>2, <2>3
<1>o. PICK o : o = b + 1 OBVIOUS
<1>5. last.offset = o BY <1>1, <1>b, <1>o
<1>6. CASE kept < e
  <2>1. ~IsComplete(cells, o) BY <1>4, <1>6, <1>k, <1>o, CutRecordIsNotRead
  <2>2. ParseNext(cells, last) = last BY <1>5, <2>1 DEF ParseNext
  <2>3. kept < ends[m + 1] BY <1>3, <1>6, <1>b
  <2>4. m \in 0..(n + 1) OBVIOUS
  <2>5. Read(cells, last, ends, p, types, kept, n + 1) BY <1>1, <2>3, <2>4 DEF Read
  <2> QED BY <2>2, <2>5
<1>7. CASE e <= kept
  <2>1. e \in 0..Len(cells) BY <1>7, <1>k
  <2>2. Agree(full, cells, e) BY <1>7, <1>k DEF Agree
  <2>3. Closed(cells, e) BY <1>4, <2>2, StaysClosed
  <2>4. Laid(cells, p, types[k], b, e)
    <3>1. e <= e OBVIOUS
    <3> QED BY <1>4, <2>2, <3>1, RecordStays
  <2>5. /\ IsComplete(cells, o) /\ Following(cells, o) = e + 1
        /\ Says(cells, RecordAt(cells, o), p, types[k])
    BY <1>4, <1>o, <2>1, <2>3, <2>4, WholeRecordIsRead
  <2>r. PICK r : r = RecordAt(cells, o) OBVIOUS
  <2>s. PICK s : s = last.records OBVIOUS
  <2>6. ParseNext(cells, last) = [records |-> Append(s, r), offset |-> e + 1]
    BY <1>5, <2>5, <2>r, <2>s DEF ParseNext
  <2>g. PICK g : g = Append(s, r) OBVIOUS
  <2>7. Len(g) = k /\ g[k] = r /\ \A i \in 1..m : g[i] = s[i]
    <3>1. s \in Seq(Record) /\ Len(s) = m BY <1>1, <2>s
    <3>2. r \in Record BY <2>5, <2>r DEF Says
    <3> QED BY <1>3, <2>g, <3>1, <3>2
  <2>8. g \in Seq(Record)
    <3>1. s \in Seq(Record) BY <1>1, <2>s
    <3>2. r \in Record BY <2>5, <2>r DEF Says
    <3> QED BY <2>g, <3>1, <3>2
  <2>9. \A i \in 1..k : Says(cells, g[i], p, types[i])
    <3>1. \A i \in 1..k : i = k \/ i \in 1..m BY <1>3
    <3>2. \A i \in 1..m : Says(cells, g[i], p, types[i]) BY <1>1, <2>7, <2>s
    <3>3. Says(cells, g[k], p, types[k]) BY <2>5, <2>7, <2>r
    <3> QED BY <3>1, <3>2, <3>3
  <2>10. m = n
    <3> SUFFICES ASSUME m # n PROVE FALSE OBVIOUS
    <3>1. m < n OBVIOUS
    <3>2. kept < e BY <1>1, <1>3, <1>b, <3>1
    <3> QED BY <1>7, <1>k, <3>2
  <2>11. k \in 0..(n + 1) /\ ~(k < n + 1) BY <1>3, <2>10
  <2>12. PICK next : next = ParseNext(cells, last) OBVIOUS
  <2>13. next.records = g /\ next.offset = ends[k] + 1 /\ ends[k] <= kept BY <1>7, <1>b, <2>6, <2>g, <2>12
  <2>14. Read(cells, next, ends, p, types, kept, n + 1) BY <2>7, <2>8, <2>9, <2>11, <2>13 DEF Read
  <2> QED BY <2>12, <2>14
<1> QED BY <1>6, <1>7, <1>k

\* The records that end before the cut are read, and no other.
Understood(cells, records, p, types, ends, kept) ==
  \E m \in 0..Len(types) :
    /\ Len(records) = m /\ \A i \in 1..m : Says(cells, records[i], p, types[i])
    /\ \A i \in 1..Len(types) : ends[i] <= kept <=> i <= m

LEMMA RecordsAreParsed ==
  ASSUME MaxJumps \in Nat, MaxJumps >= 3, NEW p \in Phones, NEW types \in Seq(Types),
         NEW full, NEW ends, HoldsRecords(full, ends, p, types, Len(types)),
         NEW kept \in 0..Len(full), NEW cells, cells = SubSeq(full, 1, kept),
         NEW records, records = ParseRecords(cells, Len(types))
  PROVE  Understood(cells, records, p, types, ends, kept)
<1>0. /\ Packet(full) /\ ends[0] = 0 /\ full \in Seq(Cell) /\ Len(full) \in Nat
      /\ \A i \in 0..Len(types) : ends[i] \in Nat
  BY DEF HoldsRecords, Packet
<1>n. PICK count \in Nat : count = Len(types) OBVIOUS
<1>1. cells \in Seq(Cell) /\ Len(cells) = kept /\ kept \in Nat /\ Agree(full, cells, kept)
  <2>1. kept \in Nat BY <1>0
  <2>2. cells \in Seq(Cell) /\ Len(cells) = kept /\ \A i \in 1..kept : cells[i] = full[i]
    BY <1>0, <2>1
  <2> QED BY <2>1, <2>2 DEF Agree
<1>2. Backward(cells)
  <2>1. Backward(full) /\ DOMAIN full = 1..Len(full) /\ DOMAIN cells = 1..kept
    BY <1>0, <1>1, LenProperties DEF Packet
  <2>2. \A o \in 1..kept : o \in 1..Len(full) /\ cells[o] = full[o] BY <1>0, <1>1 DEF Agree
  <2> QED BY <2>1, <2>2 DEF Backward
<1>p. PICK parsed : parsed = Parsed(cells, count) OBVIOUS
<1>3. \A n \in 0..count : parsed[n] = ParsedBody(cells, count, parsed, n) BY <1>p, ParsedDef
<1> DEFINE S == {n \in 0..count : Read(cells, parsed[n], ends, p, types, kept, n)}
<1>4. 0 \in S
  <2>1. 0 \in 0..count OBVIOUS
  <2>2. parsed[0] = [records |-> <<>>, offset |-> 1] BY <1>3, <2>1 DEF ParsedBody
  <2>3. PICK last : last = parsed[0] OBVIOUS
  <2>4. last.records = <<>> /\ last.offset = 1 BY <2>2, <2>3
  <2>5. \A i \in 1..0 : FALSE OBVIOUS
  <2>6. last.records \in Seq(Record) /\ Len(last.records) = 0 BY <2>4, EmptySeq
  <2>7. ends[0] <= kept /\ last.offset = ends[0] + 1 BY <1>0, <1>1, <2>4
  <2>8. 0 \in 0..0 /\ ~(0 < 0) OBVIOUS
  <2>9. Read(cells, last, ends, p, types, kept, 0) BY <2>5, <2>6, <2>7, <2>8 DEF Read
  <2> QED BY <2>1, <2>3, <2>9
<1>5. ASSUME NEW n \in 0..count, n \in S, n < count PROVE n + 1 \in S
  <2>1. n + 1 \in 0..count /\ n + 1 # 0 /\ (n + 1) - 1 = n BY <1>5
  <2>2. parsed[n + 1] = ParseNext(cells, parsed[n]) BY <1>3, <2>1 DEF ParsedBody
  <2>3. PICK last : last = parsed[n] OBVIOUS
  <2>4. Read(cells, last, ends, p, types, kept, n) BY <1>5, <2>3
  <2>5. Read(cells, ParseNext(cells, last), ends, p, types, kept, n + 1)
    BY <1>1, <1>2, <1>5, <1>n, <2>4, RecordIsParsed
  <2> QED BY <2>1, <2>2, <2>3, <2>5
<1>6. 0..count \subseteq S
  <2> HIDE DEF S
  <2> QED BY <1>4, <1>5, UpTo
<1>7. Read(cells, parsed[count], ends, p, types, kept, count)
  <2>1. count \in S BY <1>6
  <2> QED BY <2>1
<1>8. records = parsed[count].records BY <1>n, <1>p DEF ParseRecords
<1>9. PICK m \in 0..count :
        /\ ends[m] <= kept /\ (m < count => kept < ends[m + 1])
        /\ Len(records) = m
        /\ \A i \in 1..m : Says(cells, records[i], p, types[i])
  BY <1>7, <1>8 DEF Read
<1>10. \A i \in 1..count : ends[i] <= kept <=> i <= m
  <2>1. ASSUME NEW i \in 1..count, i <= m PROVE ends[i] <= kept
    <3>1. ends[i] <= ends[m] BY <1>n, <2>1, EndsGrow
    <3> QED BY <1>0, <1>1, <1>9, <1>n, <3>1
  <2>2. ASSUME NEW i \in 1..count, ~(i <= m) PROVE ~(ends[i] <= kept)
    <3>1. PICK k \in 0..count : k = m + 1 BY <2>2
    <3>2. k <= i /\ m < count BY <2>2, <3>1
    <3>3. ends[k] <= ends[i] BY <1>n, <3>2, EndsGrow
    <3>4. kept < ends[k] BY <1>9, <3>1, <3>2
    <3>5. ends[k] \in Nat /\ ends[i] \in Nat BY <1>0, <1>n
    <3> QED BY <1>1, <3>3, <3>4, <3>5
  <2> QED BY <2>1, <2>2
<1> QED BY <1>9, <1>10, <1>n DEF Understood

(***************************************************************************)
(* What is known is what has been heard.                                   *)
(***************************************************************************)
Spoken(h) == {p \in Phones : <<p, "PTR">> \in h \/ <<p, "SRV">> \in h \/ <<p, "TXT">> \in h}
Made(name, target, port, httpPort, paired) ==
  [name |-> name, target |-> target, port |-> port, httpPort |-> httpPort, paired |-> paired]
NameIn(p, h) == IF <<p, "PTR">> \in h THEN Named(p, "PTR") ELSE Instance(p)
TargetIn(p, h) == IF <<p, "SRV">> \in h THEN Named(p, "SRV") ELSE <<>>
PortIn(p, h) == IF <<p, "SRV">> \in h THEN <<"port", p>> ELSE <<>>
HttpIn(p, h) == IF <<p, "TXT">> \in h THEN <<"http", p>> ELSE Default
PairedIn(p, h) == <<p, "TXT">> \in h /\ p \in Paired
ServiceOf(p, h) == Made(NameIn(p, h), TargetIn(p, h), PortIn(p, h), HttpIn(p, h), PairedIn(p, h))

KnowsServices(s, h) ==
  /\ DOMAIN s = {Instance(p) : p \in Spoken(h)}
  /\ \A p \in Spoken(h) : s[Instance(p)] = ServiceOf(p, h)
KnowsAddresses(a, h) ==
  /\ DOMAIN a = {Host(p) : p \in {q \in Phones : <<q, "A">> \in h}}
  /\ \A p \in Phones : <<p, "A">> \in h => a[Host(p)] = Address(p)
Knows(known, h) ==
  /\ known = [services |-> known.services, addresses |-> known.addresses]
  /\ KnowsServices(known.services, h) /\ KnowsAddresses(known.addresses, h)

LEMMA NamesSpelled ==
  ASSUME NEW p \in Phones
  PROVE  /\ Instance(p) = <<Small(p), Small("_reashoot"), Small("local")>>
         /\ Named(p, "PTR") = <<Capital(p), Small("_reashoot"), Small("local")>>
         /\ Named(p, "SRV") = <<Small("host"), Capital(p), Small("local")>>
         /\ Host(p) = <<Small("host"), Small(p), Small("local")>>
<1>1. ASSUME NEW L, NEW a \in L, NEW b \in L, NEW c \in L
      PROVE  <<a>> \o <<b, c>> = <<a, b, c>>
  <2>1. <<a>> \in Seq(L) /\ <<b, c>> \in Seq(L) /\ <<a, b, c>> \in Seq(L) OBVIOUS
  <2>2. Len(<<a>>) = 1 /\ Len(<<b, c>>) = 2 /\ Len(<<a, b, c>>) = 3 OBVIOUS
  <2>3. <<a>> \o <<b, c>> \in Seq(L) /\ Len(<<a>> \o <<b, c>>) = 3 BY <2>1, <2>2
  <2>4. (<<a>> \o <<b, c>>)[1] = a /\ (<<a>> \o <<b, c>>)[2] = b /\ (<<a>> \o <<b, c>>)[3] = c OBVIOUS
  <2>5. \A i \in 1..3 : (<<a>> \o <<b, c>>)[i] = <<a, b, c>>[i]
    <3>1. \A i \in 1..3 : i = 1 \/ i = 2 \/ i = 3 OBVIOUS
    <3> QED BY <2>4, <3>1
  <2> QED BY <2>1, <2>2, <2>3, <2>5, SeqEqual
<1>2. PICK L : L = {Small(p), Capital(p), Small("_reashoot"), Small("local")} OBVIOUS
<1>3. Small(p) \in L /\ Capital(p) \in L /\ Small("_reashoot") \in L /\ Small("local") \in L BY <1>2
<1>4. Instance(p) = <<Small(p), Small("_reashoot"), Small("local")>>
  BY <1>1, <1>3 DEF Instance, Service
<1>5. Named(p, "PTR") = <<Capital(p), Small("_reashoot"), Small("local")>>
  <2>1. Named(p, "PTR") = <<Capital(p)>> \o Service BY DEF Named
  <2> QED BY <1>1, <1>3, <2>1 DEF Service
<1>6. Named(p, "SRV") = <<Small("host"), Capital(p), Small("local")>> BY DEF Named
<1> QED BY <1>4, <1>5, <1>6 DEF Host

LEMMA Lowered ==
  ASSUME NEW p \in Phones
  PROVE  /\ Lowercase(Service) = Service
         /\ Lowercase(Instance(p)) = Instance(p) /\ Lowercase(Host(p)) = Host(p)
         /\ Lowercase(Named(p, "PTR")) = Instance(p) /\ Lowercase(Named(p, "SRV")) = Host(p)
<1>1. ASSUME NEW a, NEW b, NEW c
      PROVE  Lowercase(<<a, b, c>>) = <<Small(a[1]), Small(b[1]), Small(c[1])>>
  BY DEF Lowercase
<1>2. ASSUME NEW a, NEW b PROVE Lowercase(<<a, b>>) = <<Small(a[1]), Small(b[1])>>
  BY DEF Lowercase
<1>3. \A x : Small(x)[1] = x /\ Capital(x)[1] = x BY DEF Small, Capital
<1>4. Lowercase(Service) = Service BY <1>2, <1>3 DEF Service
<1>5. PICK a, b, r, l, o : a = Small(p) /\ b = Capital(p) /\ r = Small("_reashoot") /\ l = Small("local") /\ o = Small("host")
  OBVIOUS
<1>6. Small(a[1]) = a /\ Small(b[1]) = a /\ Small(r[1]) = r /\ Small(l[1]) = l /\ Small(o[1]) = o
  BY <1>3, <1>5
<1>7. Lowercase(<<a, r, l>>) = <<a, r, l>> /\ Lowercase(<<b, r, l>>) = <<a, r, l>>
      /\ Lowercase(<<o, a, l>>) = <<o, a, l>> /\ Lowercase(<<o, b, l>>) = <<o, a, l>>
  BY <1>1, <1>6
<1> QED BY <1>4, <1>5, <1>7, NamesSpelled

LEMMA NamesDiffer ==
  ASSUME NEW p \in Phones, NEW q \in Phones, p # q
  PROVE  Instance(p) # Instance(q) /\ Host(p) # Host(q)
<1>1. Small(p) # Small(q) BY DEF Small
<1>2. Instance(p)[1] = Small(p) /\ Instance(q)[1] = Small(q) BY NamesSpelled
<1>3. Host(p)[2] = Small(p) /\ Host(q)[2] = Small(q) BY NamesSpelled
<1> QED BY <1>1, <1>2, <1>3

LEMMA NamesAreNotEmpty ==
  ASSUME NEW p \in Phones
  PROVE  Instance(p) # <<>> /\ Named(p, "PTR") # <<>> /\ Named(p, "SRV") # <<>> /\ Address(p) # <<>>
<1>1. Len(<<>>) = 0 OBVIOUS
<1>2. Len(Address(p)) = 1 BY DEF Address
<1> QED BY <1>1, <1>2, NamesHaveLabels

\* The fields, one at a time.
LEMMA FieldsAfter ==
  ASSUME NEW p, NEW h
  PROVE  /\ LET g == h \cup {<<p, "PTR">>}
            IN /\ NameIn(p, g) = Named(p, "PTR") /\ TargetIn(p, g) = TargetIn(p, h) /\ PortIn(p, g) = PortIn(p, h)
               /\ HttpIn(p, g) = HttpIn(p, h) /\ PairedIn(p, g) = PairedIn(p, h)
         /\ LET g == h \cup {<<p, "SRV">>}
            IN /\ NameIn(p, g) = NameIn(p, h) /\ TargetIn(p, g) = Named(p, "SRV") /\ PortIn(p, g) = <<"port", p>>
               /\ HttpIn(p, g) = HttpIn(p, h) /\ PairedIn(p, g) = PairedIn(p, h)
         /\ LET g == h \cup {<<p, "TXT">>}
            IN /\ NameIn(p, g) = NameIn(p, h) /\ TargetIn(p, g) = TargetIn(p, h) /\ PortIn(p, g) = PortIn(p, h)
               /\ HttpIn(p, g) = <<"http", p>> /\ PairedIn(p, g) = (p \in Paired)
BY DEF NameIn, TargetIn, PortIn, HttpIn, PairedIn

LEMMA ServiceIsKnown ==
  ASSUME NEW s, NEW h, KnowsServices(s, h), NEW p \in Phones, NEW type \in {"PTR", "SRV", "TXT"},
         NEW g, g = h \cup {<<p, type>>}, NEW t, t = Put(s, Instance(p), ServiceOf(p, g))
  PROVE  KnowsServices(t, g)
<1>1. DOMAIN s = {Instance(q) : q \in Spoken(h)} /\ \A q \in Spoken(h) : s[Instance(q)] = ServiceOf(q, h)
  BY DEF KnowsServices
<1>2. Spoken(g) = Spoken(h) \cup {p} BY DEF Spoken
<1>3. DOMAIN t = {Instance(p)} \cup DOMAIN s /\ t[Instance(p)] = ServiceOf(p, g)
      /\ \A x \in DOMAIN s : x # Instance(p) => t[x] = s[x]
  <2>1. PICK k, v : k = Instance(p) /\ v = ServiceOf(p, g) OBVIOUS
  <2>2. t = Put(s, k, v) BY <2>1
  <2>3. DOMAIN t = {k} \cup DOMAIN s /\ t[k] = v /\ \A x \in DOMAIN s : x # k => t[x] = s[x]
    BY <2>2 DEF Put
  <2> QED BY <2>1, <2>3
<1>4. DOMAIN t = {Instance(q) : q \in Spoken(g)} BY <1>1, <1>2, <1>3
<1>5. ASSUME NEW q \in Spoken(g), q # p PROVE t[Instance(q)] = ServiceOf(q, g)
  <2>1. q \in Spoken(h) /\ q \in Phones BY <1>2, <1>5 DEF Spoken
  <2>2. Instance(q) # Instance(p) BY <1>5, <2>1, NamesDiffer
  <2>3. t[Instance(q)] = ServiceOf(q, h) BY <1>1, <1>3, <2>1, <2>2
  <2>4. \A x : <<q, x>> \in g <=> <<q, x>> \in h BY <1>5
  <2>5. ServiceOf(q, g) = ServiceOf(q, h)
    BY <2>4 DEF ServiceOf, NameIn, TargetIn, PortIn, HttpIn, PairedIn
  <2> QED BY <2>3, <2>5
<1>6. \A q \in Spoken(g) : t[Instance(q)] = ServiceOf(q, g) BY <1>3, <1>5
<1> QED BY <1>4, <1>6 DEF KnowsServices

LEMMA AddressIsKnown ==
  ASSUME NEW a, NEW h, KnowsAddresses(a, h), NEW p \in Phones,
         NEW g, g = h \cup {<<p, "A">>}, NEW t, t = Put(a, Host(p), Address(p))
  PROVE  KnowsAddresses(t, g)
<1>1. /\ DOMAIN a = {Host(q) : q \in {r \in Phones : <<r, "A">> \in h}}
      /\ \A q \in Phones : <<q, "A">> \in h => a[Host(q)] = Address(q)
  BY DEF KnowsAddresses
<1>2. {r \in Phones : <<r, "A">> \in g} = {r \in Phones : <<r, "A">> \in h} \cup {p} OBVIOUS
<1>3. DOMAIN t = {Host(p)} \cup DOMAIN a /\ t[Host(p)] = Address(p)
      /\ \A x \in DOMAIN a : x # Host(p) => t[x] = a[x]
  <2>1. PICK k, v : k = Host(p) /\ v = Address(p) OBVIOUS
  <2>2. t = Put(a, k, v) BY <2>1
  <2>3. DOMAIN t = {k} \cup DOMAIN a /\ t[k] = v /\ \A x \in DOMAIN a : x # k => t[x] = a[x]
    BY <2>2 DEF Put
  <2> QED BY <2>1, <2>3
<1>4. DOMAIN t = {Host(q) : q \in {r \in Phones : <<r, "A">> \in g}} BY <1>1, <1>2, <1>3
<1>5. ASSUME NEW q \in Phones, <<q, "A">> \in g, q # p PROVE t[Host(q)] = Address(q)
  <2>1. <<q, "A">> \in h BY <1>5
  <2>2. Host(q) # Host(p) BY <1>5, NamesDiffer
  <2>3. Host(q) \in DOMAIN a BY <1>1, <2>1
  <2> QED BY <1>1, <1>3, <2>1, <2>2, <2>3
<1>6. \A q \in Phones : <<q, "A">> \in g => t[Host(q)] = Address(q) BY <1>3, <1>5
<1> QED BY <1>4, <1>6 DEF KnowsAddresses

\* A record of another kind says nothing about this.
LEMMA OthersAreKnown ==
  ASSUME NEW x, NEW h, NEW p \in Phones, NEW type \in Types, NEW g, g = h \cup {<<p, type>>}
  PROVE  /\ type = "A" /\ KnowsServices(x, h) => KnowsServices(x, g)
         /\ type # "A" /\ KnowsAddresses(x, h) => KnowsAddresses(x, g)
<1>1. ASSUME type = "A", KnowsServices(x, h) PROVE KnowsServices(x, g)
  <2>1. \A q : /\ <<q, "PTR">> \in g <=> <<q, "PTR">> \in h
               /\ <<q, "SRV">> \in g <=> <<q, "SRV">> \in h
               /\ <<q, "TXT">> \in g <=> <<q, "TXT">> \in h
    BY <1>1
  <2>2. Spoken(g) = Spoken(h) BY <2>1 DEF Spoken
  <2>3. \A q : ServiceOf(q, g) = ServiceOf(q, h)
    BY <2>1 DEF ServiceOf, NameIn, TargetIn, PortIn, HttpIn, PairedIn
  <2> QED BY <1>1, <2>2, <2>3 DEF KnowsServices
<1>2. ASSUME type # "A", KnowsAddresses(x, h) PROVE KnowsAddresses(x, g)
  <2>1. \A q : <<q, "A">> \in g <=> <<q, "A">> \in h BY <1>2
  <2> QED BY <1>2, <2>1 DEF KnowsAddresses
<1> QED BY <1>1, <1>2

\* What a service is after each record.
LEMMA ServiceAfter ==
  ASSUME NEW p, NEW h, NEW s, s = ServiceOf(p, h)
  PROVE  /\ [s EXCEPT !.name = Named(p, "PTR")] = ServiceOf(p, h \cup {<<p, "PTR">>})
         /\ [s EXCEPT !.port = <<"port", p>>, !.target = Named(p, "SRV")] = ServiceOf(p, h \cup {<<p, "SRV">>})
         /\ [s EXCEPT !.httpPort = <<"http", p>>, !.paired = p \in Paired] = ServiceOf(p, h \cup {<<p, "TXT">>})
<1>1. PICK n, t, o, x, b :
        n = NameIn(p, h) /\ t = TargetIn(p, h) /\ o = PortIn(p, h) /\ x = HttpIn(p, h) /\ b = PairedIn(p, h)
  OBVIOUS
<1>2. s = Made(n, t, o, x, b) BY <1>1 DEF ServiceOf
<1>3. [s EXCEPT !.name = Named(p, "PTR")] = ServiceOf(p, h \cup {<<p, "PTR">>})
  <2>1. PICK v, g : v = Named(p, "PTR") /\ g = h \cup {<<p, "PTR">>} OBVIOUS
  <2>2. [s EXCEPT !.name = v] = Made(v, t, o, x, b) BY <1>2 DEF Made
  <2>3. /\ NameIn(p, g) = v /\ TargetIn(p, g) = t /\ PortIn(p, g) = o /\ HttpIn(p, g) = x
        /\ PairedIn(p, g) = b
    BY <1>1, <2>1, FieldsAfter
  <2>4. ServiceOf(p, g) = Made(v, t, o, x, b) BY <2>3 DEF ServiceOf
  <2> QED BY <2>1, <2>2, <2>4
<1>4. [s EXCEPT !.port = <<"port", p>>, !.target = Named(p, "SRV")] = ServiceOf(p, h \cup {<<p, "SRV">>})
  <2>1. PICK v, w, g : v = <<"port", p>> /\ w = Named(p, "SRV") /\ g = h \cup {<<p, "SRV">>} OBVIOUS
  <2>2. [s EXCEPT !.port = v, !.target = w] = Made(n, w, v, x, b)
    <3>1. PICK q : q = [s EXCEPT !.port = v] OBVIOUS
    <3>2. q = Made(n, t, v, x, b) BY <1>2, <3>1 DEF Made
    <3>3. [q EXCEPT !.target = w] = Made(n, w, v, x, b) BY <3>2 DEF Made
    <3> QED BY <3>1, <3>3
  <2>3. /\ NameIn(p, g) = n /\ TargetIn(p, g) = w /\ PortIn(p, g) = v /\ HttpIn(p, g) = x
        /\ PairedIn(p, g) = b
    BY <1>1, <2>1, FieldsAfter
  <2>4. ServiceOf(p, g) = Made(n, w, v, x, b) BY <2>3 DEF ServiceOf
  <2> QED BY <2>1, <2>2, <2>4
<1>5. [s EXCEPT !.httpPort = <<"http", p>>, !.paired = p \in Paired] = ServiceOf(p, h \cup {<<p, "TXT">>})
  <2>1. PICK v, w, g : v = <<"http", p>> /\ w = (p \in Paired) /\ g = h \cup {<<p, "TXT">>} OBVIOUS
  <2>2. [s EXCEPT !.httpPort = v, !.paired = w] = Made(n, t, o, v, w)
    <3>1. PICK q : q = [s EXCEPT !.httpPort = v] OBVIOUS
    <3>2. q = Made(n, t, o, v, b) BY <1>2, <3>1 DEF Made
    <3>3. [q EXCEPT !.paired = w] = Made(n, t, o, v, w) BY <3>2 DEF Made
    <3> QED BY <3>1, <3>3
  <2>3. /\ NameIn(p, g) = n /\ TargetIn(p, g) = t /\ PortIn(p, g) = o /\ HttpIn(p, g) = v
        /\ PairedIn(p, g) = w
    BY <1>1, <2>1, FieldsAfter
  <2>4. ServiceOf(p, g) = Made(n, t, o, v, w) BY <2>3 DEF ServiceOf
  <2> QED BY <2>1, <2>2, <2>4
<1> QED BY <1>3, <1>4, <1>5

\* The service as the code finds it, or makes it.
LEMMA ServiceIsFound ==
  ASSUME NEW s, NEW h, KnowsServices(s, h), NEW p \in Phones, NEW d, d = Details(s, Instance(p))
  PROVE  \/ p \in Spoken(h) /\ d = ServiceOf(p, h) /\ d.name # <<>>
         \/ p \notin Spoken(h) /\ d = Unknown
<1>1. CASE p \in Spoken(h)
  <2>1. Instance(p) \in DOMAIN s /\ s[Instance(p)] = ServiceOf(p, h) BY <1>1 DEF KnowsServices
  <2>2. d = ServiceOf(p, h) BY <2>1 DEF Details
  <2>3. d.name # <<>>
    <3>1. PICK n, t, o, x, b :
            n = NameIn(p, h) /\ t = TargetIn(p, h) /\ o = PortIn(p, h) /\ x = HttpIn(p, h) /\ b = PairedIn(p, h)
      OBVIOUS
    <3>2. d = Made(n, t, o, x, b) BY <2>2, <3>1 DEF ServiceOf
    <3>3. d.name = n BY <3>2 DEF Made
    <3>4. n # <<>> BY <3>1, NamesAreNotEmpty DEF NameIn
    <3> QED BY <3>3, <3>4
  <2> QED BY <1>1, <2>2, <2>3
<1>2. CASE p \notin Spoken(h)
  <2>1. Instance(p) \notin DOMAIN s
    <3> SUFFICES ASSUME NEW q \in Spoken(h), Instance(q) = Instance(p) PROVE FALSE BY DEF KnowsServices
    <3>1. q \in Phones BY DEF Spoken
    <3> QED BY <1>2, <3>1, NamesDiffer
  <2>2. d = Unknown BY <2>1 DEF Details
  <2> QED BY <1>2, <2>2
<1> QED BY <1>1, <1>2

\* Before its first record a service is what it is without any, but for the name.
LEMMA ServiceIsMade ==
  ASSUME NEW h, NEW p \in Phones, p \notin Spoken(h), NEW d, d = Unknown
  PROVE  /\ NamedAtLeast(d, Instance(p)) = ServiceOf(p, h)
         /\ [d EXCEPT !.name = Named(p, "PTR")] = ServiceOf(p, h \cup {<<p, "PTR">>})
<1>1. <<p, "PTR">> \notin h /\ <<p, "SRV">> \notin h /\ <<p, "TXT">> \notin h BY DEF Spoken
<1>2. PICK e, x, i, w, g : /\ e = <<>> /\ x = Default /\ i = Instance(p) /\ w = Named(p, "PTR")
                           /\ g = h \cup {<<p, "PTR">>}
  OBVIOUS
<1>b. PICK b : b = FALSE OBVIOUS
<1>3. d = Made(e, e, e, x, b) BY <1>2, <1>b DEF Unknown, Made
<1>4. /\ NameIn(p, h) = i /\ TargetIn(p, h) = e /\ PortIn(p, h) = e /\ HttpIn(p, h) = x
      /\ NameIn(p, g) = w /\ TargetIn(p, g) = e /\ PortIn(p, g) = e /\ HttpIn(p, g) = x
  BY <1>1, <1>2 DEF NameIn, TargetIn, PortIn, HttpIn
<1>5. PairedIn(p, h) = b /\ PairedIn(p, g) = b BY <1>1, <1>2, <1>b DEF PairedIn
<1>6. ServiceOf(p, h) = Made(i, e, e, x, b) /\ ServiceOf(p, g) = Made(w, e, e, x, b)
  BY <1>4, <1>5 DEF ServiceOf
<1>7. d.name = e BY <1>3 DEF Made
<1>c. [d EXCEPT !.name = i] = Made(i, e, e, x, b) BY <1>3 DEF Made
<1>d. [d EXCEPT !.name = w] = Made(w, e, e, x, b) BY <1>3 DEF Made
<1>8. NamedAtLeast(d, i) = [d EXCEPT !.name = i] BY <1>2, <1>7 DEF NamedAtLeast
<1> QED BY <1>2, <1>6, <1>c, <1>d, <1>8

LEMMA ServiceIsNamed ==
  ASSUME NEW s, NEW h, KnowsServices(s, h), NEW p \in Phones, NEW d, d = Details(s, Instance(p))
  PROVE  NamedAtLeast(d, Instance(p)) = ServiceOf(p, h)
<1>1. CASE p \in Spoken(h) /\ d = ServiceOf(p, h) /\ d.name # <<>> BY <1>1 DEF NamedAtLeast
<1>2. CASE p \notin Spoken(h) /\ d = Unknown BY <1>2, ServiceIsMade
<1> QED BY <1>1, <1>2, ServiceIsFound

LEMMA ServiceIsRenamed ==
  ASSUME NEW s, NEW h, KnowsServices(s, h), NEW p \in Phones, NEW d, d = Details(s, Instance(p))
  PROVE  [d EXCEPT !.name = Named(p, "PTR")] = ServiceOf(p, h \cup {<<p, "PTR">>})
<1>1. CASE p \in Spoken(h) /\ d = ServiceOf(p, h) /\ d.name # <<>> BY <1>1, ServiceAfter
<1>2. CASE p \notin Spoken(h) /\ d = Unknown BY <1>2, ServiceIsMade
<1> QED BY <1>1, <1>2, ServiceIsFound

LEMMA RecordIsTaken ==
  ASSUME NEW known, NEW h, Knows(known, h), NEW p \in Phones, NEW type \in Types,
         NEW cells, NEW r, Says(cells, r, p, type)
  PROVE  Knows(Take(known, cells, r), h \cup {<<p, type>>})
<1>g. PICK g : g = h \cup {<<p, type>>} OBVIOUS
<1>0. /\ known = [services |-> known.services, addresses |-> known.addresses]
      /\ KnowsServices(known.services, h) /\ KnowsAddresses(known.addresses, h)
  BY DEF Knows
<1>s. PICK s : s = known.services OBVIOUS
<1>a. PICK a : a = known.addresses OBVIOUS
<1>1. \A k, v : [known EXCEPT !.services = Put(@, k, v)] = [services |-> Put(s, k, v), addresses |-> a]
  BY <1>0, <1>s, <1>a
<1>2. \A k, v : [known EXCEPT !.addresses = Put(@, k, v)] = [services |-> s, addresses |-> Put(a, k, v)]
  BY <1>0, <1>s, <1>a
<1>3. r.type = type /\ r.owner = Owner(p, type) BY DEF Says
<1>4. ASSUME type \in {"PTR", "SRV", "TXT"},
             Take(known, cells, r) = [services |-> Put(s, Instance(p), ServiceOf(p, g)), addresses |-> a]
      PROVE  Knows(Take(known, cells, r), g)
  <2>1. PICK t : t = Put(s, Instance(p), ServiceOf(p, g)) OBVIOUS
  <2>2. KnowsServices(t, g) BY <1>0, <1>4, <1>g, <1>s, <2>1, ServiceIsKnown
  <2>3. KnowsAddresses(a, g) BY <1>0, <1>4, <1>g, <1>a, OthersAreKnown
  <2>4. PICK next : next = [services |-> t, addresses |-> a] OBVIOUS
  <2>5. next.services = t /\ next.addresses = a BY <2>4
  <2>6. Knows(next, g) BY <2>2, <2>3, <2>4, <2>5 DEF Knows
  <2> QED BY <1>4, <2>1, <2>4, <2>6
<1>5. CASE type = "PTR"
  <2>1. ReadName(cells, r.data) = {Named(p, "PTR")} BY <1>5 DEF Says
  <2>2. (CHOOSE n \in {Named(p, "PTR")} : TRUE) = Named(p, "PTR") OBVIOUS
  <2>3. Lowercase(r.owner) = Service BY <1>3, <1>5, Lowered DEF Owner
  <2>4. Lowercase(Named(p, "PTR")) = Instance(p) BY Lowered
  <2>k. PICK d : d = Details(s, Instance(p)) OBVIOUS
  <2>5. Take(known, cells, r) = [known EXCEPT !.services =
          Put(@, Instance(p), [d EXCEPT !.name = Named(p, "PTR")])]
    BY <1>3, <1>5, <1>s, <2>1, <2>2, <2>3, <2>4, <2>k DEF Take
  <2>6. [d EXCEPT !.name = Named(p, "PTR")] = ServiceOf(p, g)
    BY <1>0, <1>5, <1>g, <1>s, <2>k, ServiceIsRenamed
  <2> QED BY <1>1, <1>4, <1>5, <1>g, <2>5, <2>6
<1>6. CASE type = "SRV"
  <2>1. cells[r.data][2] = p /\ ReadName(cells, r.data + 1) = {Named(p, "SRV")} BY <1>6 DEF Says
  <2>k. PICK k, d : k = ServiceOf(p, h) /\ d = Details(s, Instance(p)) OBVIOUS
  <2>2. (CHOOSE n \in {Named(p, "SRV")} : TRUE) = Named(p, "SRV") /\ {Named(p, "SRV")} # {} OBVIOUS
  <2>3. r.owner = Instance(p) /\ Lowercase(r.owner) = Instance(p) BY <1>3, <1>6, Lowered DEF Owner
  <2>4. NamedAtLeast(d, Instance(p)) = k BY <1>0, <1>s, <2>k, ServiceIsNamed
  <2>5. Take(known, cells, r) = [known EXCEPT !.services =
          Put(@, Instance(p), [k EXCEPT !.port = <<"port", p>>, !.target = Named(p, "SRV")])]
    BY <1>3, <1>6, <1>s, <2>1, <2>2, <2>3, <2>4, <2>k DEF Take
  <2>6. [k EXCEPT !.port = <<"port", p>>, !.target = Named(p, "SRV")] = ServiceOf(p, g)
    BY <1>6, <1>g, <2>k, ServiceAfter
  <2> QED BY <1>1, <1>4, <1>6, <1>g, <2>5, <2>6
<1>7. CASE type = "TXT"
  <2>1. cells[r.data][2] = p BY <1>7 DEF Says
  <2>k. PICK k, d : k = ServiceOf(p, h) /\ d = Details(s, Instance(p)) OBVIOUS
  <2>3. r.owner = Instance(p) /\ Lowercase(r.owner) = Instance(p) BY <1>3, <1>7, Lowered DEF Owner
  <2>4. NamedAtLeast(d, Instance(p)) = k BY <1>0, <1>s, <2>k, ServiceIsNamed
  <2>5. Take(known, cells, r) = [known EXCEPT !.services =
          Put(@, Instance(p), [k EXCEPT !.httpPort = <<"http", p>>, !.paired = p \in Paired])]
    BY <1>3, <1>7, <1>s, <2>1, <2>3, <2>4, <2>k DEF Take
  <2>6. [k EXCEPT !.httpPort = <<"http", p>>, !.paired = p \in Paired] = ServiceOf(p, g)
    BY <1>7, <1>g, <2>k, ServiceAfter
  <2> QED BY <1>1, <1>4, <1>7, <1>g, <2>5, <2>6
<1>8. CASE type = "A"
  <2>1. cells[r.data][2] = p BY <1>8 DEF Says
  <2>2. Lowercase(r.owner) = Host(p) BY <1>3, <1>8, Lowered DEF Owner
  <2>3. Take(known, cells, r) = [known EXCEPT !.addresses = Put(@, Host(p), Address(p))]
    BY <1>3, <1>8, <2>1, <2>2 DEF Take
  <2>4. PICK t : t = Put(a, Host(p), Address(p)) OBVIOUS
  <2>5. KnowsAddresses(t, g) BY <1>0, <1>8, <1>a, <1>g, <2>4, AddressIsKnown
  <2>6. KnowsServices(s, g) BY <1>0, <1>8, <1>g, <1>s, OthersAreKnown
  <2>7. PICK next : next = [services |-> s, addresses |-> t] OBVIOUS
  <2>8. next.services = s /\ next.addresses = t BY <2>7
  <2>9. Knows(next, g) BY <2>5, <2>6, <2>7, <2>8 DEF Knows
  <2>10. Take(known, cells, r) = next BY <1>2, <2>3, <2>4, <2>7
  <2> QED BY <1>g, <2>9, <2>10
<1> QED BY <1>5, <1>6, <1>7, <1>8 DEF Types

\* What is known after a packet, of which the end may be missing.
LEMMA RecordsAreTaken ==
  ASSUME NEW p \in Phones, NEW types \in Seq(Types), NEW cells, NEW records, NEW m \in 0..Len(types),
         Len(records) = m, \A i \in 1..m : Says(cells, records[i], p, types[i]),
         NEW known, NEW h, Knows(known, h)
  PROVE  Knows(Learnt(known, cells, records)[m], h \cup {<<p, types[i]>> : i \in 1..m})
<1>0. m \in Nat OBVIOUS
<1>l. PICK learnt : learnt = Learnt(known, cells, records) OBVIOUS
<1>1. \A n \in 0..m : learnt[n] = LearntBody(known, cells, records, learnt, n) BY <1>0, <1>l, LearntDef
<1> DEFINE H(n) == h \cup {<<p, types[i]>> : i \in 1..n}
           S == {n \in 0..m : Knows(learnt[n], H(n))}
<1>2. 0 \in S
  <2>1. 0 \in 0..m BY <1>0
  <2>2. learnt[0] = known BY <1>1, <2>1 DEF LearntBody
  <2>3. H(0) = h
    <3>1. \A i \in 1..0 : FALSE OBVIOUS
    <3> QED BY <3>1
  <2> HIDE DEF H
  <2> QED BY <2>1, <2>2, <2>3
<1>3. ASSUME NEW n \in 0..m, n \in S, n < m PROVE n + 1 \in S
  <2>1. PICK k \in 1..m : k = n + 1 BY <1>0, <1>3
  <2>2. k \in 0..m /\ k # 0 /\ k - 1 = n /\ k \in 1..Len(types) BY <2>1
  <2>3. learnt[k] = Take(learnt[n], cells, records[k]) BY <1>1, <2>2 DEF LearntBody
  <2>4. types[k] \in Types BY <2>2
  <2>5. PICK g : g = H(n) OBVIOUS
  <2>6. Knows(learnt[n], g) BY <1>3, <2>5
  <2>7. Knows(Take(learnt[n], cells, records[k]), g \cup {<<p, types[k]>>}) BY <2>4, <2>6, RecordIsTaken
  <2>8. H(k) = g \cup {<<p, types[k]>>}
    <3>1. 1..k = (1..n) \cup {k} BY <2>1
    <3> QED BY <2>5, <3>1
  <2>9. Knows(learnt[k], H(k)) BY <2>3, <2>7, <2>8
  <2> QED BY <2>1, <2>2, <2>9
<1>4. 0..m \subseteq S
  <2> HIDE DEF S
  <2> QED BY <1>0, <1>2, <1>3, UpTo
<1>5. m \in S
  <2> HIDE DEF S
  <2> QED BY <1>0, <1>4
<1> QED BY <1>5, <1>l

HeardFrom(p, types, packet, kept) ==
  {<<p, types[i]>> : i \in {i \in DOMAIN types : packet.ends[i] <= kept}}

LEMMA PacketIsLearnt ==
  ASSUME NEW p \in Phones, NEW types \in Orders, NEW compress \in BOOLEAN,
         NEW packet, packet = Packets[<<p, types, compress>>], NEW kept \in 0..Len(packet.cells),
         NEW cells, cells = SubSeq(packet.cells, 1, kept),
         NEW records, records = ParseRecords(cells, Len(types)),
         NEW known, NEW h, Knows(known, h)
  PROVE  Knows(Learnt(known, cells, records)[Len(records)], h \cup HeardFrom(p, types, packet, kept))
<1>1. types \in Seq(Types) /\ MaxJumps \in Nat /\ MaxJumps >= 3 /\ DOMAIN types = 1..Len(types)
      /\ Len(types) \in Nat
  BY DiscoveryAssumption, LenProperties
<1>w. PICK written : written = Written(p, types, compress) OBVIOUS
<1>f. PICK full : full = written[Len(types)] OBVIOUS
<1>e. PICK ends : ends = EndsOf(written, Len(types)) OBVIOUS
<1>2. HoldsRecords(full, ends, p, types, Len(types)) BY <1>1, <1>e, <1>f, <1>w, PacketIsWritten
<1>3. packet.cells = full /\ packet.ends = [i \in DOMAIN types |-> Len(written[i])]
  <2>1. PICK of \in Phones \X Orders \X BOOLEAN : of = <<p, types, compress>> OBVIOUS
  <2>2. packet = PacketOf(of[1], of[2], of[3]) BY <2>1 DEF Packets
  <2>3. packet = PacketOf(p, types, compress) BY <2>1, <2>2
  <2> QED BY <1>f, <1>w, <2>3 DEF PacketOf
<1>4. \A i \in 1..Len(types) : packet.ends[i] = ends[i] BY <1>1, <1>3, <1>e DEF EndsOf
<1>5. kept \in 0..Len(full) /\ cells = SubSeq(full, 1, kept) BY <1>3
<1>6. PICK m \in 0..Len(types) :
        /\ Len(records) = m /\ \A i \in 1..m : Says(cells, records[i], p, types[i])
        /\ \A i \in 1..Len(types) : ends[i] <= kept <=> i <= m
  <2>1. Understood(cells, records, p, types, ends, kept) BY <1>1, <1>2, <1>5, RecordsAreParsed
  <2> QED BY <2>1 DEF Understood
<1>7. {i \in DOMAIN types : packet.ends[i] <= kept} = 1..m
  <2>1. \A i \in 1..Len(types) : packet.ends[i] <= kept <=> i <= m BY <1>4, <1>6
  <2>2. \A i \in 1..m : i \in 1..Len(types) /\ i <= m BY <1>1
  <2>3. \A i \in 1..Len(types) : i <= m => i \in 1..m BY <1>1
  <2> QED BY <1>1, <2>1, <2>2, <2>3
<1>8. Knows(Learnt(known, cells, records)[m], h \cup {<<p, types[i]>> : i \in 1..m})
  BY <1>1, <1>6, RecordsAreTaken
<1> QED BY <1>6, <1>7, <1>8 DEF HeardFrom

(***************************************************************************)
(* The list.                                                               *)
(***************************************************************************)
ListInv ==
  /\ Knows([services |-> services, addresses |-> addresses], heard)
  /\ PhonesAsAnnounced

LEMMA NothingIsKnown == DiscoveryInit => ListInv
<1> SUFFICES ASSUME DiscoveryInit PROVE ListInv OBVIOUS
<1>1. services = <<>> /\ addresses = <<>> /\ heard = {} /\ found = <<>> BY DEF DiscoveryInit
<1>2. DOMAIN services = {} /\ DOMAIN addresses = {}
  <2>1. DOMAIN <<>> = {} OBVIOUS
  <2> QED BY <1>1, <2>1
<1>3. KnowsServices(services, heard) BY <1>1, <1>2 DEF KnowsServices, Spoken
<1>4. KnowsAddresses(addresses, heard) BY <1>1, <1>2 DEF KnowsAddresses
<1>5. Knows([services |-> services, addresses |-> addresses], heard) BY <1>3, <1>4 DEF Knows
<1> QED BY <1>1, <1>5 DEF ListInv, PhonesAsAnnounced

\* What Deadline lists of a phone whose SRV record has come.
LEMMA PhoneIsListed ==
  ASSUME Knows([services |-> services, addresses |-> addresses], heard), NEW p \in Spoken(heard)
  PROVE  /\ services[Instance(p)].port # <<>> <=> <<p, "SRV">> \in heard
         /\ <<p, "SRV">> \in heard => /\ AddressOf(services[Instance(p)].target) # <<>>
                                     /\ Listed(services[Instance(p)]) = Expected(p)
<1>0. p \in Phones BY DEF Spoken
<1>1. KnowsServices(services, heard) /\ KnowsAddresses(addresses, heard) BY DEF Knows
<1>s. PICK s : s = services[Instance(p)] OBVIOUS
<1>2. s = ServiceOf(p, heard) BY <1>1, <1>s DEF KnowsServices
<1>n. PICK n, t, o, x, b :
        /\ n = NameIn(p, heard) /\ t = TargetIn(p, heard) /\ o = PortIn(p, heard)
        /\ x = HttpIn(p, heard) /\ b = PairedIn(p, heard)
  OBVIOUS
<1>3. s = [name |-> n, target |-> t, port |-> o, httpPort |-> x, paired |-> b]
  BY <1>2, <1>n DEF ServiceOf, Made
<1>4. s.name = n /\ s.target = t /\ s.port = o /\ s.httpPort = x /\ s.paired = b BY <1>3
<1>5. o # <<>> <=> <<p, "SRV">> \in heard
  <2>1. <<"port", p>> # <<>>
    <3>1. Len(<<"port", p>>) = 2 /\ Len(<<>>) = 0 OBVIOUS
    <3> QED BY <3>1
  <2> QED BY <1>n, <2>1 DEF PortIn
<1>6. ASSUME <<p, "SRV">> \in heard
      PROVE  AddressOf(t) = (IF <<p, "A">> \in heard THEN Address(p) ELSE Named(p, "SRV"))
  <2>1. t = Named(p, "SRV") /\ Lowercase(t) = Host(p) BY <1>0, <1>6, <1>n, Lowered DEF TargetIn
  <2>2. CASE <<p, "A">> \in heard
    <3>1. Host(p) \in DOMAIN addresses /\ addresses[Host(p)] = Address(p)
      BY <1>0, <1>1, <2>2 DEF KnowsAddresses
    <3> QED BY <2>1, <2>2, <3>1 DEF AddressOf
  <2>3. CASE <<p, "A">> \notin heard
    <3>1. Host(p) \notin DOMAIN addresses
      <4> SUFFICES ASSUME NEW q \in Phones, <<q, "A">> \in heard, Host(q) = Host(p) PROVE FALSE
        BY <1>1 DEF KnowsAddresses
      <4> QED BY <1>0, <2>3, NamesDiffer
    <3> QED BY <2>1, <2>3, <3>1 DEF AddressOf
  <2> QED BY <2>2, <2>3
<1>7. ASSUME <<p, "SRV">> \in heard PROVE AddressOf(t) # <<>> BY <1>0, <1>6, <1>7, NamesAreNotEmpty
<1>8. ASSUME <<p, "SRV">> \in heard PROVE Listed(s) = Expected(p)
  <2>1. PICK a : a = AddressOf(t) OBVIOUS
  <2>2. Listed(s) = [name |-> n, host |-> a, port |-> o, httpPort |-> x, paired |-> b]
    BY <1>4, <2>1 DEF Listed
  <2>3. /\ n = (IF <<p, "PTR">> \in heard THEN Named(p, "PTR") ELSE Instance(p))
        /\ a = (IF <<p, "A">> \in heard THEN Address(p) ELSE Named(p, "SRV"))
        /\ o = <<"port", p>>
        /\ x = (IF <<p, "TXT">> \in heard THEN <<"http", p>> ELSE Default)
    BY <1>6, <1>8, <1>n, <2>1 DEF NameIn, PortIn, HttpIn
  <2>4. b = (<<p, "TXT">> \in heard /\ p \in Paired) BY <1>n DEF PairedIn
  <2>5. Expected(p) = [name |-> n, host |-> a, port |-> o, httpPort |-> x, paired |-> b]
    BY <2>3, <2>4 DEF Expected
  <2> QED BY <2>2, <2>5
<1> QED BY <1>4, <1>5, <1>7, <1>8, <1>s

LEMMA DeadlineLists ==
  ASSUME Knows([services |-> services, addresses |-> addresses], heard), Deadline
  PROVE  PhonesAsAnnounced'
<1>1. DOMAIN services = {Instance(p) : p \in Spoken(heard)} BY DEF Knows, KnowsServices
<1>l. PICK list : list = {Listed(services[k]) : k \in {k \in DOMAIN services :
                           services[k].port # <<>> /\ AddressOf(services[k].target) # <<>>}}
  OBVIOUS
<1>2. found' = <<list>> /\ heard' = heard BY <1>l DEF Deadline
<1>3. list = {Expected(p) : p \in {p \in Phones : <<p, "SRV">> \in heard}}
  <2>1. ASSUME NEW x \in list PROVE x \in {Expected(p) : p \in {p \in Phones : <<p, "SRV">> \in heard}}
    <3>1. PICK k \in DOMAIN services : x = Listed(services[k]) /\ services[k].port # <<>> BY <1>l
    <3>2. PICK p \in Spoken(heard) : k = Instance(p) BY <1>1
    <3>3. <<p, "SRV">> \in heard /\ Listed(services[k]) = Expected(p) BY <3>1, <3>2, PhoneIsListed
    <3>4. p \in Phones BY DEF Spoken
    <3> QED BY <3>1, <3>3, <3>4
  <2>2. ASSUME NEW p \in Phones, <<p, "SRV">> \in heard PROVE Expected(p) \in list
    <3>1. p \in Spoken(heard) BY <2>2 DEF Spoken
    <3>2. PICK k \in DOMAIN services : k = Instance(p) BY <1>1, <3>1
    <3>3. services[k].port # <<>> /\ AddressOf(services[k].target) # <<>> /\ Listed(services[k]) = Expected(p)
      BY <2>2, <3>1, <3>2, PhoneIsListed
    <3> QED BY <1>l, <3>3
  <2> QED BY <2>1, <2>2
<1>4. found'[1] = list BY <1>2
<1>5. \A p : Expected(p)' = Expected(p) BY <1>2 DEF Expected
<1>6. {Expected(p)' : p \in {p \in Phones : <<p, "SRV">> \in heard'}}
      = {Expected(p) : p \in {p \in Phones : <<p, "SRV">> \in heard}}
  BY <1>2, <1>5
<1> QED BY <1>3, <1>4, <1>6 DEF PhonesAsAnnounced

LEMMA ListStays ==
  ASSUME ListInv, found' = found, heard' = heard PROVE PhonesAsAnnounced'
BY DEF ListInv, PhonesAsAnnounced, Expected

LEMMA StepKnows ==
  ASSUME ListInv, [DiscoveryNext]_dvars PROVE ListInv'
<1>0. Knows([services |-> services, addresses |-> addresses], heard) BY DEF ListInv
<1>1. ASSUME NEW p \in Phones, NEW types \in Orders, NEW compress \in BOOLEAN,
             NEW kept \in 0..Len(Packets[<<p, types, compress>>].cells),
             ReceivePacket(p, types, Packets[<<p, types, compress>>], kept)
      PROVE  ListInv'
  <2>p. PICK packet : packet = Packets[<<p, types, compress>>] OBVIOUS
  <2>c. PICK cells : cells = SubSeq(packet.cells, 1, kept) OBVIOUS
  <2>r. PICK records : records = ParseRecords(cells, Len(types)) OBVIOUS
  <2>k. PICK known : known = [services |-> services, addresses |-> addresses] OBVIOUS
  <2>a. PICK after : after = Learnt(known, cells, records)[Len(records)] OBVIOUS
  <2>h. PICK h : h = heard \cup HeardFrom(p, types, packet, kept) OBVIOUS
  <2>1. found = <<>> /\ services' = after.services /\ addresses' = after.addresses /\ heard' = h /\ found' = found
    BY <1>1, <2>a, <2>c, <2>h, <2>k, <2>p, <2>r DEF ReceivePacket, HeardFrom
  <2>2. kept \in 0..Len(packet.cells) /\ Knows(known, heard) BY <1>0, <2>k, <2>p
  <2>3. Knows(Learnt(known, cells, records)[Len(records)], heard \cup HeardFrom(p, types, packet, kept))
    BY <2>2, <2>c, <2>p, <2>r, PacketIsLearnt
  <2>4. Knows(after, h) BY <2>3, <2>a, <2>h
  <2>5. after = [services |-> after.services, addresses |-> after.addresses] BY <2>4 DEF Knows
  <2>6. Knows([services |-> services', addresses |-> addresses'], heard') BY <2>1, <2>4, <2>5
  <2>7. PhonesAsAnnounced' BY <2>1 DEF PhonesAsAnnounced
  <2> QED BY <2>6, <2>7 DEF ListInv, Knows, KnowsServices, KnowsAddresses
<1>2. CASE Deadline
  <2>1. PhonesAsAnnounced' BY <1>0, <1>2, DeadlineLists
  <2>2. services' = services /\ addresses' = addresses /\ heard' = heard BY <1>2 DEF Deadline
  <2>3. Knows([services |-> services', addresses |-> addresses'], heard') BY <1>0, <2>2
  <2> QED BY <2>1, <2>3 DEF ListInv
<1>3. CASE UNCHANGED dvars
  <2>1. services' = services /\ addresses' = addresses /\ heard' = heard /\ found' = found BY <1>3 DEF dvars
  <2>2. PhonesAsAnnounced' BY <2>1, ListStays
  <2>3. Knows([services |-> services', addresses |-> addresses'], heard') BY <1>0, <2>1
  <2> QED BY <2>2, <2>3 DEF ListInv
<1> QED BY <1>1, <1>2, <1>3 DEF DiscoveryNext

\* PhonesAsAnnounced: when the helper lists the phones, it lists each phone whose SRV record
\* has come, with what its records say, and no other, whatever packets brought them: cut
\* short anywhere, in any order, with names in full or as pointers, in capitals or not.
THEOREM ListIsRight == DiscoverySpec => []PhonesAsAnnounced
<1>1. DiscoveryInit => ListInv BY NothingIsKnown
<1>2. ListInv /\ [DiscoveryNext]_dvars => ListInv' BY StepKnows
<1>3. ListInv => PhonesAsAnnounced BY DEF ListInv
<1> QED BY <1>1, <1>2, <1>3, PTL DEF DiscoverySpec
=============================================================================
