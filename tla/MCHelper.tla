------------------------------ MODULE MCHelper ------------------------------
(***************************************************************************)
(* The helper and what it is given and gives back: the life of a helper    *)
(* process, the discovery of phones, and the algorithms, each on its own   *)
(* and chosen in the initial state.                                        *)
(***************************************************************************)
EXTENDS HelperChannel, Discovery, CommandWire

VARIABLE which

Strings(S, n) == UNION {[1..k -> S] : k \in 0..n}

Few == {<<"null">>, <<"number", 1, 0>>, <<"string", <<"q">>>>, <<"array", <<>>>>,
        <<"object", <<>>>>, <<"array", <<<<"bool", TRUE>>>>>>}
MCValues ==
  {<<"string", s>> : s \in Strings({"a", "q", "\\", "/", "newline", "control", "n"}, 2)}
  \cup {<<"number", m, e>> : m \in {1, -9, 11, 199, -999, 1001}, e \in {-9, -6, -5, -4, -2, -1, 0, 3}}
  \cup {<<"array", s>> : s \in Strings(Few, 2)}
  \cup UNION {{<<"object", f>> : f \in [K -> Few]} :
              K \in {{<<>>}, {<<"a">>, <<"q">>}, {<<"\\">>, <<"\\", "a">>}}}
MCTexts ==
  Strings({"q", "a", "\\", "{", "}", "[", ",", ":", "1", "u41", "control"}, 4)
  \cup Strings({"0", "9", "-", "+", ".", "e"}, 5)

MCSets ==
  {[profile |-> f[1], chroma |-> f[2], matrix |-> m, order |-> o, width |-> s[1],
    height |-> s[2], frames |-> i, crop |-> c] :
   f \in {<<66, 1>>, <<100, 0>>, <<100, 1>>, <<100, 2>>, <<100, 3>>}, m \in BOOLEAN, o \in 0..2,
   s \in {<<39, 22>>, <<0, 1>>}, i \in 0..1, c \in {<<0, 0, 0, 0>>, <<1, 2, 3, 1>>}}

MCSettings ==
  [host : {"", "h"}, controlPort : {"8787"}, httpPort : {"8788"}, token : {"", "t"},
   session : {"", "s"}, code : {"", "c"}, resolution : {"", "HD"}, fps : {"", "60"},
   aspect : {"16:9"}, orientation : {"portrait"}, lens : {"", "tele"}, zoom : {"", "0.5"},
   look : {"", "mono"}]
MCRecordings ==
  {[id |-> "r", filename |-> "f", byteCount |-> "7", downloadPath |-> "p"],
   [id |-> "r", filename |-> "", byteCount |-> "7", downloadPath |-> "p", checksumSHA256 |-> "k"],
   [id |-> "", filename |-> "", byteCount |-> "7", downloadPath |-> "p"]}

\* Sixteen samples, in runs of two and, at the end, of one.
MCSounds ==
  {[i \in 1..16 |-> IF i <= 12 THEN p[(i + 1) \div 2] ELSE p[i - 9]] : p \in [1..7 -> 0..1]}

MCOrders ==
  UNION {[1..n -> {"PTR", "SRV", "TXT", "A"}] : n \in 1..2}
  \cup {<<"PTR", "SRV", "TXT", "A">>, <<"A", "TXT", "SRV", "PTR">>, <<"SRV", "A", "PTR", "TXT">>}

MCPaths == {<<"x">>, <<"x", "\\", "space", "x">>}
MCArguments == Strings({"x", "space", "q", "\\"}, 3)

MCBytes == 1..18
MCFiles == {[i \in 1..n |-> i] : n \in 0..18}
MCBuffers == 1..9

Codec == INSTANCE Codecs WITH
  Precision <- 2, KeyBytes <- {0, 77, 255}, Values <- MCValues, Texts <- MCTexts,
  Contents <- {c \in Strings({0, 1, 3, 9}, 3) : c = <<>> \/ c[Len(c)] # 0},
  Sets <- MCSets, Signals <- [1..6 -> 0..2], Sounds <- MCSounds,
  Coarse <- [step |-> 4, longest |-> 8, search |-> 8, overlap |-> 1],
  Fine <- [step |-> 2, longest |-> 8, search |-> 4, overlap |-> 1],
  Sample <- [step |-> 1, longest |-> 6, search |-> 2, overlap |-> 2], Near <- 2, Radius <- 1

MCInit ==
  /\ which \in {"channel", "discovery", "wire", "codecs"}
  /\ Init /\ DiscoveryInit /\ WireInit

MCNext ==
  \/ which = "channel" /\ Next /\ UNCHANGED <<which, dvars, wvars>>
  \/ which = "discovery" /\ DiscoveryNext /\ UNCHANGED <<which, cvars, wvars>>
  \/ which = "wire" /\ WireNext /\ UNCHANGED <<which, cvars, dvars>>
  \/ which = "codecs" /\ Codec!Next /\ UNCHANGED <<which, cvars, dvars>>

MCSpec == MCInit /\ [][MCNext]_<<which, cvars, dvars, wvars>> /\ (which = "channel" => Fairness)

\* What one side of the program makes of the bytes is what the other means by them.
AgreesWithReference == Codec!AgreesWithReference
=============================================================================
