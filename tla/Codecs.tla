------------------------------- MODULE Codecs -------------------------------
(***************************************************************************)
(* The program's pure algorithms: each action is one caller with one input *)
(* and the invariant says that what the code computes of it is what its    *)
(* definition, or its other side, says.                                    *)
(***************************************************************************)
EXTENDS Encodings, JsonText, H264Syntax, Alignment

CONSTANTS
  KeyBytes,    \* the bytes of which a key is made
  Values,      \* JSON values
  Texts,       \* texts
  Contents,    \* what a unit holds
  Sets,        \* parameter sets
  Signals,     \* sound
  Sounds       \* sound, longer

VARIABLES call, input

kvars == <<call, input>>

Init == call = "none" /\ input = <<>>

Calls(name, args) == call' = name /\ input' = args

WebSocketKey == \E n \in 0..6 : \E bytes \in [1..n -> KeyBytes] : Calls("key", <<bytes>>)

EncodeCommand == \E v \in Values : Calls("value", <<v>>)
DecodeEvent == \E t \in Texts : Calls("text", <<t>>)

ReadAccessUnit ==
  \E a, b \in Contents, long \in [1..2 -> BOOLEAN] : Calls("units", <<<<a, b>>, long>>)
ReadSize == \E p \in Sets : Calls("size", <<p>>)

Envelope == \E s \in Signals, radius \in 1..2 : Calls("envelope", <<s, radius>>)
Transients == \E s \in Signals, distance \in 1..2 : Calls("peaks", <<s, distance>>)
FindLag ==
  \E s \in Signals, k \in -2..5, away \in {-2, 0, 2} : Calls("lag", <<s, k, away>>)
AlignItem ==
  \E s \in Sounds, k \in {-2, 0, 3, 4}, away \in {-5, 0, 3} :
    Calls("align", <<s, k, away>>)

Next ==
  /\ call = "none"
  /\ \/ WebSocketKey \/ EncodeCommand \/ DecodeEvent \/ ReadAccessUnit \/ ReadSize
     \/ Envelope \/ Transients \/ FindLag \/ AlignItem

Spec == Init /\ [][Next]_kvars

(***************************************************************************)
(* What one side of the program makes of the bytes is what the other means *)
(* by them: a key and JSON read back, the picture has the size that was    *)
(* encoded, and a clip goes where its sound is.                            *)
(***************************************************************************)
AgreesWithReference ==
  CASE call = "key"      -> Base64Encode(input[1]) = Base64(input[1])
    [] call = "value"    -> ReadsBack(input[1])
    [] call = "text"     -> AcceptsOnlyValues(input[1])
    [] call = "units"    -> SplitsIntoUnits(input[1], input[2])
    [] call = "size"     -> SizeIsRead(input[1])
    [] call = "envelope" -> SmoothsTheWindow(input[1], input[2])
    [] call = "peaks"    -> PeaksAreApart(input[1], input[2], 2)
    [] call = "lag"      ->
         CopyIsFound([i \in DOMAIN input[1] |-> input[1][i] - 1], 4, input[2], input[3], 2, 2)
    [] call = "align"    ->
         StaysInReach(Clip(input[1], input[2], 8), 20 + input[2] + input[3],
           <<[from |-> 20, sound |-> input[1]], [from |-> 22, sound |-> Reverse(input[1])]>>)
    [] OTHER             -> TRUE
=============================================================================
