---------------------------- MODULE HelperProofs ----------------------------
(***************************************************************************)
(* The helper, for every value of its constants.  What the extension       *)
(* learns from a helper is true, for any set of commands that run side by  *)
(* side: proofs about HelperChannel.  And what is given to a helper, and   *)
(* by it to the phone, arrives as it was meant: proofs about Encodings and *)
(* CommandWire, by induction over the recursive functions they are made    *)
(* of.                                                                     *)
(***************************************************************************)
EXTENDS HelperChannel, CommandWire, SequenceTheorems, WellFoundedInduction, TLAPS

(***************************************************************************)
(* Types.                                                                  *)
(***************************************************************************)
LEMMA TypeInit == Init => TypeOK
  BY HelperChannelAssumption DEF Init, TypeOK

\* runProcess, the extension's side of a command.
LEMMA ThreadKeepsType ==
  ASSUME TypeOK, NEW c \in Commands, Thread(c) \/ Fails(c)
  PROVE  TypeOK'
<1>1. CASE Fails(c)         BY <1>1 DEF Fails, Step, TypeOK
<1>2. CASE CreatePipe(c)    BY <1>2 DEF CreatePipe, Step, TypeOK
<1>3. CASE CreateProcess(c) BY <1>3 DEF CreateProcess, Step, TypeOK
<1>4. CASE ClosePipe(c)     BY <1>4 DEF ClosePipe, Step, TypeOK
<1>5. CASE Register(c)      BY <1>5 DEF Register, Step, TypeOK
<1>6. CASE OutputEnds(c)    BY <1>6 DEF OutputEnds, Step, TypeOK
<1>7. CASE WaitForProcess(c) BY <1>7 DEF WaitForProcess, Step, TypeOK
<1>8. CASE Unregister(c)    BY <1>8 DEF Unregister, Step, TypeOK
<1>9. CASE Complete(c)      BY <1>9 DEF Complete, Step, TypeOK
<1> QED BY <1>1, <1>2, <1>3, <1>4, <1>5, <1>6, <1>7, <1>8, <1>9 DEF Thread

\* The helper's and the phone's side.
HelperStep(c) ==
  \/ Terminate(c) \/ Send(c) \/ TimesOut(c) \/ PingBegins(c)
  \/ PingEnds(c) \/ Receive(c) \/ PrintResult(c)
PhoneStep(c) == \E does, answers \in BOOLEAN : PhoneHandles(c, does, answers)

LEMMA ExitKeepsType ==
  ASSUME TypeOK, NEW c \in Commands, NEW status \in 0..1, Exit(c, status),
         UNCHANGED <<launch, pointer, handle, phone, answer, result>>
  PROVE  TypeOK'
<1>1. writers' \in [Commands -> SUBSET (Commands \cup {"reaper"})]
  BY DEF Exit, TypeOK
<1>2. /\ process' \in [Commands -> {"none", "connecting", "sent", "answered", "exited"}]
      /\ code' \in [Commands -> 0..1] /\ pinging' \in [Commands -> BOOLEAN]
  BY DEF Exit, TypeOK
<1> QED BY <1>1, <1>2 DEF TypeOK

LEMMA HelperKeepsType ==
  ASSUME TypeOK, NEW c \in Commands, HelperStep(c)
  PROVE  TypeOK'
<1>1. CASE Terminate(c)   BY <1>1, ExitKeepsType DEF Terminate
<1>2. CASE Send(c)        BY <1>2 DEF Send, TypeOK
<1>3. CASE TimesOut(c)    BY <1>3, ExitKeepsType DEF TimesOut
<1>4. CASE PingBegins(c)  BY <1>4 DEF PingBegins, TypeOK
<1>5. CASE PingEnds(c)    BY <1>5 DEF PingEnds, TypeOK
<1>6. CASE Receive(c)
  <2>1. CASE answer[c] = "error" BY <1>6, <2>1, ExitKeepsType DEF Receive
  <2>2. CASE answer[c] # "error" BY <1>6, <2>2 DEF Receive, TypeOK
  <2> QED BY <2>1, <2>2
<1>7. CASE PrintResult(c) BY <1>7, ExitKeepsType DEF PrintResult
<1> QED BY <1>1, <1>2, <1>3, <1>4, <1>5, <1>6, <1>7 DEF HelperStep

LEMMA PhoneKeepsType ==
  ASSUME TypeOK, NEW c \in Commands, PhoneStep(c)
  PROVE  TypeOK'
  BY DEF PhoneStep, PhoneHandles, TypeOK

LEMMA TypeNext == TypeOK /\ [Next]_cvars => TypeOK'
<1> SUFFICES ASSUME TypeOK, [Next]_cvars PROVE TypeOK'
  OBVIOUS
<1>1. ASSUME NEW c \in Commands, Thread(c) \/ Fails(c) PROVE TypeOK'
  BY <1>1, ThreadKeepsType
<1>2. ASSUME NEW c \in Commands, HelperStep(c) PROVE TypeOK'
  BY <1>2, HelperKeepsType
<1>3. ASSUME NEW c \in Commands, PhoneStep(c) PROVE TypeOK'
  BY <1>3, PhoneKeepsType
<1>4. CASE UNCHANGED cvars
  BY <1>4 DEF cvars, TypeOK
<1> QED BY <1>1, <1>2, <1>3, <1>4 DEF Next, HelperStep, PhoneStep

\* Every variable has its type, whatever the helpers and the phone do.
THEOREM HelperTypes == Spec => []TypeOK
  BY TypeInit, TypeNext, PTL DEF Spec

(***************************************************************************)
(* The handle.  It is open from the creation of the process to the         *)
(* completion, and published only while the thread reads or waits.         *)
(***************************************************************************)
Running == {"created", "closed", "reading", "ended", "waited", "cleared"}

HandleInv == \A c \in Commands :
  /\ pointer[c] => launch[c] \in {"reading", "ended", "waited"}
  /\ launch[c] \in Running => handle[c]

LEMMA HandleInit == Init => HandleInv
  BY DEF Init, HandleInv, Running

LEMMA HandleNext == TypeOK /\ HandleInv /\ [Next]_cvars => HandleInv'
<1> SUFFICES ASSUME TypeOK, HandleInv, [Next]_cvars PROVE HandleInv'
  OBVIOUS
<1> USE DEF HandleInv, Running
<1>1. ASSUME NEW c \in Commands, Thread(c) \/ Fails(c) PROVE HandleInv'
  <2>1. CASE Fails(c)         BY <2>1 DEF Fails, Step, TypeOK
  <2>2. CASE CreatePipe(c)    BY <2>2 DEF CreatePipe, Step, TypeOK
  <2>3. CASE CreateProcess(c) BY <2>3 DEF CreateProcess, Step, TypeOK
  <2>4. CASE ClosePipe(c)     BY <2>4 DEF ClosePipe, Step, TypeOK
  <2>5. CASE Register(c)      BY <2>5 DEF Register, Step, TypeOK
  <2>6. CASE OutputEnds(c)    BY <2>6 DEF OutputEnds, Step, TypeOK
  <2>7. CASE WaitForProcess(c) BY <2>7 DEF WaitForProcess, Step, TypeOK
  <2>8. CASE Unregister(c)    BY <2>8 DEF Unregister, Step, TypeOK
  <2>9. CASE Complete(c)      BY <2>9 DEF Complete, Step, TypeOK
  <2> QED BY <1>1, <2>1, <2>2, <2>3, <2>4, <2>5, <2>6, <2>7, <2>8, <2>9 DEF Thread
<1>2. ASSUME NEW c \in Commands, HelperStep(c) \/ PhoneStep(c) PROVE HandleInv'
  <2>1. UNCHANGED <<launch, pointer, handle>>
    BY <1>2 DEF HelperStep, PhoneStep, Terminate, Send, TimesOut, PingBegins, PingEnds,
                Receive, PrintResult, PhoneHandles
  <2> QED BY <2>1
<1>3. CASE UNCHANGED cvars
  BY <1>3 DEF cvars
<1> QED BY <1>1, <1>2, <1>3 DEF Next, HelperStep, PhoneStep

\* Cancelling a command never terminates through a handle that has been closed.
THEOREM TerminateIsSafe == Spec => []HandleIsLive
<1>1. HandleInv => HandleIsLive
  BY DEF HandleInv, HandleIsLive, Running
<1> QED BY <1>1, HandleInit, HandleNext, HelperTypes, PTL DEF Spec

(***************************************************************************)
(* Success.  The exit code 0 is printed for the expected event only, the   *)
(* event is sent when the phone has done as told, and the thread looks at  *)
(* the code of a process that has exited.                                  *)
(***************************************************************************)
ResultInv == \A c \in Commands :
  /\ launch[c] \in {"idle", "piped"} => process[c] = "none"
  /\ process[c] \in {"none", "connecting"} => phone[c] = "unknown"
  /\ answer[c] = "expected" => phone[c] = "executed"
  /\ process[c] = "answered" => answer[c] = "expected"
  /\ process[c] = "exited" /\ code[c] = 0 => phone[c] = "executed"
  /\ launch[c] \in {"waited", "cleared"} => process[c] = "exited"
  /\ result[c] = "ok" => phone[c] = "executed"

LEMMA ResultInit == Init => ResultInv
  BY DEF Init, ResultInv

LEMMA ExitKeepsResult ==
  ASSUME TypeOK, ResultInv, NEW c \in Commands, NEW status \in 0..1, Exit(c, status),
         launch[c] \notin {"idle", "piped"}, status = 0 => phone[c] = "executed",
         UNCHANGED <<launch, pointer, handle, phone, answer, result>>
  PROVE  ResultInv'
<1> SUFFICES ASSUME NEW d \in Commands
             PROVE  /\ launch[d] \in {"idle", "piped"} => process'[d] = "none"
                    /\ process'[d] \in {"none", "connecting"} => phone[d] = "unknown"
                    /\ answer[d] = "expected" => phone[d] = "executed"
                    /\ process'[d] = "answered" => answer[d] = "expected"
                    /\ process'[d] = "exited" /\ code'[d] = 0 => phone[d] = "executed"
                    /\ launch[d] \in {"waited", "cleared"} => process'[d] = "exited"
                    /\ result[d] = "ok" => phone[d] = "executed"
  BY DEF ResultInv
<1>1. CASE d = c
  <2>1. process'[d] = "exited" /\ code'[d] = status BY <1>1 DEF Exit, TypeOK
  <2> QED BY <1>1, <2>1 DEF ResultInv
<1>2. CASE d # c
  <2>1. process'[d] = process[d] /\ code'[d] = code[d] BY <1>2 DEF Exit, TypeOK
  <2> QED BY <2>1 DEF ResultInv
<1> QED BY <1>1, <1>2

LEMMA ResultNext == TypeOK /\ HandleInv /\ ResultInv /\ [Next]_cvars => ResultInv'
<1> SUFFICES ASSUME TypeOK, HandleInv, ResultInv, [Next]_cvars PROVE ResultInv'
  OBVIOUS
<1> USE DEF ResultInv
<1>1. ASSUME NEW c \in Commands, Thread(c) \/ Fails(c) PROVE ResultInv'
  <2>1. CASE Fails(c)         BY <2>1 DEF Fails, Step, TypeOK
  <2>2. CASE CreatePipe(c)    BY <2>2 DEF CreatePipe, Step, TypeOK
  <2>3. CASE CreateProcess(c) BY <2>3 DEF CreateProcess, Step, TypeOK
  <2>4. CASE ClosePipe(c)     BY <2>4 DEF ClosePipe, Step, TypeOK
  <2>5. CASE Register(c)      BY <2>5 DEF Register, Step, TypeOK
  <2>6. CASE OutputEnds(c)    BY <2>6 DEF OutputEnds, Step, TypeOK
  <2>7. CASE WaitForProcess(c) BY <2>7 DEF WaitForProcess, Step, TypeOK
  <2>8. CASE Unregister(c)    BY <2>8 DEF Unregister, Step, TypeOK
  <2>9. CASE Complete(c)      BY <2>9 DEF Complete, Step, TypeOK
  <2> QED BY <1>1, <2>1, <2>2, <2>3, <2>4, <2>5, <2>6, <2>7, <2>8, <2>9 DEF Thread
<1>2. ASSUME NEW c \in Commands, HelperStep(c) PROVE ResultInv'
  <2>1. CASE Terminate(c)
    <3>1. launch[c] \notin {"idle", "piped"} BY <2>1 DEF Terminate, HandleInv
    <3> QED BY <2>1, <3>1, ExitKeepsResult DEF Terminate
  <2>2. CASE Send(c)        BY <2>2 DEF Send, TypeOK
  <2>3. CASE TimesOut(c)    BY <2>3, ExitKeepsResult DEF TimesOut
  <2>4. CASE PingBegins(c)  BY <2>4 DEF PingBegins, TypeOK
  <2>5. CASE PingEnds(c)    BY <2>5 DEF PingEnds, TypeOK
  <2>6. CASE Receive(c)
    <3>1. CASE answer[c] = "error" BY <2>6, <3>1, ExitKeepsResult DEF Receive
    <3>2. CASE answer[c] = "expected" BY <2>6, <3>2 DEF Receive, TypeOK
    <3> QED BY <2>6, <3>1, <3>2 DEF Receive, TypeOK
  <2>7. CASE PrintResult(c) BY <2>7, ExitKeepsResult DEF PrintResult
  <2> QED BY <1>2, <2>1, <2>2, <2>3, <2>4, <2>5, <2>6, <2>7 DEF HelperStep
<1>3. ASSUME NEW c \in Commands, PhoneStep(c) PROVE ResultInv'
  BY <1>3 DEF PhoneStep, PhoneHandles, TypeOK
<1>4. CASE UNCHANGED cvars
  BY <1>4 DEF cvars
<1> QED BY <1>1, <1>2, <1>3, <1>4 DEF Next, HelperStep, PhoneStep

\* A command that is reported as done has been done on the phone, whatever was
\* lost, refused, timed out or terminated on the way.
THEOREM SuccessCanBeTrusted == Spec => []SuccessIsReal
<1>1. ResultInv => SuccessIsReal
  BY DEF ResultInv, SuccessIsReal
<1> QED BY <1>1, ResultInit, ResultNext, HandleInit, HandleNext, HelperTypes, PTL DEF Spec

(***************************************************************************)
(* The command line.                                                       *)
(***************************************************************************)
\* Induction over the numbers, for sets.
LEMMA NatSet ==
  ASSUME NEW S, S \subseteq Nat, 0 \in S, \A n \in S : n + 1 \in S
  PROVE  S = Nat
<1> SUFFICES ASSUME Nat \ S # {} PROVE FALSE OBVIOUS
<1>1. PICK n \in Nat \ S : \A m \in Nat \ S : ~(<<m, n>> \in OpToRel(<, Nat))
  BY NatLessThanWellFounded, WFMin
<1>2. n # 0 /\ n - 1 \in Nat OBVIOUS
<1>3. n - 1 < n BY <1>2
<1>4. <<n - 1, n>> \in OpToRel(<, Nat) BY <1>2, <1>3 DEF OpToRel
<1>5. n - 1 \in S BY <1>1, <1>2, <1>4
<1>6. (n - 1) + 1 \in S BY <1>5
<1>7. (n - 1) + 1 = n OBVIOUS
<1> QED BY <1>6, <1>7

LEMMA UpTo ==
  ASSUME NEW k \in Nat, NEW S, 0 \in S, \A n \in 0..k : n \in S /\ n < k => n + 1 \in S
  PROVE  0..k \subseteq S
<1> DEFINE T == {n \in Nat : n <= k => n \in S}
<1>1. 0 \in T OBVIOUS
<1>2. \A n \in T : n + 1 \in T OBVIOUS
<1>3. T = Nat BY <1>1, <1>2, NatSet
<1> QED BY <1>3

(***************************************************************************)
(* The recursive functions are what their definitions say.                 *)
(***************************************************************************)
Splits(from, chars) == 
  CHOOSE s : s = [n \in 0..Len(chars) |-> IF n = 0 THEN from ELSE SplitStep(s[n - 1], chars[n])]
SplitBody(from, chars, f, n) == IF n = 0 THEN from ELSE SplitStep(f[n - 1], chars[n])

LEMMA SplitsDef ==
  ASSUME NEW from, NEW chars, Len(chars) \in Nat
  PROVE  /\ Splits(from, chars) = [n \in 0..Len(chars) |-> SplitBody(from, chars, Splits(from, chars), n)]
         /\ Split(from, chars) = Splits(from, chars)[Len(chars)]
<1> DEFINE Is(f, k) == f = [n \in 0..k |-> SplitBody(from, chars, f, n)]
           S == {k \in Nat : \E f : Is(f, k)}
<1>1. 0 \in S
  <2>1. Is([n \in 0..0 |-> SplitBody(from, chars, <<>>, 0)], 0) BY DEF SplitBody
  <2> QED BY <2>1
<1>2. ASSUME NEW k \in S PROVE k + 1 \in S
  <2>1. PICK f : Is(f, k) BY <1>2
  <2> DEFINE g == [n \in 0..(k + 1) |-> IF n = k + 1 THEN SplitBody(from, chars, f, k + 1) ELSE f[n]]
  <2>2. k \in Nat BY <1>2
  <2>3. \A n \in 0..k : g[n] = f[n] BY <2>2
  <2>4. \A n \in 0..(k + 1) : SplitBody(from, chars, g, n) = SplitBody(from, chars, f, n) BY <2>2, <2>3 DEF SplitBody
  <2>5. \A n \in 0..k : f[n] = SplitBody(from, chars, f, n) BY <2>1
  <2>6. \A n \in 0..(k + 1) : g[n] = SplitBody(from, chars, g, n)
    <3> HIDE DEF Is
    <3> QED BY <2>2, <2>4, <2>5
  <2>7. g = [n \in 0..(k + 1) |-> g[n]] OBVIOUS
  <2>8. Is(g, k + 1)
    <3> HIDE DEF g
    <3> QED BY <2>6, <2>7
  <2>9. \E h : Is(h, k + 1) BY <2>8
  <2> HIDE DEF Is
  <2> QED BY <2>2, <2>9
<1>3. S = Nat
  <2> HIDE DEF Is
  <2> QED BY <1>1, <1>2, NatSet
<1>4. \E f : Is(f, Len(chars)) BY <1>3
<1>5. Splits(from, chars) = CHOOSE f : Is(f, Len(chars)) BY DEF Splits, SplitBody
<1>6. Is(Splits(from, chars), Len(chars))
  <2> HIDE DEF Is
  <2> QED BY <1>4, <1>5
<1>7. Split(from, chars) = Splits(from, chars)[Len(chars)] BY DEF Splits, Split
<1> QED BY <1>6, <1>7

Text == Seq(Characters)
LEMMA SplitNothing ==
  ASSUME NEW from PROVE Split(from, <<>>) = from
<1>1. Len(<<>>) = 0 OBVIOUS
<1> QED BY <1>1, SplitsDef DEF SplitBody

LEMMA SplitOneMore ==
  ASSUME NEW from, NEW chars \in Text, NEW c \in Characters
  PROVE  Split(from, Append(chars, c)) = SplitStep(Split(from, chars), c)
<1>p. PICK more : more = Append(chars, c) OBVIOUS
<1>1. /\ Len(more) = Len(chars) + 1 /\ Len(chars) \in Nat /\ Len(more) \in Nat
      /\ more[Len(chars) + 1] = c /\ \A n \in 1..Len(chars) : more[n] = chars[n]
  BY <1>p DEF Text
<1>a. PICK a : a = Splits(from, chars) OBVIOUS
<1>b. PICK b : b = Splits(from, more) OBVIOUS
<1>2. /\ a = [n \in 0..Len(chars) |-> SplitBody(from, chars, a, n)]
      /\ Split(from, chars) = a[Len(chars)]
  BY <1>1, <1>a, SplitsDef
<1>3. /\ b = [n \in 0..Len(more) |-> SplitBody(from, more, b, n)]
      /\ Split(from, more) = b[Len(more)]
  BY <1>1, <1>b, SplitsDef
<1> DEFINE S == {n \in 0..Len(chars) : a[n] = b[n]}
<1>4. 0 \in S BY <1>1, <1>2, <1>3 DEF SplitBody
<1>5. ASSUME NEW n \in 0..Len(chars), n \in S, n < Len(chars) PROVE n + 1 \in S
  <2>1. n + 1 \in 0..Len(chars) /\ n + 1 \in 0..Len(more) /\ n + 1 # 0 /\ (n + 1) - 1 = n BY <1>1, <1>5
  <2>2. a[n + 1] = SplitStep(a[n], chars[n + 1]) BY <1>2, <2>1 DEF SplitBody
  <2>3. b[n + 1] = SplitStep(b[n], more[n + 1]) BY <1>3, <2>1 DEF SplitBody
  <2>4. more[n + 1] = chars[n + 1] /\ a[n] = b[n] BY <1>1, <1>5
  <2> QED BY <2>1, <2>2, <2>3, <2>4
<1>6. 0..Len(chars) \subseteq S
  <2> HIDE DEF S
  <2> QED BY <1>1, <1>4, <1>5, UpTo
<1>7. a[Len(chars)] = b[Len(chars)] BY <1>1, <1>6
<1>8. Len(more) \in 0..Len(more) /\ Len(more) # 0 /\ Len(more) - 1 = Len(chars) BY <1>1
<1>9. b[Len(more)] = SplitStep(b[Len(chars)], c) BY <1>1, <1>3, <1>8 DEF SplitBody
<1> QED BY <1>2, <1>3, <1>7, <1>9, <1>p

\* A text is split piece by piece.
LEMMA SplitInPieces ==
  ASSUME NEW from, NEW a \in Text, NEW b \in Text
  PROVE  Split(from, a \o b) = Split(Split(from, a), b)
<1> DEFINE S == {n \in Nat : \A t \in Text : Len(t) = n => Split(from, a \o t) = Split(Split(from, a), t)}
<1>1. 0 \in S
  <2> SUFFICES ASSUME NEW t \in Text, Len(t) = 0 PROVE Split(from, a \o t) = Split(Split(from, a), t) OBVIOUS
  <2>1. t = <<>> BY EmptySeq DEF Text
  <2>2. a \o t = a BY <2>1, ConcatEmptySeq DEF Text
  <2> QED BY <2>1, <2>2, SplitNothing
<1>2. ASSUME NEW n \in S PROVE n + 1 \in S
  <2>0. n \in Nat BY <1>2
  <2> SUFFICES ASSUME NEW t \in Text, Len(t) = n + 1 PROVE Split(from, a \o t) = Split(Split(from, a), t)
    BY <2>0
  <2>1. t # <<>> BY <2>0, EmptySeq
  <2>2. PICK u \in Text, c \in Characters : t = Append(u, c) BY <2>1, SequenceEmptyOrAppend DEF Text
  <2>3. Len(t) = Len(u) + 1 /\ Len(u) \in Nat BY <2>2 DEF Text
  <2>4. Split(from, a \o u) = Split(Split(from, a), u) BY <1>2, <2>0, <2>3
  <2>5. a \o t = Append(a \o u, c) /\ a \o u \in Text BY <2>2 DEF Text
  <2>6. Split(from, a \o t) = SplitStep(Split(from, a \o u), c) BY <2>5, SplitOneMore
  <2>7. Split(Split(from, a), t) = SplitStep(Split(Split(from, a), u), c) BY <2>2, SplitOneMore
  <2> QED BY <2>4, <2>6, <2>7
<1>3. S = Nat
  <2> HIDE DEF S
  <2>1. S \subseteq Nat BY DEF S
  <2> QED BY <1>1, <1>2, <2>1, NatSet
<1>4. Len(b) \in Nat BY LenProperties DEF Text
<1> QED BY <1>3, <1>4

(***************************************************************************)
(* The reader, character by character.                                     *)
(***************************************************************************)
LEMMA BackslashesAre ==
  ASSUME NEW n \in Nat
  PROVE  /\ Backslashes(n) \in Text /\ Len(Backslashes(n)) = n
         /\ Backslashes(n + 1) = Append(Backslashes(n), "\\")
         /\ Backslashes(0) = <<>>
<1>1. "\\" \in Characters BY DEF Characters
<1>2. Backslashes(n) \in Text /\ Len(Backslashes(n)) = n BY <1>1 DEF Backslashes, Text
<1>3. Backslashes(n + 1) = Append(Backslashes(n), "\\") BY <1>1 DEF Backslashes
<1>4. Backslashes(0) = <<>> BY DEF Backslashes
<1> QED BY <1>2, <1>3, <1>4

LEMMA FieldsOfReading ==
  ASSUME NEW w, NEW word, NEW some \in 0..1, NEW quoted, NEW k, NEW s, s = Reading(w, word, some, quoted, k)
  PROVE  s.words = w /\ s.word = word /\ s.some = some /\ s.quoted = quoted /\ s.slashes = k
BY DEF Reading

LEMMA BackslashIsCounted ==
  ASSUME NEW w, NEW word, NEW some \in 0..1, NEW quoted \in 0..1, NEW k \in Nat
  PROVE  SplitStep(Reading(w, word, some, quoted, k), "\\") = Reading(w, word, some, quoted, k + 1)
<1>s. PICK s : s = Reading(w, word, some, quoted, k) OBVIOUS
<1>1. s.words = w /\ s.word = word /\ s.some = some /\ s.quoted = quoted /\ s.slashes = k
  BY <1>s, FieldsOfReading
<1> QED BY <1>1, <1>s DEF SplitStep

LEMMA QuoteIsDelimiter ==
  ASSUME NEW w, NEW word, NEW some \in 0..1, NEW quoted \in 0..1, NEW k \in Nat, NEW m, m = 2 * k
  PROVE  SplitStep(Reading(w, word, some, quoted, m), "q")
         = Reading(w, word \o Backslashes(k), 1, 1 - quoted, 0)
<1>0. m \div 2 = k /\ m % 2 = 0 OBVIOUS
<1>s. PICK s : s = Reading(w, word, some, quoted, m) OBVIOUS
<1>1. s.words = w /\ s.word = word /\ s.some = some /\ s.quoted = quoted /\ s.slashes = m
  BY <1>s, FieldsOfReading
<1> QED BY <1>0, <1>1, <1>s DEF SplitStep

LEMMA QuoteIsKept ==
  ASSUME NEW w, NEW word, NEW some \in 0..1, NEW quoted \in 0..1, NEW k \in Nat, NEW m, m = 2 * k + 1
  PROVE  SplitStep(Reading(w, word, some, quoted, m), "q")
         = Reading(w, Append(word \o Backslashes(k), "q"), 1, quoted, 0)
<1>0. m \div 2 = k /\ m % 2 = 1 OBVIOUS
<1>s. PICK s : s = Reading(w, word, some, quoted, m) OBVIOUS
<1>1. s.words = w /\ s.word = word /\ s.some = some /\ s.quoted = quoted /\ s.slashes = m
  BY <1>s, FieldsOfReading
<1> QED BY <1>0, <1>1, <1>s DEF SplitStep

LEMMA CharacterIsKept ==
  ASSUME NEW w, NEW word, NEW some \in 0..1, NEW quoted \in 0..1, NEW k \in Nat,
         NEW c \in Characters, c # "\\", c # "q", c = "space" => quoted = 1
  PROVE  SplitStep(Reading(w, word, some, quoted, k), c)
         = Reading(w, Append(word \o Backslashes(k), c), 1, quoted, 0)
<1>s. PICK s : s = Reading(w, word, some, quoted, k) OBVIOUS
<1>1. s.words = w /\ s.word = word /\ s.some = some /\ s.quoted = quoted /\ s.slashes = k
  BY <1>s DEF Reading
<1>2. c # "\\" /\ c # "q" /\ ~(c = "space" /\ s.quoted = 0) BY <1>1
<1>3. SplitStep(s, c) = Reading(s.words, Append(s.word \o Backslashes(s.slashes), c), 1, s.quoted, 0)
  BY <1>2 DEF SplitStep
<1> QED BY <1>1, <1>3, <1>s

LEMMA SpaceEndsWord ==
  ASSUME NEW w, NEW word, NEW some \in 0..1, NEW k \in Nat,
         some = 1 \/ word \o Backslashes(k) # <<>>
  PROVE  SplitStep(Reading(w, word, some, 0, k), "space")
         = Reading(Append(w, word \o Backslashes(k)), <<>>, 0, 0, 0)
<1>s. PICK s : s = Reading(w, word, some, 0, k) OBVIOUS
<1>1. s.words = w /\ s.word = word /\ s.some = some /\ s.quoted = 0 /\ s.slashes = k
  BY <1>s, FieldsOfReading
<1>2. s.some = 1 \/ s.word \o Backslashes(s.slashes) # <<>> BY <1>1
<1> QED BY <1>1, <1>2, <1>s DEF SplitStep

LEMMA BackslashesAreCounted ==
  ASSUME NEW w, NEW word, NEW some \in 0..1, NEW quoted \in 0..1, NEW n \in Nat
  PROVE  Split(Reading(w, word, some, quoted, 0), Backslashes(n)) = Reading(w, word, some, quoted, n)
<1> DEFINE S == {k \in Nat : Split(Reading(w, word, some, quoted, 0), Backslashes(k)) = Reading(w, word, some, quoted, k)}
<1>1. 0 \in S BY BackslashesAre, SplitNothing
<1>2. ASSUME NEW k \in S PROVE k + 1 \in S
  <2>1. k \in Nat /\ Backslashes(k + 1) = Append(Backslashes(k), "\\") /\ Backslashes(k) \in Text
    BY <1>2, BackslashesAre
  <2>2. "\\" \in Characters BY DEF Characters
  <2>3. Split(Reading(w, word, some, quoted, 0), Backslashes(k + 1))
        = SplitStep(Split(Reading(w, word, some, quoted, 0), Backslashes(k)), "\\")
    BY <2>1, <2>2, SplitOneMore
  <2>4. Split(Reading(w, word, some, quoted, 0), Backslashes(k)) = Reading(w, word, some, quoted, k) BY <1>2
  <2>5. SplitStep(Reading(w, word, some, quoted, k), "\\") = Reading(w, word, some, quoted, k + 1)
    BY <2>1, BackslashIsCounted
  <2> QED BY <2>1, <2>3, <2>4, <2>5
<1>3. S = Nat
  <2> HIDE DEF S
  <2>1. S \subseteq Nat BY DEF S
  <2> QED BY <1>1, <1>2, <2>1, NatSet
<1> QED BY <1>3

(***************************************************************************)
(* The writer.                                                             *)
(***************************************************************************)
QuotedBody(argument, f, n) ==
  IF n = 0 THEN [out |-> <<"q">>, slashes |-> 0] ELSE QuoteStep(f[n - 1], argument[n])

LEMMA QuotedDef ==
  ASSUME NEW argument, Len(argument) \in Nat
  PROVE  Quoted(argument) = [n \in 0..Len(argument) |-> QuotedBody(argument, Quoted(argument), n)]
<1> DEFINE Is(f, k) == f = [n \in 0..k |-> QuotedBody(argument, f, n)]
           S == {k \in Nat : \E f : Is(f, k)}
<1>1. 0 \in S
  <2>1. Is([n \in 0..0 |-> QuotedBody(argument, <<>>, 0)], 0) BY DEF QuotedBody
  <2> QED BY <2>1
<1>2. ASSUME NEW k \in S PROVE k + 1 \in S
  <2>1. PICK f : Is(f, k) BY <1>2
  <2> DEFINE g == [n \in 0..(k + 1) |-> IF n = k + 1 THEN QuotedBody(argument, f, k + 1) ELSE f[n]]
  <2>2. k \in Nat BY <1>2
  <2>3. \A n \in 0..k : g[n] = f[n] BY <2>2
  <2>4. \A n \in 0..(k + 1) : QuotedBody(argument, g, n) = QuotedBody(argument, f, n) BY <2>2, <2>3 DEF QuotedBody
  <2>5. \A n \in 0..k : f[n] = QuotedBody(argument, f, n) BY <2>1
  <2>6. \A n \in 0..(k + 1) : g[n] = QuotedBody(argument, g, n)
    <3> HIDE DEF Is
    <3> QED BY <2>2, <2>4, <2>5
  <2>7. g = [n \in 0..(k + 1) |-> g[n]] OBVIOUS
  <2>8. Is(g, k + 1)
    <3> HIDE DEF g
    <3> QED BY <2>6, <2>7
  <2>9. \E h : Is(h, k + 1) BY <2>8
  <2> HIDE DEF Is
  <2> QED BY <2>2, <2>9
<1>3. S = Nat
  <2> HIDE DEF Is
  <2> QED BY <1>1, <1>2, NatSet
<1>4. \E f : Is(f, Len(argument)) BY <1>3
<1>5. Quoted(argument) = CHOOSE f : Is(f, Len(argument)) BY DEF Quoted, QuotedBody
<1>6. Is(Quoted(argument), Len(argument))
  <2> HIDE DEF Is
  <2> QED BY <1>4, <1>5
<1> QED BY <1>6

LinesBody(path, arguments, f, n) ==
  IF n = 0 THEN QuoteArgument(path) ELSE f[n - 1] \o <<"space">> \o QuoteArgument(arguments[n])

LEMMA LinesDef ==
  ASSUME NEW path, NEW arguments, Len(arguments) \in Nat
  PROVE  CommandLines(path, arguments)
         = [n \in 0..Len(arguments) |-> LinesBody(path, arguments, CommandLines(path, arguments), n)]
<1> DEFINE Is(f, k) == f = [n \in 0..k |-> LinesBody(path, arguments, f, n)]
           S == {k \in Nat : \E f : Is(f, k)}
<1>1. 0 \in S
  <2>1. Is([n \in 0..0 |-> LinesBody(path, arguments, <<>>, 0)], 0) BY DEF LinesBody
  <2> QED BY <2>1
<1>2. ASSUME NEW k \in S PROVE k + 1 \in S
  <2>1. PICK f : Is(f, k) BY <1>2
  <2> DEFINE g == [n \in 0..(k + 1) |-> IF n = k + 1 THEN LinesBody(path, arguments, f, k + 1) ELSE f[n]]
  <2>2. k \in Nat BY <1>2
  <2>3. \A n \in 0..k : g[n] = f[n] BY <2>2
  <2>4. \A n \in 0..(k + 1) : LinesBody(path, arguments, g, n) = LinesBody(path, arguments, f, n)
    <3> SUFFICES ASSUME NEW n \in 0..(k + 1), n # 0 PROVE LinesBody(path, arguments, g, n) = LinesBody(path, arguments, f, n)
      BY DEF LinesBody
    <3>1. n - 1 \in 0..k BY <2>2
    <3>2. g[n - 1] = f[n - 1] BY <2>3, <3>1
    <3> HIDE DEF g
    <3> QED BY <3>2 DEF LinesBody
  <2>5. \A n \in 0..k : f[n] = LinesBody(path, arguments, f, n) BY <2>1
  <2>6. \A n \in 0..(k + 1) : g[n] = LinesBody(path, arguments, g, n)
    <3> HIDE DEF Is
    <3> QED BY <2>2, <2>4, <2>5
  <2>7. g = [n \in 0..(k + 1) |-> g[n]] OBVIOUS
  <2>8. Is(g, k + 1)
    <3> HIDE DEF g
    <3> QED BY <2>6, <2>7
  <2>9. \E h : Is(h, k + 1) BY <2>8
  <2> HIDE DEF Is
  <2> QED BY <2>2, <2>9
<1>3. S = Nat
  <2> HIDE DEF Is
  <2> QED BY <1>1, <1>2, NatSet
<1>4. \E f : Is(f, Len(arguments)) BY <1>3
<1>5. CommandLines(path, arguments) = CHOOSE f : Is(f, Len(arguments)) BY DEF CommandLines, LinesBody
<1>6. Is(CommandLines(path, arguments), Len(arguments))
  <2> HIDE DEF Is
  <2> QED BY <1>4, <1>5
<1> QED BY <1>6

LEMMA SplitOne ==
  ASSUME NEW from, NEW c \in Characters PROVE Split(from, <<c>>) = SplitStep(from, c)
<1>1. <<>> \in Text /\ Append(<<>>, c) = <<c>> BY DEF Text
<1> QED BY <1>1, SplitNothing, SplitOneMore

\* What is written for a character: what was written, some backslashes, the character.
Escaped(out, m, c) == out \o Backslashes(m) \o <<c>>

LEMMA SplitEscaped ==
  ASSUME NEW w, NEW word, NEW from, NEW out \in Text, NEW m \in Nat, NEW c \in Characters,
         NEW some \in 0..1, NEW quoted \in 0..1,
         Split(from, out) = Reading(w, word, some, quoted, 0),
         NEW x, x = Escaped(out, m, c)
  PROVE  /\ x \in Text
         /\ Split(from, x) = SplitStep(Reading(w, word, some, quoted, m), c)
<1>b. PICK b : b = Backslashes(m) OBVIOUS
<1>1. b \in Text BY <1>b, BackslashesAre
<1>a. PICK a : a = out \o b OBVIOUS
<1>2. a \in Text /\ <<c>> \in Text BY <1>1, <1>a DEF Text
<1>3. a \o <<c>> \in Text BY <1>2 DEF Text
<1>4. Split(from, a) = Split(Split(from, out), b) BY <1>1, <1>a, SplitInPieces
<1>5. Split(from, a) = Reading(w, word, some, quoted, m) BY <1>4, <1>b, BackslashesAreCounted
<1>6. Split(from, a \o <<c>>) = Split(Split(from, a), <<c>>) BY <1>2, SplitInPieces
<1>7. Split(from, a \o <<c>>) = SplitStep(Reading(w, word, some, quoted, m), c) BY <1>5, <1>6, SplitOne
<1> QED BY <1>3, <1>7, <1>a, <1>b DEF Escaped

\* s is what has been written of a beginning of the argument: it reads as a word and some
\* backslashes that have not been written yet.
Fresh(w) == Reading(w, <<>>, 0, 0, 0)
Writes(s, beginning) ==
  /\ s = [out |-> s.out, slashes |-> s.slashes] /\ s.slashes \in Nat /\ s.out \in Text
  /\ \E word \in Text : /\ beginning = word \o Backslashes(s.slashes)
                        /\ \A w : Split(Fresh(w), s.out) = Reading(w, word, 1, 1, 0)

LEMMA NothingIsWritten == Writes([out |-> <<"q">>, slashes |-> 0], <<>>)
<1>s. PICK s : s = [out |-> <<"q">>, slashes |-> 0] OBVIOUS
<1>1. s.slashes = 0 /\ s.out = <<"q">> /\ s = [out |-> s.out, slashes |-> s.slashes] BY <1>s
<1>2. "q" \in Characters BY DEF Characters
<1>3. <<"q">> \in Text /\ <<>> \in Text BY <1>2 DEF Text
<1>4. Backslashes(0) = <<>> /\ <<>> \o Backslashes(0) = <<>>
  <2>1. Backslashes(0) = <<>> BY BackslashesAre
  <2> QED BY <2>1, <1>3, ConcatEmptySeq DEF Text
<1>5. ASSUME NEW w PROVE Split(Fresh(w), <<"q">>) = Reading(w, <<>>, 1, 1, 0)
  <2>1. Split(Fresh(w), <<"q">>) = SplitStep(Reading(w, <<>>, 0, 0, 0), "q") BY <1>2, SplitOne DEF Fresh
  <2>e. PICK e : e = <<>> OBVIOUS
  <2>z. PICK z \in Nat : z = 0 /\ z \in 0..1 OBVIOUS
  <2>s. PICK some \in 0..1 : some = 0 OBVIOUS
  <2>m. PICK m : m = 2 * z OBVIOUS
  <2>0. SplitStep(Reading(w, e, some, some, m), "q") = Reading(w, e \o Backslashes(z), 1, 1 - some, 0)
    BY <2>m, QuoteIsDelimiter
  <2>2. SplitStep(Reading(w, e, z, z, z), "q") = Reading(w, e \o Backslashes(z), 1, 1 - z, 0)
    BY <2>0, <2>m, <2>s, <2>z
  <2>3. 1 - z = 1 /\ e \o Backslashes(z) = e BY <1>4, <2>e, <2>z
  <2>4. SplitStep(Reading(w, e, 0, 0, 0), "q") = Reading(w, e, 1, 1, 0) BY <2>2, <2>3, <2>z
  <2> QED BY <2>1, <2>4, <2>e
<1>6. Writes(s, <<>>) BY <1>1, <1>3, <1>4, <1>5 DEF Writes
<1> QED BY <1>s, <1>6

LEMMA TextsAreJoined ==
  ASSUME NEW a \in Text, NEW b \in Text, NEW c \in Characters
  PROVE  /\ a \o b \in Text /\ Append(b, c) \in Text
         /\ a \o Append(b, c) = Append(a \o b, c)
BY DEF Text

LEMMA OneMoreIsWritten ==
  ASSUME NEW s, NEW beginning \in Text, Writes(s, beginning), NEW c \in Characters
  PROVE  Writes(QuoteStep(s, c), Append(beginning, c))
<1>k. PICK k \in Nat : k = s.slashes BY DEF Writes
<1>o. PICK out \in Text : out = s.out BY DEF Writes
<1>1. PICK word \in Text : /\ beginning = word \o Backslashes(k)
                          /\ \A w : Split(Fresh(w), out) = Reading(w, word, 1, 1, 0)
  BY <1>k, <1>o DEF Writes
<1>b. PICK b \in Text : b = Backslashes(k) BY BackslashesAre
<1>t. PICK t : t = QuoteStep(s, c) OBVIOUS
<1>0. s = [out |-> out, slashes |-> k] BY <1>k, <1>o DEF Writes
<1>w. PICK more \in Text : more = Append(word \o b, c)
  <2>1. word \o b \in Text BY TextsAreJoined
  <2> QED BY <2>1, TextsAreJoined
<1>5. more = Append(beginning, c) BY <1>1, <1>b, <1>w
<1>2. CASE c = "\\"
  <2>1. t = [out |-> out, slashes |-> k + 1] BY <1>t, <1>0, <1>2 DEF QuoteStep
  <2>2. more = word \o Backslashes(k + 1)
    <3>1. Backslashes(k + 1) = Append(b, c) BY <1>2, <1>b, BackslashesAre
    <3>2. word \o Append(b, c) = Append(word \o b, c) BY TextsAreJoined
    <3> QED BY <1>w, <3>1, <3>2
  <2>3. t.out = out /\ t.slashes = k + 1 /\ t = [out |-> t.out, slashes |-> t.slashes] BY <2>1
  <2>4. \A w : Split(Fresh(w), t.out) = Reading(w, word, 1, 1, 0) BY <1>1, <2>3
  <2>5. more = word \o Backslashes(t.slashes) /\ t.slashes \in Nat /\ t.out \in Text BY <2>2, <2>3
  <2>6. Writes(t, more) BY <2>3, <2>4, <2>5 DEF Writes
  <2> QED BY <1>5, <1>t, <2>6
\* The word has all of the beginning when its last character is not a backslash.
<1>e. more = more \o Backslashes(0)
  <2>1. Backslashes(0) = <<>> BY BackslashesAre
  <2> QED BY <2>1, ConcatEmptySeq DEF Text
<1>6. ASSUME NEW m \in Nat, t = [out |-> Escaped(out, m, c), slashes |-> 0],
             \A w : SplitStep(Reading(w, word, 1, 1, m), c) = Reading(w, more, 1, 1, 0)
      PROVE  Writes(t, more)
  <2>x. PICK x : x = Escaped(out, m, c) OBVIOUS
  <2>1. t.out = x /\ t.slashes = 0 /\ t = [out |-> t.out, slashes |-> t.slashes] BY <1>6, <2>x
  <2>2. ASSUME NEW w PROVE x \in Text /\ Split(Fresh(w), x) = Reading(w, more, 1, 1, 0)
    <3>1. Split(Fresh(w), out) = Reading(w, word, 1, 1, 0) BY <1>1
    <3>o. PICK one \in 0..1 : one = 1 OBVIOUS
    <3>2. Split(Fresh(w), out) = Reading(w, word, one, one, 0) BY <3>1, <3>o
    <3>f. PICK from : from = Fresh(w) OBVIOUS
    <3>4. Split(from, out) = Reading(w, word, one, one, 0) BY <3>2, <3>f
    <3>5. x \in Text /\ Split(from, x) = SplitStep(Reading(w, word, one, one, m), c)
      BY <3>4, <2>x, SplitEscaped
    <3>3. x \in Text /\ Split(Fresh(w), x) = SplitStep(Reading(w, word, one, one, m), c)
      BY <3>5, <3>f
    <3> QED BY <1>6, <3>3, <3>o
  <2>3. x \in Text
    <3>1. PICK w : w = <<>> OBVIOUS
    <3> QED BY <2>2
  <2>4. \A w : Split(Fresh(w), t.out) = Reading(w, more, 1, 1, 0) BY <2>1, <2>2
  <2>5. more = more \o Backslashes(t.slashes) /\ t.slashes \in Nat /\ t.out \in Text BY <1>e, <2>1, <2>3
  <2> QED BY <2>1, <2>4, <2>5 DEF Writes
<1>o1. PICK one \in 0..1 : one = 1 OBVIOUS
<1>3. CASE c = "q"
  <2>1. t = [out |-> Escaped(out, k * 2 + 1, c), slashes |-> 0] BY <1>t, <1>0, <1>3 DEF QuoteStep, Escaped
  <2>2. ASSUME NEW w PROVE SplitStep(Reading(w, word, 1, 1, k * 2 + 1), c) = Reading(w, more, 1, 1, 0)
    <3>m. PICK m : m = k * 2 + 1 OBVIOUS
    <3>0. m = 2 * k + 1 BY <3>m
    <3>1. SplitStep(Reading(w, word, one, one, m), "q") = Reading(w, Append(word \o Backslashes(k), "q"), 1, one, 0)
      BY <3>0, QuoteIsKept
    <3> QED BY <1>3, <1>b, <1>o1, <1>w, <3>1, <3>m
  <2>3. k * 2 + 1 \in Nat OBVIOUS
  <2>4. Writes(t, more) BY <2>1, <2>2, <2>3, <1>6
  <2> QED BY <2>4, <1>5, <1>t
<1>4. CASE c # "\\" /\ c # "q"
  <2>1. t = [out |-> Escaped(out, k, c), slashes |-> 0] BY <1>t, <1>0, <1>4 DEF QuoteStep, Escaped
  <2>2. ASSUME NEW w PROVE SplitStep(Reading(w, word, 1, 1, k), c) = Reading(w, more, 1, 1, 0)
    <3>1. SplitStep(Reading(w, word, one, one, k), c) = Reading(w, Append(word \o Backslashes(k), c), 1, one, 0)
      BY <1>4, <1>o1, CharacterIsKept
    <3> QED BY <1>b, <1>o1, <1>w, <3>1
  <2>4. Writes(t, more) BY <2>1, <2>2, <1>6
  <2> QED BY <2>4, <1>5, <1>t
<1> QED BY <1>2, <1>3, <1>4

LEMMA Beginnings ==
  ASSUME NEW a \in Text
  PROVE  /\ Len(a) \in Nat /\ SubSeq(a, 1, 0) = <<>> /\ SubSeq(a, 1, Len(a)) = a
         /\ \A n \in 0..(Len(a) - 1) :
              /\ SubSeq(a, 1, n) \in Text /\ a[n + 1] \in Characters
              /\ SubSeq(a, 1, n + 1) = Append(SubSeq(a, 1, n), a[n + 1])
<1>1. Len(a) \in Nat /\ SubSeq(a, 1, Len(a)) = a /\ SubSeq(a, 1, 0) = <<>>
  BY SubSeqFull, SubSeqEmpty DEF Text
<1>2. ASSUME NEW n \in 0..(Len(a) - 1)
      PROVE  /\ SubSeq(a, 1, n) \in Text /\ a[n + 1] \in Characters
             /\ SubSeq(a, 1, n + 1) = Append(SubSeq(a, 1, n), a[n + 1])
  BY <1>1 DEF Text
<1> QED BY <1>1, <1>2

LEMMA BeginningsAreWritten ==
  ASSUME NEW a \in Text
  PROVE  Writes(Quoted(a)[Len(a)], a)
<1>q. PICK q : q = Quoted(a) OBVIOUS
<1>0. Len(a) \in Nat BY Beginnings
<1>1. q = [n \in 0..Len(a) |-> QuotedBody(a, q, n)] BY <1>0, <1>q, QuotedDef
<1> DEFINE S == {n \in 0..Len(a) : Writes(q[n], SubSeq(a, 1, n))}
<1>2. 0 \in S
  <2>1. q[0] = [out |-> <<"q">>, slashes |-> 0] BY <1>0, <1>1 DEF QuotedBody
  <2>2. Writes(q[0], SubSeq(a, 1, 0)) BY <2>1, Beginnings, NothingIsWritten
  <2> QED BY <1>0, <2>2
<1>3. ASSUME NEW n \in 0..Len(a), n \in S, n < Len(a) PROVE n + 1 \in S
  <2>1. n \in 0..(Len(a) - 1) /\ n + 1 \in 0..Len(a) /\ n + 1 # 0 /\ (n + 1) - 1 = n BY <1>0, <1>3
  <2>b. PICK b : b = SubSeq(a, 1, n) OBVIOUS
  <2>c. PICK c : c = a[n + 1] OBVIOUS
  <2>2. b \in Text /\ c \in Characters /\ SubSeq(a, 1, n + 1) = Append(b, c) BY <2>1, <2>b, <2>c, Beginnings
  <2>3. q[n + 1] = QuoteStep(q[n], c) BY <1>1, <2>1, <2>c DEF QuotedBody
  <2>4. Writes(q[n], b) BY <1>3, <2>b
  <2>5. Writes(QuoteStep(q[n], c), Append(b, c)) BY <2>2, <2>4, OneMoreIsWritten
  <2> QED BY <2>1, <2>2, <2>3, <2>5
<1>4. 0..Len(a) \subseteq S
  <2> HIDE DEF S
  <2> QED BY <1>0, <1>2, <1>3, UpTo
<1>5. Writes(q[Len(a)], SubSeq(a, 1, Len(a))) BY <1>0, <1>4
<1>6. SubSeq(a, 1, Len(a)) = a BY Beginnings
<1> QED BY <1>5, <1>6, <1>q

\* A text is read as one word, when a space follows.
IsRead(text, word) ==
  text \in Text /\ \A w : SplitStep(Split(Fresh(w), text), "space") = Fresh(Append(w, word))

LEMMA EmptyIsRead == IsRead(<<"q", "q">>, <<>>)
<1>1. "q" \in Characters BY DEF Characters
<1>p. PICK pair : pair = <<"q", "q">> OBVIOUS
<1>o. PICK one : one = <<"q">> OBVIOUS
<1>2. pair \in Text /\ one \in Text /\ pair = Append(one, "q") BY <1>1, <1>p, <1>o DEF Text
<1>e. PICK e : e = <<>> OBVIOUS
<1>3. ASSUME NEW w PROVE SplitStep(Split(Fresh(w), pair), "space") = Fresh(Append(w, <<>>))
  <2>z. PICK z \in 0..1 : z = 0 OBVIOUS
  <2>y. PICK y \in 0..1 : y = 1 OBVIOUS
  <2>k. PICK k \in Nat : k = 0 OBVIOUS
  <2>m. PICK m : m = 2 * k OBVIOUS
  <2>b. e \o Backslashes(k) = e
    <3>1. Backslashes(k) = <<>> BY <2>k, BackslashesAre
    <3> QED BY <3>1, ConcatEmptySeq DEF Text
  <2>1. Split(Fresh(w), one) = SplitStep(Reading(w, e, z, z, m), "q")
    BY <1>1, <1>e, <1>o, <2>k, <2>m, <2>z, SplitOne DEF Fresh
  <2>2. SplitStep(Reading(w, e, z, z, m), "q") = Reading(w, e \o Backslashes(k), 1, 1 - z, 0)
    BY <2>m, QuoteIsDelimiter
  <2>3. Split(Fresh(w), one) = Reading(w, e, y, y, m) BY <2>1, <2>2, <2>b, <2>k, <2>m, <2>y, <2>z
  <2>4. Split(Fresh(w), pair) = SplitStep(Split(Fresh(w), one), "q") BY <1>1, <1>2, SplitOneMore
  <2>5. SplitStep(Reading(w, e, y, y, m), "q") = Reading(w, e \o Backslashes(k), 1, 1 - y, 0)
    BY <2>m, QuoteIsDelimiter
  <2>6. Split(Fresh(w), pair) = Reading(w, e, y, 0, k) BY <2>3, <2>4, <2>5, <2>b, <2>k, <2>y
  <2>7. SplitStep(Reading(w, e, y, 0, k), "space") = Reading(Append(w, e \o Backslashes(k)), <<>>, 0, 0, 0)
    BY <2>y, SpaceEndsWord
  <2> QED BY <1>e, <2>6, <2>7, <2>b DEF Fresh
<1> QED BY <1>2, <1>3, <1>p DEF IsRead

LEMMA QuoteCloses ==
  ASSUME NEW w, NEW word, NEW k \in Nat, NEW m, m = 2 * k
  PROVE  SplitStep(Reading(w, word, 1, 1, m), "q") = Reading(w, word \o Backslashes(k), 1, 0, 0)
<1>y. PICK y \in 0..1 : y = 1 OBVIOUS
<1>1. SplitStep(Reading(w, word, y, y, m), "q") = Reading(w, word \o Backslashes(k), 1, 1 - y, 0)
  BY QuoteIsDelimiter
<1> QED BY <1>1, <1>y

LEMMA SplitEscapedInQuotes ==
  ASSUME NEW w, NEW word, NEW from, NEW out \in Text, NEW m \in Nat, NEW c \in Characters,
         Split(from, out) = Reading(w, word, 1, 1, 0),
         NEW x, x = Escaped(out, m, c)
  PROVE  x \in Text /\ Split(from, x) = SplitStep(Reading(w, word, 1, 1, m), c)
<1>y. PICK y \in 0..1 : y = 1 OBVIOUS
<1>1. Split(from, out) = Reading(w, word, y, y, 0) BY <1>y
<1>2. x \in Text /\ Split(from, x) = SplitStep(Reading(w, word, y, y, m), c)
  BY <1>1, SplitEscaped
<1> QED BY <1>2, <1>y

LEMMA QuotedIsRead ==
  ASSUME NEW a \in Text, NEW s, s = Quoted(a)[Len(a)]
  PROVE  IsRead(s.out \o Backslashes(s.slashes * 2) \o <<"q">>, a)
<1>0. "q" \in Characters BY DEF Characters
<1>1. Writes(s, a) BY BeginningsAreWritten
<1>k. PICK k \in Nat : k = s.slashes BY <1>1 DEF Writes
<1>o. PICK out \in Text : out = s.out BY <1>1 DEF Writes
<1>2. PICK word \in Text : /\ a = word \o Backslashes(k)
                          /\ \A w : Split(Fresh(w), out) = Reading(w, word, 1, 1, 0)
  BY <1>1, <1>k, <1>o DEF Writes
<1>m. PICK m : m = 2 * k OBVIOUS
<1>n. m \in Nat BY <1>m
<1>c. PICK c \in Characters : c = "q" BY <1>0
<1>x. PICK x : x = Escaped(out, m, c) OBVIOUS
<1>z. PICK zero \in Nat : zero = 0 OBVIOUS
<1>e. a \o Backslashes(zero) = a
  <2>1. Backslashes(zero) = <<>> BY <1>z, BackslashesAre
  <2> QED BY <2>1, ConcatEmptySeq DEF Text
<1>3. ASSUME NEW w PROVE x \in Text /\ SplitStep(Split(Fresh(w), x), "space") = Fresh(Append(w, a))
  <2>y. PICK y \in 0..1 : y = 1 OBVIOUS
  <2>f. PICK from : from = Fresh(w) OBVIOUS
  <2>1. Split(from, out) = Reading(w, word, 1, 1, 0) BY <1>2, <2>f
  <2>2. x \in Text /\ Split(from, x) = SplitStep(Reading(w, word, 1, 1, m), c)
    BY <1>n, <1>x, <2>1, SplitEscapedInQuotes
  <2>3. SplitStep(Reading(w, word, 1, 1, m), "q") = Reading(w, word \o Backslashes(k), 1, 0, 0)
    BY <1>m, QuoteCloses
  <2>4. Split(from, x) = Reading(w, a, y, 0, zero) BY <1>2, <1>c, <1>z, <2>2, <2>3, <2>y
  <2>5. SplitStep(Reading(w, a, y, 0, zero), "space") = Reading(Append(w, a \o Backslashes(zero)), <<>>, 0, 0, 0)
    BY <2>y, SpaceEndsWord
  <2> QED BY <1>e, <2>2, <2>4, <2>5, <2>f DEF Fresh
<1>4. x \in Text
  <2>1. PICK w : w = <<>> OBVIOUS
  <2> QED BY <1>3
<1>5. x = s.out \o Backslashes(s.slashes * 2) \o <<"q">>
  <2>1. s.slashes * 2 = m BY <1>k, <1>m
  <2> QED BY <2>1, <1>c, <1>o, <1>x DEF Escaped
<1>6. IsRead(x, a) BY <1>3, <1>4 DEF IsRead
<1> QED BY <1>5, <1>6

\* The beginning of an argument without spaces or quotes reads as itself: a word and some
\* backslashes, of which nothing is known yet.
ReadsAsItself(beginning) ==
  \E word \in Text, k \in Nat, some \in 0..1 :
    /\ beginning = word \o Backslashes(k)
    /\ \A w : Split(Fresh(w), beginning) = Reading(w, word, some, 0, k)

LEMMA NothingReadsAsItself == ReadsAsItself(<<>>)
<1>e. PICK e : e = <<>> OBVIOUS
<1>t. e \in Text BY <1>e DEF Text
<1>k. PICK k \in Nat : k = 0 OBVIOUS
<1>s. PICK some \in 0..1 : some = 0 OBVIOUS
<1>1. e = e \o Backslashes(k)
  <2>1. Backslashes(k) = <<>> BY <1>k, BackslashesAre
  <2> QED BY <1>t, <2>1, ConcatEmptySeq DEF Text
<1>2. \A w : Split(Fresh(w), e) = Reading(w, e, some, 0, k)
  BY <1>e, <1>k, <1>s, SplitNothing DEF Fresh
<1>3. ReadsAsItself(e) BY <1>t, <1>1, <1>2 DEF ReadsAsItself
<1> QED BY <1>3, <1>e

LEMMA OneMoreReadsAsItself ==
  ASSUME NEW beginning \in Text, ReadsAsItself(beginning),
         NEW c \in Characters, c # "space", c # "q"
  PROVE  ReadsAsItself(Append(beginning, c))
<1>1. PICK word \in Text, k \in Nat, some \in 0..1 :
        /\ beginning = word \o Backslashes(k)
        /\ \A w : Split(Fresh(w), beginning) = Reading(w, word, some, 0, k)
  BY DEF ReadsAsItself
<1>z. PICK z \in 0..1 : z = 0 OBVIOUS
<1>b. PICK b \in Text : b = Backslashes(k) BY BackslashesAre
<1>m. PICK more : more = Append(beginning, c) OBVIOUS
<1>2. more = word \o Append(b, c) /\ more = Append(word \o b, c) /\ more \in Text
  BY <1>1, <1>b, <1>m, TextsAreJoined
<1>3. ASSUME NEW w PROVE Split(Fresh(w), more) = SplitStep(Reading(w, word, some, z, k), c)
  <2>f. PICK from : from = Fresh(w) OBVIOUS
  <2>1. Split(from, beginning) = Reading(w, word, some, z, k) BY <1>1, <1>z, <2>f
  <2>2. Split(from, more) = SplitStep(Split(from, beginning), c) BY <1>m, SplitOneMore
  <2> QED BY <2>1, <2>2, <2>f
<1>4. CASE c = "\\"
  <2>1. \A w : Split(Fresh(w), more) = Reading(w, word, some, 0, k + 1)
    <3> SUFFICES ASSUME NEW w PROVE Split(Fresh(w), more) = Reading(w, word, some, 0, k + 1) OBVIOUS
    <3>1. SplitStep(Reading(w, word, some, z, k), "\\") = Reading(w, word, some, z, k + 1)
      BY BackslashIsCounted
    <3> QED BY <1>3, <1>4, <1>z, <3>1
  <2>2. more = word \o Backslashes(k + 1)
    <3>1. Backslashes(k + 1) = Append(b, c) BY <1>4, <1>b, BackslashesAre
    <3> QED BY <1>2, <3>1
  <2>n. PICK n \in Nat : n = k + 1 OBVIOUS
  <2>3. ReadsAsItself(more) BY <2>1, <2>2, <2>n DEF ReadsAsItself
  <2> QED BY <1>m, <2>3
<1>5. CASE c # "\\"
  <2>y. PICK y \in 0..1 : y = 1 OBVIOUS
  <2>n. PICK n \in Nat : n = 0 OBVIOUS
  <2>1. \A w : Split(Fresh(w), more) = Reading(w, more, y, 0, n)
    <3> SUFFICES ASSUME NEW w PROVE Split(Fresh(w), more) = Reading(w, more, y, 0, n) OBVIOUS
    <3>1. SplitStep(Reading(w, word, some, z, k), c) = Reading(w, Append(word \o Backslashes(k), c), 1, z, 0)
      BY <1>5, CharacterIsKept
    <3> QED BY <1>2, <1>3, <1>b, <1>z, <2>n, <2>y, <3>1
  <2>2. more = more \o Backslashes(n)
    <3>1. Backslashes(n) = <<>> BY <2>n, BackslashesAre
    <3> QED BY <1>2, <3>1, ConcatEmptySeq DEF Text
  <2>3. ReadsAsItself(more) BY <1>2, <2>1, <2>2 DEF ReadsAsItself
  <2> QED BY <1>m, <2>3
<1> QED BY <1>4, <1>5

LEMMA PlainIsRead ==
  ASSUME NEW a \in Text, a # <<>>, {"space", "q"} \cap ToSet(a) = {}
  PROVE  IsRead(a, a)
<1>0. Len(a) \in Nat BY Beginnings
<1> DEFINE S == {n \in 0..Len(a) : ReadsAsItself(SubSeq(a, 1, n))}
<1>1. 0 \in S
  <2>1. ReadsAsItself(SubSeq(a, 1, 0)) BY Beginnings, NothingReadsAsItself
  <2> QED BY <1>0, <2>1
<1>2. ASSUME NEW n \in 0..Len(a), n \in S, n < Len(a) PROVE n + 1 \in S
  <2>1. n \in 0..(Len(a) - 1) /\ n + 1 \in 0..Len(a) /\ n + 1 \in DOMAIN a BY <1>0, <1>2 DEF Text
  <2>b. PICK b : b = SubSeq(a, 1, n) OBVIOUS
  <2>c. PICK c : c = a[n + 1] OBVIOUS
  <2>2. b \in Text /\ c \in Characters /\ SubSeq(a, 1, n + 1) = Append(b, c) BY <2>1, <2>b, <2>c, Beginnings
  <2>3. c # "space" /\ c # "q"
    <3>1. c \in ToSet(a) BY <2>1, <2>c DEF ToSet
    <3> QED BY <3>1
  <2>4. ReadsAsItself(b) BY <1>2, <2>b
  <2>5. ReadsAsItself(Append(b, c)) BY <2>2, <2>3, <2>4, OneMoreReadsAsItself
  <2> QED BY <2>1, <2>2, <2>5
<1>3. 0..Len(a) \subseteq S
  <2> HIDE DEF S
  <2> QED BY <1>0, <1>1, <1>2, UpTo
<1>4. ReadsAsItself(SubSeq(a, 1, Len(a))) BY <1>0, <1>3
<1>5. ReadsAsItself(a)
  <2>1. SubSeq(a, 1, Len(a)) = a BY Beginnings
  <2> QED BY <1>4, <2>1
<1>6. PICK word \in Text, k \in Nat, some \in 0..1 :
        /\ a = word \o Backslashes(k)
        /\ \A w : Split(Fresh(w), a) = Reading(w, word, some, 0, k)
  BY <1>5 DEF ReadsAsItself
<1>7. ASSUME NEW w PROVE SplitStep(Split(Fresh(w), a), "space") = Fresh(Append(w, a))
  <2>1. Split(Fresh(w), a) = Reading(w, word, some, 0, k) BY <1>6
  <2>2. SplitStep(Reading(w, word, some, 0, k), "space") = Reading(Append(w, word \o Backslashes(k)), <<>>, 0, 0, 0)
    BY <1>6, SpaceEndsWord
  <2> QED BY <1>6, <2>1, <2>2 DEF Fresh
<1> QED BY <1>7 DEF IsRead

LEMMA ArgumentIsRead ==
  ASSUME NEW a \in Text
  PROVE  IsRead(QuoteArgument(a), a)
<1>s. PICK s : s = Quoted(a)[Len(a)] OBVIOUS
<1>1. CASE a = <<>>
  <2>1. QuoteArgument(a) = <<"q", "q">> BY <1>1 DEF QuoteArgument
  <2> QED BY <1>1, <2>1, EmptyIsRead
<1>2. CASE a # <<>> /\ {"space", "q"} \cap ToSet(a) = {}
  <2>1. QuoteArgument(a) = a BY <1>2 DEF QuoteArgument
  <2>2. IsRead(a, a) BY <1>2, PlainIsRead
  <2> QED BY <2>1, <2>2
<1>3. CASE a # <<>> /\ {"space", "q"} \cap ToSet(a) # {}
  <2>1. QuoteArgument(a) = s.out \o Backslashes(s.slashes * 2) \o <<"q">>
    BY <1>3, <1>s DEF QuoteArgument
  <2>2. IsRead(s.out \o Backslashes(s.slashes * 2) \o <<"q">>, a) BY <1>s, QuotedIsRead
  <2> QED BY <2>1, <2>2
<1> QED BY <1>1, <1>2, <1>3


\* What the helper is to be given: its name, then n of the arguments.
GivenTo(path, arguments, n) == <<path>> \o SubSeq(arguments, 1, n)

LEMMA OneMoreIsGiven ==
  ASSUME NEW path \in Text, NEW arguments \in Seq(Text), NEW n \in 0..(Len(arguments) - 1)
  PROVE  GivenTo(path, arguments, n + 1) = Append(GivenTo(path, arguments, n), arguments[n + 1])
<1> DEFINE T == Text
<1>2. arguments \in Seq(T) /\ path \in T OBVIOUS
<1> HIDE DEF T
<1>3. <<path>> \o SubSeq(arguments, 1, n + 1) = Append(<<path>> \o SubSeq(arguments, 1, n), arguments[n + 1])
  BY <1>2
<1> QED BY <1>3 DEF GivenTo

LEMMA AllIsGiven ==
  ASSUME NEW path \in Text, NEW arguments \in Seq(Text)
  PROVE  /\ Len(arguments) \in Nat /\ GivenTo(path, arguments, 0) = Append(<<>>, path)
         /\ GivenTo(path, arguments, Len(arguments)) = <<path>> \o arguments
<1>1. Len(arguments) \in Nat /\ SubSeq(arguments, 1, 0) = <<>> /\ SubSeq(arguments, 1, Len(arguments)) = arguments
  BY SubSeqFull, SubSeqEmpty
<1>2. <<path>> \o <<>> = Append(<<>>, path) OBVIOUS
<1> QED BY <1>1, <1>2 DEF GivenTo

\* A line reads as so many words when a space follows.
LineReads(line, words) ==
  line \in Text /\ SplitStep(Split(Fresh(<<>>), line), "space") = Fresh(words)

LEMMA OneMoreWord ==
  ASSUME NEW line, NEW words, LineReads(line, words), NEW a \in Text
  PROVE  LineReads(line \o <<"space">> \o QuoteArgument(a), Append(words, a))
<1>0. "space" \in Characters BY DEF Characters
<1>q. PICK quoted : quoted = QuoteArgument(a) OBVIOUS
<1>1. IsRead(quoted, a) BY <1>q, ArgumentIsRead
<1>2. quoted \in Text /\ line \in Text BY <1>1 DEF IsRead, LineReads
<1>m. PICK more : more = Append(line, "space") OBVIOUS
<1>3. more \in Text /\ line \o <<"space">> = more BY <1>0, <1>2, <1>m DEF Text
<1>f. PICK from : from = Fresh(<<>>) OBVIOUS
<1>4. Split(from, more) = SplitStep(Split(from, line), "space") BY <1>0, <1>2, <1>m, SplitOneMore
<1>5. Split(from, more) = Fresh(words) BY <1>4, <1>f DEF LineReads
<1>6. Split(from, more \o quoted) = Split(Split(from, more), quoted) BY <1>2, <1>3, SplitInPieces
<1>7. SplitStep(Split(Fresh(words), quoted), "space") = Fresh(Append(words, a)) BY <1>1 DEF IsRead
<1>8. more \o quoted \in Text BY <1>2, <1>3 DEF Text
<1>9. LineReads(more \o quoted, Append(words, a)) BY <1>5, <1>6, <1>7, <1>8, <1>f DEF LineReads
<1> QED BY <1>3, <1>9, <1>q

\* win32_helper_process.cpp's command line carries every list of arguments to the helper, whatever
\* spaces, quotes and backslashes they hold: its runtime splits the line into just those.
THEOREM ArgumentsArrive ==
  \A path \in Text, arguments \in Seq(Text) : ArgumentsSurvive(path, arguments)
<1> SUFFICES ASSUME NEW path \in Text, NEW arguments \in Seq(Text)
             PROVE  ArgumentsSurvive(path, arguments)
  OBVIOUS
<1>0. Len(arguments) \in Nat BY AllIsGiven
<1>l. PICK lines : lines = CommandLines(path, arguments) OBVIOUS
<1>1. lines = [n \in 0..Len(arguments) |-> LinesBody(path, arguments, lines, n)] BY <1>0, <1>l, LinesDef
<1> DEFINE S == {n \in 0..Len(arguments) : LineReads(lines[n], GivenTo(path, arguments, n))}
<1>2. 0 \in S
  <2>1. lines[0] = QuoteArgument(path) BY <1>0, <1>1 DEF LinesBody
  <2>2. IsRead(QuoteArgument(path), path) BY ArgumentIsRead
  <2>e. PICK e : e = <<>> OBVIOUS
  <2>3. LineReads(lines[0], Append(e, path)) BY <2>1, <2>2, <2>e DEF IsRead, LineReads
  <2>4. LineReads(lines[0], GivenTo(path, arguments, 0)) BY <2>3, <2>e, AllIsGiven
  <2> QED BY <1>0, <2>4
<1>3. ASSUME NEW n \in 0..Len(arguments), n \in S, n < Len(arguments) PROVE n + 1 \in S
  <2>1. n \in 0..(Len(arguments) - 1) /\ n + 1 \in 0..Len(arguments) /\ n + 1 # 0 /\ (n + 1) - 1 = n
    BY <1>0, <1>3
  <2>a. PICK a : a = arguments[n + 1] OBVIOUS
  <2>2. a \in Text BY <1>0, <2>1, <2>a
  <2>3. lines[n + 1] = lines[n] \o <<"space">> \o QuoteArgument(a) BY <1>1, <2>1, <2>a DEF LinesBody
  <2>g. PICK given : given = GivenTo(path, arguments, n) OBVIOUS
  <2>4. GivenTo(path, arguments, n + 1) = Append(given, a) BY <2>1, <2>a, <2>g, OneMoreIsGiven
  <2>5. LineReads(lines[n], given) BY <1>3, <2>g
  <2>6. LineReads(lines[n] \o <<"space">> \o QuoteArgument(a), Append(given, a)) BY <2>2, <2>5, OneMoreWord
  <2> QED BY <2>1, <2>3, <2>4, <2>6
<1>4. 0..Len(arguments) \subseteq S
  <2> HIDE DEF S
  <2> QED BY <1>0, <1>2, <1>3, UpTo
<1>5. LineReads(lines[Len(arguments)], GivenTo(path, arguments, Len(arguments))) BY <1>0, <1>4
<1>w. PICK words : words = GivenTo(path, arguments, Len(arguments)) OBVIOUS
<1>n. PICK line : line = CommandLineFor(path, arguments) OBVIOUS
<1>6. LineReads(line, words) BY <1>5, <1>l, <1>n, <1>w DEF CommandLineFor
<1>7. SplitCommandLine(line) = words
  <2>1. "space" \in Characters BY DEF Characters
  <2>f. PICK from : from = Fresh(<<>>) OBVIOUS
  <2>2. Split(from, Append(line, "space")) = SplitStep(Split(from, line), "space")
    BY <1>6, <2>1, SplitOneMore DEF LineReads
  <2>3. Split(from, Append(line, "space")) = Fresh(words) BY <1>6, <2>2, <2>f DEF LineReads
  <2>4. Fresh(words).words = words BY DEF Fresh, Reading
  <2> QED BY <2>3, <2>4, <2>f DEF Fresh, SplitCommandLine
<1>8. words = <<path>> \o arguments BY <1>w, AllIsGiven
<1> QED BY <1>7, <1>8, <1>n DEF ArgumentsSurvive

(***************************************************************************)
(* Frames.                                                                 *)
(***************************************************************************)
\* A command of any length is read by the phone in full, or refused and not sent: writeClientFrame
\* of control_protocol.cpp against the phone's frames.
THEOREM CommandsArriveWhole == \A n \in Nat : CommandArrivesWhole(n)
<1> SUFFICES ASSUME NEW n \in Nat PROVE CommandArrivesWhole(n) OBVIOUS
<1>1. CASE n < 126
  <2>1. PhoneReads(<<n>>) = n BY <1>1 DEF PhoneReads, Refused
  <2> QED BY <1>1, <2>1 DEF CommandArrivesWhole, SendFrame
<1>2. CASE n >= 126 /\ n <= 65535
  <2>1. PICK high, low : high = n \div 256 /\ low = n % 256 OBVIOUS
  <2>2. high * 256 + low = n BY <2>1
  <2>3. PhoneReads(<<126, high, low>>) = high * 256 + low BY DEF PhoneReads
  <2>4. SendFrame(n) = <<126, high, low>> BY <1>2, <2>1 DEF SendFrame
  <2> QED BY <2>2, <2>3, <2>4 DEF CommandArrivesWhole
<1>3. CASE n > 65535
  <2>1. SendFrame(n) = <<>> BY <1>3 DEF SendFrame
  <2>2. PhoneReads(<<>>) = Refused BY DEF PhoneReads
  <2> QED BY <2>1, <2>2 DEF CommandArrivesWhole
<1> QED BY <1>1, <1>2, <1>3

\* An event of up to 65535 bytes is read by the helper in full.
THEOREM EventsArriveWhole == \A n \in Nat : n <= 65535 => EventArrivesWhole(n)
<1> SUFFICES ASSUME NEW n \in Nat, n <= 65535 PROVE EventArrivesWhole(n) OBVIOUS
<1>1. CASE n < 126
  <2>1. ReceiveFrame(<<n>>) = n BY <1>1 DEF ReceiveFrame
  <2> QED BY <1>1, <2>1 DEF EventArrivesWhole, EncodeTextFrame
<1>2. CASE n >= 126
  <2>1. PICK high, low : high = n \div 256 /\ low = n % 256 OBVIOUS
  <2>2. high * 256 + low = n /\ high \in Nat /\ high < 256 BY <2>1
  <2>3. high % 256 = high BY <2>2
  <2>4. ReceiveFrame(<<126, high, low>>) = high * 256 + low BY DEF ReceiveFrame
  <2>5. EncodeTextFrame(n) = <<126, high, low>> BY <1>2, <2>1, <2>3 DEF EncodeTextFrame
  <2> QED BY <2>2, <2>4, <2>5 DEF EventArrivesWhole
<1> QED BY <1>1, <1>2

(***************************************************************************)
(* Commands: what the arguments say, and what is sent.                     *)
(***************************************************************************)
List(a, n) == n \in Nat /\ Len(a) = n /\ \E V : a \in Seq(V)

LEMMA FirstValue ==
  ASSUME NEW args, NEW l, List(args, l), NEW flag, NEW n \in Nat \ {0}, n < l, args[n] = flag,
         \A i \in 1..(n - 1) : args[i] # flag
  PROVE  ValueAfter(args, flag) = args[n + 1]
<1> DEFINE at == {i \in 1..(Len(args) - 1) : args[i] = flag}
<1>0. l \in Nat /\ Len(args) = l BY DEF List
<1>1. n \in at BY <1>0
<1>2. \A j \in at : n <= j BY <1>0
<1>3. \A i \in at : (\A j \in at : i <= j) => i = n BY <1>0, <1>1, <1>2
<1>4. (CHOOSE i \in at : \A j \in at : i <= j) = n BY <1>1, <1>2, <1>3
<1> QED BY <1>1, <1>4 DEF ValueAfter

Joins(a, b, c) == c = a \o b
LEMMA Joined ==
  ASSUME NEW a, NEW b, NEW m, NEW n, List(a, m), List(b, n), NEW c, Joins(a, b, c)
  PROVE  /\ List(c, m + n) /\ m \in Nat /\ n \in Nat
         /\ \A i \in 1..m : c[i] = a[i]
         /\ \A i \in 1..n : c[m + i] = b[i]
<1>s. PICK S : a \in Seq(S) BY DEF List
<1>t. PICK T : b \in Seq(T) BY DEF List
<1>v. PICK V : V = S \cup T OBVIOUS
<1>0. m \in Nat /\ n \in Nat /\ Len(a) = m /\ Len(b) = n /\ c = a \o b BY DEF List, Joins
<1>1. a \in Seq(V) /\ b \in Seq(V) BY <1>s, <1>t, <1>v
<1>2. /\ Len(a \o b) = Len(a) + Len(b) /\ \A i \in 1..Len(a) : (a \o b)[i] = a[i]
      /\ \A i \in 1..Len(b) : (a \o b)[Len(a) + i] = b[i] /\ a \o b \in Seq(V)
  BY <1>1
<1>3. List(c, m + n) BY <1>0, <1>2 DEF List
<1> QED BY <1>0, <1>2, <1>3

LEMMA Six ==
  ASSUME NEW a1, NEW a2, NEW a3, NEW a4, NEW a5, NEW a6, NEW c, c = <<a1, a2, a3, a4, a5, a6>>
  PROVE  /\ List(c, 6)
         /\ c[1] = a1 /\ c[2] = a2 /\ c[3] = a3 /\ c[4] = a4 /\ c[5] = a5 /\ c[6] = a6
<1>1. /\ Len(c) = 6
      /\ c[1] = a1 /\ c[2] = a2 /\ c[3] = a3 /\ c[4] = a4 /\ c[5] = a5 /\ c[6] = a6
  OBVIOUS
<1>2. c \in Seq({a1, a2, a3, a4, a5, a6}) OBVIOUS
<1> QED BY <1>1, <1>2 DEF List

LEMMA Two ==
  ASSUME NEW a1, NEW a2, NEW c, c = <<a1, a2>>
  PROVE  List(c, 2) /\ c[1] = a1 /\ c[2] = a2
<1>1. Len(c) = 2 /\ c[1] = a1 /\ c[2] = a2 OBVIOUS
<1>2. c \in Seq({a1, a2}) OBVIOUS
<1> QED BY <1>1, <1>2 DEF List

LEMMA Fourteen ==
  ASSUME NEW a1, NEW a2, NEW a3, NEW a4, NEW a5, NEW a6, NEW a7, NEW a8, NEW a9, NEW a10,
         NEW a11, NEW a12, NEW a13, NEW a14,
         NEW c, c = <<a1, a2, a3, a4, a5, a6, a7, a8, a9, a10, a11, a12, a13, a14>>
  PROVE  /\ List(c, 14)
         /\ c[1] = a1 /\ c[2] = a2 /\ c[3] = a3 /\ c[4] = a4 /\ c[5] = a5 /\ c[6] = a6 /\ c[7] = a7
         /\ c[8] = a8 /\ c[9] = a9 /\ c[10] = a10 /\ c[11] = a11 /\ c[12] = a12 /\ c[13] = a13 /\ c[14] = a14
<1>1. /\ Len(c) = 14
      /\ c[1] = a1 /\ c[2] = a2 /\ c[3] = a3 /\ c[4] = a4 /\ c[5] = a5 /\ c[6] = a6 /\ c[7] = a7
      /\ c[8] = a8 /\ c[9] = a9 /\ c[10] = a10 /\ c[11] = a11 /\ c[12] = a12 /\ c[13] = a13 /\ c[14] = a14
  OBVIOUS
<1>2. c \in Seq({a1, a2, a3, a4, a5, a6, a7, a8, a9, a10, a11, a12, a13, a14}) OBVIOUS
<1> QED BY <1>1, <1>2 DEF List

LEMMA ValueInRest ==
  ASSUME NEW head, NEW rest, NEW m, NEW l, List(head, m), List(rest, l), NEW args, Joins(head, rest, args),
         NEW flag, \A i \in 1..m : head[i] # flag,
         NEW n \in Nat \ {0}, n < l, rest[n] = flag,
         \A i \in 1..(n - 1) : rest[i] # flag
  PROVE  ValueAfter(args, flag) = rest[n + 1]
<1>1. /\ List(args, m + l) /\ m \in Nat /\ l \in Nat
      /\ \A i \in 1..m : args[i] = head[i]
      /\ \A i \in 1..l : args[m + i] = rest[i]
  BY Joined
<1>k. PICK k \in Nat \ {0} : k = m + n BY <1>1
<1>2. args[k] = flag /\ k < m + l BY <1>1, <1>k
<1>3. ASSUME NEW i \in 1..(k - 1) PROVE args[i] # flag
  <2>1. CASE i <= m BY <1>1, <2>1
  <2>2. CASE ~(i <= m)
    <3>1. i - m \in 1..(n - 1) /\ i - m \in 1..l /\ m + (i - m) = i BY <1>1, <1>k, <2>2
    <3>2. args[m + (i - m)] = rest[i - m] BY <1>1, <3>1
    <3> QED BY <3>1, <3>2
  <2> QED BY <2>1, <2>2
<1>4. ValueAfter(args, flag) = args[k + 1] BY <1>1, <1>2, <1>3, FirstValue
<1>5. n + 1 \in 1..l /\ k + 1 = m + (n + 1) BY <1>1, <1>k
<1>6. args[m + (n + 1)] = rest[n + 1] BY <1>1, <1>5
<1> QED BY <1>4, <1>5, <1>6

LEMMA ValueInHead ==
  ASSUME NEW head, NEW rest, NEW m, NEW l, List(head, m), List(rest, l), NEW args, Joins(head, rest, args),
         NEW flag, NEW n \in Nat \ {0}, n < m, head[n] = flag,
         \A i \in 1..(n - 1) : head[i] # flag
  PROVE  ValueAfter(args, flag) = head[n + 1]
<1>1. /\ List(args, m + l) /\ m \in Nat /\ l \in Nat
      /\ \A i \in 1..m : args[i] = head[i]
  BY Joined
<1>2. args[n] = flag /\ n < m + l /\ args[n + 1] = head[n + 1] BY <1>1
<1>3. \A i \in 1..(n - 1) : args[i] # flag BY <1>1
<1>4. ValueAfter(args, flag) = args[n + 1] BY <1>1, <1>2, <1>3, FirstValue
<1> QED BY <1>2, <1>4

\* The arguments that stand before those of the command.
Opening(s, command) == <<"helper", command, "--host", s.host, "--port", s.controlPort>>
Plain(s) ==
  /\ s.fps \in {"", "24", "30", "60"}
  /\ {s.host, s.controlPort, s.httpPort, s.token, s.resolution, s.aspect, s.orientation, s.lens,
       s.zoom} \cap ArgumentFlags = {}

LEMMA HeadIs ==
  ASSUME NEW s, NEW command, NEW head, head = Opening(s, command)
  PROVE  /\ List(head, 6)
         /\ head[1] = "helper" /\ head[2] = command /\ head[3] = "--host" /\ head[4] = s.host
         /\ head[5] = "--port" /\ head[6] = s.controlPort
BY Six DEF Opening

\* Flags of the rest, for they are not in the head.
OwnFlags == ArgumentFlags \ {"--host", "--port"}

LEMMA NotInHead ==
  ASSUME NEW s, NEW command \in CommandNames, Plain(s), NEW head, head = Opening(s, command),
         NEW flag \in OwnFlags
  PROVE  \A i \in 1..6 : head[i] # flag
<1>1. /\ head[1] = "helper" /\ head[2] = command /\ head[3] = "--host" /\ head[4] = s.host
      /\ head[5] = "--port" /\ head[6] = s.controlPort
  BY HeadIs
<1>2. command # flag /\ "helper" # flag BY DEF CommandNames, ArgumentFlags, OwnFlags
<1>3. "--host" # flag /\ "--port" # flag /\ s.host # flag /\ s.controlPort # flag
  BY DEF Plain, OwnFlags
<1> QED BY <1>1, <1>2, <1>3

Line(s, command, rest, args) == Joins(Opening(s, command), rest, args)

LEMMA HostIs ==
  ASSUME NEW s, NEW command \in CommandNames, NEW rest, NEW l, List(rest, l),
         NEW args, Line(s, command, rest, args)
  PROVE  args[2] = command /\ ValueAfter(args, "--host") = s.host
<1>h. PICK head : head = Opening(s, command) OBVIOUS
<1>1. /\ List(head, 6) /\ head[1] = "helper" /\ head[2] = command /\ head[3] = "--host"
      /\ head[4] = s.host /\ Joins(head, rest, args)
  BY <1>h, HeadIs DEF Line
<1>2. args[2] = command BY <1>1, Joined
<1>3. command # "--host" BY DEF CommandNames
<1>n. PICK n \in Nat \ {0} : n = 3 OBVIOUS
<1>4. n < 6 /\ head[n] = "--host" /\ \A i \in 1..(n - 1) : head[i] # "--host" BY <1>1, <1>3, <1>n
<1>5. ValueAfter(args, "--host") = head[n + 1] BY <1>1, <1>4, ValueInHead
<1> QED BY <1>1, <1>2, <1>5, <1>n

\* A flag of the rest, that stands at n.
LEMMA RestHas ==
  ASSUME NEW s, NEW command \in CommandNames, Plain(s), NEW rest, NEW l, List(rest, l),
         NEW args, Line(s, command, rest, args),
         NEW flag \in OwnFlags, NEW n \in Nat \ {0}, n < l, rest[n] = flag,
         \A i \in 1..(n - 1) : rest[i] # flag
  PROVE  ValueAfter(args, flag) = rest[n + 1]
<1>h. PICK head : head = Opening(s, command) OBVIOUS
<1>1. List(head, 6) /\ \A i \in 1..6 : head[i] # flag BY <1>h, HeadIs, NotInHead
<1>2. Joins(head, rest, args) BY <1>h DEF Line
<1> QED BY <1>1, <1>2, ValueInRest

LEMMA TokenFirst ==
  ASSUME NEW s, NEW command \in CommandNames, Plain(s), NEW rest, NEW l, List(rest, l), 1 < l,
         rest[1] = "--token", rest[2] = s.token,
         NEW args, Line(s, command, rest, args)
  PROVE  ValueAfter(args, "--token") = s.token
<1>1. "--token" \in OwnFlags BY DEF ArgumentFlags, OwnFlags
<1>n. PICK n \in Nat \ {0} : n = 1 OBVIOUS
<1>2. rest[n] = "--token" /\ n < l /\ \A i \in 1..(n - 1) : rest[i] # "--token" BY <1>n
<1>3. ValueAfter(args, "--token") = rest[n + 1] BY <1>1, <1>2, RestHas
<1> QED BY <1>3, <1>n

TokenThen(s, flag, value, rest) == rest = TokenArguments(s) \o <<flag, value>>
LEMMA TokenThenOne ==
  ASSUME NEW s, NEW flag, NEW value, Plain(s), flag \in OwnFlags \ {"--token"},
         NEW command \in CommandNames, NEW rest, TokenThen(s, flag, value, rest),
         NEW args, Line(s, command, rest, args)
  PROVE  /\ args[2] = command /\ ValueAfter(args, "--host") = s.host
         /\ ValueAfter(args, "--token") = s.token /\ ValueAfter(args, flag) = value
<1>a. PICK a : a = TokenArguments(s) OBVIOUS
<1>b. PICK b : b = <<flag, value>> OBVIOUS
<1>1. List(a, 2) /\ a[1] = "--token" /\ a[2] = s.token BY <1>a, Two DEF TokenArguments
<1>2. List(b, 2) /\ b[1] = flag /\ b[2] = value BY <1>b, Two
<1>c. Joins(a, b, rest) BY <1>a, <1>b DEF Joins, TokenThen
<1>w. PICK two \in Nat : two = 2 OBVIOUS
<1>f. PICK four \in Nat : four = two + two /\ four = 4 BY <1>w
<1>3. /\ List(rest, four) /\ rest[1] = "--token" /\ rest[2] = s.token
      /\ rest[3] = flag /\ rest[4] = value
  <2>0. List(a, two) /\ List(b, two) BY <1>1, <1>2, <1>w
  <2>1. /\ List(rest, two + two) /\ \A i \in 1..two : rest[i] = a[i]
        /\ \A i \in 1..two : rest[two + i] = b[i]
    BY <2>0, <1>c, Joined
  <2>2. rest[2 + 1] = b[1] /\ rest[2 + 2] = b[2] BY <1>w, <2>1
  <2> QED BY <1>1, <1>2, <1>f, <1>w, <2>1, <2>2
<1>4. args[2] = command /\ ValueAfter(args, "--host") = s.host BY <1>3, HostIs
<1>5. ValueAfter(args, "--token") = s.token BY <1>3, <1>f, TokenFirst
<1>6. s.token # flag /\ "--token" # flag BY DEF Plain, OwnFlags
<1>n. PICK n \in Nat \ {0} : n = 3 OBVIOUS
<1>9. n < four /\ rest[n] = flag /\ \A i \in 1..(n - 1) : rest[i] # flag BY <1>3, <1>6, <1>f, <1>n
<1>10. ValueAfter(args, flag) = rest[n + 1] BY <1>3, <1>9, RestHas
<1> QED BY <1>3, <1>4, <1>5, <1>10, <1>n

LEMMA TokenAlone ==
  ASSUME NEW s, Plain(s), NEW command \in CommandNames,
         NEW args, Line(s, command, TokenArguments(s), args)
  PROVE  /\ args[2] = command /\ ValueAfter(args, "--host") = s.host
         /\ ValueAfter(args, "--token") = s.token
<1>r. PICK rest : rest = TokenArguments(s) OBVIOUS
<1>l. PICK two \in Nat : two = 2 OBVIOUS
<1>1. List(rest, two) /\ rest[1] = "--token" /\ rest[2] = s.token BY <1>r, <1>l, Two DEF TokenArguments
<1>2. Line(s, command, rest, args) BY <1>r
<1>3. 1 < two BY <1>l
<1>4. args[2] = command /\ ValueAfter(args, "--host") = s.host BY <1>1, <1>2, HostIs
<1>5. ValueAfter(args, "--token") = s.token BY <1>1, <1>2, <1>3, TokenFirst
<1> QED BY <1>4, <1>5

LEMMA CodeAlone ==
  ASSUME NEW s, Plain(s), NEW command \in CommandNames,
         NEW args, Line(s, command, <<"--code", s.code>>, args)
  PROVE  /\ args[2] = command /\ ValueAfter(args, "--host") = s.host
         /\ ValueAfter(args, "--code") = s.code
<1>r. PICK rest : rest = <<"--code", s.code>> OBVIOUS
<1>l. PICK two \in Nat : two = 2 OBVIOUS
<1>1. List(rest, two) /\ rest[1] = "--code" /\ rest[2] = s.code BY <1>r, <1>l, Two
<1>2. Line(s, command, rest, args) BY <1>r
<1>3. "--code" \in OwnFlags BY DEF ArgumentFlags, OwnFlags
<1>n. PICK n \in Nat \ {0} : n = 1 OBVIOUS
<1>4. rest[n] = "--code" /\ n < two /\ \A i \in 1..(n - 1) : rest[i] # "--code" BY <1>1, <1>l, <1>n
<1>5. ValueAfter(args, "--code") = rest[n + 1] BY <1>1, <1>2, <1>3, <1>4, RestHas
<1>6. args[2] = command /\ ValueAfter(args, "--host") = s.host BY <1>1, <1>2, HostIs
<1> QED BY <1>1, <1>5, <1>6, <1>n

LEMMA ProfileArguments ==
  ASSUME NEW s, Plain(s), NEW command \in CommandNames,
         NEW args, Line(s, command, CaptureProfileArguments(s), args)
  PROVE  /\ args[2] = command /\ ValueAfter(args, "--host") = s.host
         /\ ValueAfter(args, "--token") = s.token
         /\ ValueAfter(args, "--resolution") = s.resolution
         /\ ValueAfter(args, "--fps") = s.fps
         /\ ValueAfter(args, "--orientation") = s.orientation
         /\ ValueAfter(args, "--aspect") = s.aspect
         /\ ValueAfter(args, "--lens") = s.lens
         /\ ValueAfter(args, "--zoom") = s.zoom
         /\ ValueAfter(args, "--look") = s.look
<1>a. PICK a : a = TokenArguments(s) OBVIOUS
<1>b. PICK b : b = <<"--resolution", s.resolution, "--fps", s.fps,
                     "--orientation", s.orientation, "--aspect", s.aspect,
                     "--lens", s.lens, "--zoom", s.zoom, "--look", s.look>>
  OBVIOUS
<1>r. PICK rest : rest = CaptureProfileArguments(s) OBVIOUS
<1>w. PICK two \in Nat : two = 2 OBVIOUS
<1>e. PICK more \in Nat : more = 14 OBVIOUS
<1>t. PICK all \in Nat : all = two + more /\ all = 16 BY <1>w, <1>e
<1>1. List(a, two) /\ a[1] = "--token" /\ a[2] = s.token BY <1>a, <1>w, Two DEF TokenArguments
<1>2. /\ List(b, more)
      /\ b[1] = "--resolution" /\ b[2] = s.resolution
      /\ b[3] = "--fps" /\ b[4] = s.fps
      /\ b[5] = "--orientation" /\ b[6] = s.orientation
      /\ b[7] = "--aspect" /\ b[8] = s.aspect
      /\ b[9] = "--lens" /\ b[10] = s.lens
      /\ b[11] = "--zoom" /\ b[12] = s.zoom
      /\ b[13] = "--look" /\ b[14] = s.look
  BY <1>b, <1>e, Fourteen
<1>c. Joins(a, b, rest) BY <1>a, <1>b, <1>r DEF CaptureProfileArguments, Joins
<1>3. /\ List(rest, all) /\ rest[1] = "--token" /\ rest[2] = s.token
      /\ rest[3] = "--resolution" /\ rest[4] = s.resolution
      /\ rest[5] = "--fps" /\ rest[6] = s.fps
      /\ rest[7] = "--orientation" /\ rest[8] = s.orientation
      /\ rest[9] = "--aspect" /\ rest[10] = s.aspect
      /\ rest[11] = "--lens" /\ rest[12] = s.lens
      /\ rest[13] = "--zoom" /\ rest[14] = s.zoom
      /\ rest[15] = "--look" /\ rest[16] = s.look
  <2>1. /\ List(rest, two + more) /\ \A i \in 1..two : rest[i] = a[i]
        /\ \A i \in 1..more : rest[two + i] = b[i]
    BY <1>1, <1>2, <1>c, Joined
  <2>2. rest[1] = a[1] /\ rest[2] = a[2] BY <1>w, <2>1
  <2>3. /\ rest[2 + 1] = b[1] /\ rest[2 + 2] = b[2] /\ rest[2 + 3] = b[3] /\ rest[2 + 4] = b[4]
        /\ rest[2 + 5] = b[5] /\ rest[2 + 6] = b[6] /\ rest[2 + 7] = b[7] /\ rest[2 + 8] = b[8]
    BY <1>w, <1>e, <2>1
  <2>4. /\ rest[2 + 9] = b[9] /\ rest[2 + 10] = b[10] /\ rest[2 + 11] = b[11]
        /\ rest[2 + 12] = b[12] /\ rest[2 + 13] = b[13] /\ rest[2 + 14] = b[14]
    BY <1>w, <1>e, <2>1
  <2> QED BY <1>1, <1>2, <1>t, <2>1, <2>2, <2>3, <2>4
<1>4. Line(s, command, rest, args) BY <1>r
<1>5. args[2] = command /\ ValueAfter(args, "--host") = s.host BY <1>3, <1>4, HostIs
<1>6. 1 < all BY <1>t
<1>7. ValueAfter(args, "--token") = s.token BY <1>3, <1>4, <1>6, TokenFirst
<1>8. {"--resolution", "--fps", "--orientation", "--aspect", "--lens", "--zoom", "--look"} \subseteq OwnFlags
  BY DEF ArgumentFlags, OwnFlags
<1>9. ASSUME NEW flag \in {"--resolution", "--fps", "--orientation", "--aspect", "--lens", "--zoom", "--look"}
      PROVE  /\ s.token # flag /\ s.resolution # flag /\ s.aspect # flag /\ s.fps # flag
             /\ s.orientation # flag /\ s.lens # flag /\ s.zoom # flag
  BY <1>8, <1>9 DEF Plain, OwnFlags
<1>10. ValueAfter(args, "--resolution") = s.resolution
  <2>n. PICK n \in Nat \ {0} : n = 3 OBVIOUS
  <2>1. n < all /\ rest[n] = "--resolution" /\ \A i \in 1..(n - 1) : rest[i] # "--resolution"
    BY <1>3, <1>9, <1>t, <2>n
  <2>2. ValueAfter(args, "--resolution") = rest[n + 1] BY <1>3, <1>4, <1>8, <2>1, RestHas
  <2> QED BY <1>3, <2>2, <2>n
<1>11. ValueAfter(args, "--fps") = s.fps
  <2>n. PICK n \in Nat \ {0} : n = 5 OBVIOUS
  <2>1. n < all /\ rest[n] = "--fps" /\ \A i \in 1..(n - 1) : rest[i] # "--fps"
    BY <1>3, <1>9, <1>t, <2>n
  <2>2. ValueAfter(args, "--fps") = rest[n + 1] BY <1>3, <1>4, <1>8, <2>1, RestHas
  <2> QED BY <1>3, <2>2, <2>n
<1>12. ValueAfter(args, "--orientation") = s.orientation
  <2>n. PICK n \in Nat \ {0} : n = 7 OBVIOUS
  <2>1. n < all /\ rest[n] = "--orientation" /\ \A i \in 1..(n - 1) : rest[i] # "--orientation"
    BY <1>3, <1>9, <1>t, <2>n
  <2>2. ValueAfter(args, "--orientation") = rest[n + 1] BY <1>3, <1>4, <1>8, <2>1, RestHas
  <2> QED BY <1>3, <2>2, <2>n
<1>13. ValueAfter(args, "--aspect") = s.aspect
  <2>n. PICK n \in Nat \ {0} : n = 9 OBVIOUS
  <2>1. n < all /\ rest[n] = "--aspect" /\ \A i \in 1..(n - 1) : rest[i] # "--aspect"
    BY <1>3, <1>9, <1>t, <2>n
  <2>2. ValueAfter(args, "--aspect") = rest[n + 1] BY <1>3, <1>4, <1>8, <2>1, RestHas
  <2> QED BY <1>3, <2>2, <2>n
<1>14. ValueAfter(args, "--lens") = s.lens
  <2>n. PICK n \in Nat \ {0} : n = 11 OBVIOUS
  <2>1. n < all /\ rest[n] = "--lens" /\ \A i \in 1..(n - 1) : rest[i] # "--lens"
    BY <1>3, <1>9, <1>t, <2>n
  <2>2. ValueAfter(args, "--lens") = rest[n + 1] BY <1>3, <1>4, <1>8, <2>1, RestHas
  <2> QED BY <1>3, <2>2, <2>n
<1>15. ValueAfter(args, "--zoom") = s.zoom
  <2>n. PICK n \in Nat \ {0} : n = 13 OBVIOUS
  <2>1. n < all /\ rest[n] = "--zoom" /\ \A i \in 1..(n - 1) : rest[i] # "--zoom"
    BY <1>3, <1>9, <1>t, <2>n
  <2>2. ValueAfter(args, "--zoom") = rest[n + 1] BY <1>3, <1>4, <1>8, <2>1, RestHas
  <2> QED BY <1>3, <2>2, <2>n
<1>16. ValueAfter(args, "--look") = s.look
  <2>n. PICK n \in Nat \ {0} : n = 15 OBVIOUS
  <2>1. n < all /\ rest[n] = "--look" /\ \A i \in 1..(n - 1) : rest[i] # "--look"
    BY <1>3, <1>9, <1>t, <2>n
  <2>2. ValueAfter(args, "--look") = rest[n + 1] BY <1>3, <1>4, <1>8, <2>1, RestHas
  <2> QED BY <1>3, <2>2, <2>n
<1> QED BY <1>5, <1>7, <1>10, <1>11, <1>12, <1>13, <1>14, <1>15, <1>16

ChecksumArguments(r) == IF r.checksum = "" THEN <<>> ELSE <<"--checksum", r.checksum>>
LEMMA ChecksumIsList ==
  ASSUME NEW r, NEW b, b = ChecksumArguments(r)
  PROVE  \E n \in Nat : List(b, n)
<1>1. CASE r.checksum = ""
  <2>z. PICK zero \in Nat : zero = 0 OBVIOUS
  <2>e. PICK e : e = <<>> OBVIOUS
  <2>1. b = e BY <1>1, <2>e DEF ChecksumArguments
  <2>2. Len(e) = 0 /\ e \in Seq({}) BY <2>e
  <2>3. List(b, zero) BY <2>1, <2>2, <2>z DEF List
  <2> QED BY <2>3
<1>2. CASE r.checksum # ""
  <2>z. PICK two \in Nat : two = 2 OBVIOUS
  <2>p. PICK p : p = <<"--checksum", r.checksum>> OBVIOUS
  <2>1. b = p BY <1>2, <2>p DEF ChecksumArguments
  <2>2. List(p, two) BY <2>p, <2>z, Two
  <2> QED BY <2>1, <2>2
<1> QED BY <1>1, <1>2

LEMMA RecordingArguments ==
  ASSUME NEW s, Plain(s), NEW command \in CommandNames, NEW r,
         NEW args, Line(s, command, DownloadArguments(s, r), args)
  PROVE  /\ args[2] = command /\ ValueAfter(args, "--host") = s.host
         /\ ValueAfter(args, "--token") = s.token /\ ValueAfter(args, "--recording-id") = r.id
<1>f. PICK f : f = IF r.filename = "" THEN "recording.mov" ELSE r.filename OBVIOUS
<1>g. PICK g : g = IF r.byteCount = "" THEN "0" ELSE r.byteCount OBVIOUS
<1>p. PICK p : p = r.downloadPath OBVIOUS
<1>a. PICK a : a = <<"--http-port", s.httpPort, "--token", s.token, "--recording-id", r.id,
                     "--filename", f, "--byte-count", g, "--download-path", p, "--download-dir",
                     "movies", "--progress">>
  OBVIOUS
<1>b. PICK b : b = ChecksumArguments(r) OBVIOUS
<1>r. PICK rest : rest = DownloadArguments(s, r) OBVIOUS
<1>m. PICK m \in Nat : m = 15 OBVIOUS
<1>1. /\ List(a, m) /\ a[1] = "--http-port" /\ a[2] = s.httpPort /\ a[3] = "--token"
      /\ a[4] = s.token /\ a[5] = "--recording-id" /\ a[6] = r.id
  <2>1. /\ a[1] = "--http-port" /\ a[2] = s.httpPort /\ a[3] = "--token"
        /\ a[4] = s.token /\ a[5] = "--recording-id" /\ a[6] = r.id /\ Len(a) = 15
    BY <1>a
  <2>2. a \in Seq({"--http-port", s.httpPort, "--token", s.token, "--recording-id", r.id,
                   "--filename", f, "--byte-count", g, "--download-path", p, "--download-dir",
                   "movies", "--progress"})
    BY <1>a
  <2> QED BY <1>m, <2>1, <2>2 DEF List
<1>2. PICK n \in Nat : List(b, n) BY <1>b, ChecksumIsList
<1>c. Joins(a, b, rest) BY <1>a, <1>b, <1>f, <1>g, <1>p, <1>r DEF ChecksumArguments, DownloadArguments, Joins
<1>l. PICK l \in Nat : l = m + n OBVIOUS
<1>3. /\ List(rest, l) /\ rest[1] = "--http-port" /\ rest[2] = s.httpPort /\ rest[3] = "--token"
      /\ rest[4] = s.token /\ rest[5] = "--recording-id" /\ rest[6] = r.id
  <2>1. List(rest, m + n) /\ \A i \in 1..m : rest[i] = a[i] BY <1>1, <1>2, <1>c, Joined
  <2> QED BY <1>1, <1>l, <1>m, <2>1
<1>4. Line(s, command, rest, args) BY <1>r
<1>5. args[2] = command /\ ValueAfter(args, "--host") = s.host BY <1>3, <1>4, HostIs
<1>6. {"--token", "--recording-id"} \subseteq OwnFlags BY DEF ArgumentFlags, OwnFlags
<1>9. ASSUME NEW flag \in {"--token", "--recording-id"}
      PROVE  s.token # flag /\ s.httpPort # flag
  BY <1>6, <1>9 DEF Plain, OwnFlags
<1>10. ValueAfter(args, "--token") = s.token
  <2>n. PICK k \in Nat \ {0} : k = 3 OBVIOUS
  <2>1. k < l /\ rest[k] = "--token" /\ \A i \in 1..(k - 1) : rest[i] # "--token"
    BY <1>3, <1>9, <1>l, <1>m, <2>n
  <2>2. ValueAfter(args, "--token") = rest[k + 1] BY <1>3, <1>4, <1>6, <2>1, RestHas
  <2> QED BY <1>3, <2>2, <2>n
<1>11. ValueAfter(args, "--recording-id") = r.id
  <2>n. PICK k \in Nat \ {0} : k = 5 OBVIOUS
  <2>1. k < l /\ rest[k] = "--recording-id" /\ \A i \in 1..(k - 1) : rest[i] # "--recording-id"
    BY <1>3, <1>9, <1>l, <1>m, <2>n
  <2>2. ValueAfter(args, "--recording-id") = rest[k + 1] BY <1>3, <1>4, <1>6, <2>1, RestHas
  <2> QED BY <1>3, <2>2, <2>n
<1> QED BY <1>5, <1>10, <1>11

SumField(r) == IF r.checksumSHA256 = "" THEN <<>> ELSE <<<<"checksum", r.checksumSHA256>>>>
LEMMA SumFieldIsList ==
  ASSUME NEW r, NEW b, b = SumField(r)
  PROVE  \E n \in 0..1 : List(b, n) /\ \A i \in 1..n : b[i][1] = "checksum"
<1>1. CASE r.checksumSHA256 = ""
  <2>z. PICK zero \in 0..1 : zero = 0 OBVIOUS
  <2>e. PICK e : e = <<>> OBVIOUS
  <2>1. b = e BY <1>1, <2>e DEF SumField
  <2>2. Len(e) = 0 /\ e \in Seq({}) BY <2>e
  <2>3. List(b, zero) BY <2>1, <2>2, <2>z DEF List
  <2>4. \A i \in 1..zero : b[i][1] = "checksum" BY <2>z
  <2> QED BY <2>3, <2>4
<1>2. CASE r.checksumSHA256 # ""
  <2>z. PICK one \in 0..1 : one = 1 OBVIOUS
  <2>f. PICK f : f = <<"checksum", r.checksumSHA256>> OBVIOUS
  <2>p. PICK p : p = <<f>> OBVIOUS
  <2>1. b = p BY <1>2, <2>f, <2>p DEF SumField
  <2>2. Len(p) = 1 /\ p \in Seq({f}) /\ p[1] = f BY <2>p
  <2>3. List(b, one) BY <2>1, <2>2, <2>z DEF List
  <2>4. f[1] = "checksum" BY <2>f
  <2>5. \A i \in 1..one : b[i][1] = "checksum" BY <2>1, <2>2, <2>4, <2>z
  <2> QED BY <2>3, <2>5
<1> QED BY <1>1, <1>2

LEMMA PrintedId ==
  ASSUME NEW r, NEW line, line = PrintRecording(r)
  PROVE  StringValue(ParseFields(line), "id") = r.id
<1>2. PICK f2 : f2 = <<"id", r.id>> OBVIOUS
<1>3. PICK f3 : f3 = <<"filename", r.filename>> OBVIOUS
<1>4. PICK f4 : f4 = <<"byteCount", r.byteCount>> OBVIOUS
<1>5. PICK f5 : f5 = <<"downloadPath", r.downloadPath>> OBVIOUS
<1>a. PICK a : a = <<"recording", f2, f3, f4, f5>> OBVIOUS
<1>b. PICK b : b = SumField(r) OBVIOUS
<1>k. PICK text : text = PrintRecording(r) OBVIOUS
<1>c. Joins(a, b, text) BY <1>2, <1>3, <1>4, <1>5, <1>a, <1>b, <1>k DEF Joins, PrintRecording, SumField
<1>m. PICK m \in Nat : m = 5 OBVIOUS
<1>6. List(a, m) /\ a[2] = f2 /\ a[3] = f3 /\ a[4] = f4 /\ a[5] = f5
  <2>1. Len(a) = 5 /\ a[2] = f2 /\ a[3] = f3 /\ a[4] = f4 /\ a[5] = f5 BY <1>a
  <2>2. a \in Seq({"recording", f2, f3, f4, f5}) BY <1>a
  <2> QED BY <1>m, <2>1, <2>2 DEF List
<1>7. PICK n \in 0..1 : List(b, n) /\ \A i \in 1..n : b[i][1] = "checksum" BY <1>b, SumFieldIsList
<1>8. /\ List(text, m + n) /\ \A i \in 1..m : text[i] = a[i]
      /\ \A i \in 1..n : text[m + i] = b[i]
  BY <1>6, <1>7, <1>c, Joined
<1>9. text[2] = f2 /\ text[3] = f3 /\ text[4] = f4 /\ text[5] = f5 BY <1>6, <1>8, <1>m
<1>l. PICK l \in Nat : l = m + n OBVIOUS
<1>n. /\ l \in 5..6 /\ Len(text) = l
      /\ l = 6 => text[6][1] = "checksum"
  <2>1. Len(text) = l BY <1>8, <1>l DEF List
  <2>2. l = 6 => 1 \in 1..n BY <1>l, <1>m
  <2>3. l = 6 => text[m + 1] = b[1] /\ b[1][1] = "checksum" BY <1>7, <1>8, <2>2
  <2> QED BY <1>l, <1>m, <2>1, <2>3
<1>10. /\ f2[1] = "id" /\ f2[2] = r.id /\ f3[1] = "filename" /\ f4[1] = "byteCount"
       /\ f5[1] = "downloadPath"
  BY <1>2, <1>3, <1>4, <1>5
<1> DEFINE parts == {i \in 2..Len(text) : text[i][1] # ""}
           names == {text[i][1] : i \in parts}
           last == CHOOSE i \in parts : text[i][1] = "id" /\ \A j \in parts : text[j][1] = "id" => i >= j
<1>s. l \in 5..6 BY <1>n
<1>11. 2 \in parts /\ text[2][1] = "id"
  <2>1. text[2][1] = "id" BY <1>9, <1>10
  <2>2. 2 \in 2..Len(text) BY <1>n
  <2>3. "id" # "" OBVIOUS
  <2> QED BY <2>1, <2>2, <2>3
<1>12. ASSUME NEW i \in parts, text[i][1] = "id" PROVE i = 2
  <2>1. i \in 2..l BY <1>n
  <2>2. i # 3 /\ i # 4 /\ i # 5 BY <1>9, <1>10, <1>12
  <2>3. i # 6
    <3> SUFFICES ASSUME i = 6 PROVE FALSE OBVIOUS
    <3>1. l = 6
      <4> HIDE DEF parts
      <4> QED BY <1>s, <2>1
    <3>2. text[6][1] = "id" BY <1>12
    <3>3. text[6][1] = "checksum" BY <1>n, <3>1
    <3> QED BY <3>2, <3>3
  <2>4. i \in 2..6
    <3> HIDE DEF parts
    <3> QED BY <1>s, <2>1
  <2> HIDE DEF parts
  <2> QED BY <2>2, <2>3, <2>4
<1>13. last = 2
  <2> HIDE DEF parts
  <2>1. \A j \in parts : text[j][1] = "id" => 2 >= j
    <3> SUFFICES ASSUME NEW j \in parts, text[j][1] = "id" PROVE 2 >= j OBVIOUS
    <3>1. j = 2 BY <1>12
    <3> QED BY <3>1
  <2> QED BY <1>11, <1>12, <2>1
<1>14. "id" \in names
  <2> HIDE DEF parts
  <2> QED BY <1>11
<1>15. ParseFields(text)["id"] = text[last][2] /\ "id" \in DOMAIN ParseFields(text)
  <2> HIDE DEF parts
  <2>1. ParseFields(text) = [k \in names |-> text[CHOOSE i \in parts : text[i][1] = k
                           /\ \A j \in parts : text[j][1] = k => i >= j][2]]
    BY DEF ParseFields, parts
  <2> QED BY <1>14, <2>1
<1>16. StringValue(ParseFields(text), "id") = f2[2]
  <2> HIDE DEF last
  <2> QED BY <1>9, <1>13, <1>15 DEF StringValue
<1> QED BY <1>10, <1>16, <1>k

LEMMA DescriptorId ==
  ASSUME NEW json, "id" \in DOMAIN json
  PROVE  Descriptor(json).id = json.id
<1>r. PICK r : r = RecordingFromJson(json) OBVIOUS
<1>1. r.id = json.id BY <1>r DEF RecordingFromJson, StringValue
<1>l. PICK line : line = PrintRecording(r) OBVIOUS
<1>f. PICK f : f = ParseFields(line) OBVIOUS
<1>2. StringValue(f, "id") = r.id BY <1>f, <1>l, PrintedId
<1>3. RecordingDescriptorFromFields(f).id = StringValue(f, "id") BY DEF RecordingDescriptorFromFields
<1> QED BY <1>1, <1>2, <1>3, <1>f, <1>l, <1>r DEF Descriptor

\* Objects are the same when they name the same fields and say the same of them.
LEMMA SameObject ==
  ASSUME NEW type, NEW names, NEW given, NEW said, NEW profile, \A k \in names : given[k] = said[k]
  PROVE  JsonObject(type, names, given, profile) = JsonObject(type, names, said, profile)
BY DEF JsonObject

ValuesGiven(command, args) == [k \in Fields(command) |-> ValueAfter(args, FlagOf(k))]
Said(s, json) ==
  [token |-> s.token, pairingCode |-> s.code, sessionID |-> s.session, recordingID |-> json.id]
Profile(s, command) ==
  IF command = "configure"
  THEN [resolution |-> Or(s.resolution, "4K"), aspectRatio |-> Or(s.aspect, "9:16"),
        orientation |-> Or(s.orientation, "auto"), lens |-> Or(s.lens, "wide"),
        zoomFactor |-> IF s.zoom = "" THEN 10 ELSE Atof(s.zoom),
        fps |-> IF s.fps = "" THEN 30 ELSE Atoi(s.fps), look |-> Or(s.look, "natural")]
  ELSE <<>>

LEMMA MeantIs ==
  ASSUME NEW s, NEW command, NEW json
  PROVE  Meant(s, command, json)
         = JsonObject(CommandType(command), {k \in Fields(command) : Said(s, json)[k] # ""},
                      Said(s, json), Profile(s, command))
BY DEF Meant, Fields, Said, Profile

LEMMA SentIs ==
  ASSUME NEW args, NEW command, args[2] = command, NEW profile,
         command = "configure" => profile = CaptureProfileFromArgs(args),
         command # "configure" => profile = <<>>
  PROVE  CommandForArgs(args)
         = IF \E f \in Required(command) : ValueAfter(args, f) = "" THEN "refused"
           ELSE JsonObject(CommandType(command),
                  {k \in Fields(command) : ValuesGiven(command, args)[k] # ""}, ValuesGiven(command, args), profile)
BY DEF CommandForArgs, EncodeCommandJson, ValuesGiven

\* What the flags of a command say is what the settings do.
Heard(s, command, json, args) ==
  /\ args[2] = command /\ ValueAfter(args, "--host") = s.host
  /\ command # "pair" => ValueAfter(args, "--token") = s.token
  /\ command = "pair" => ValueAfter(args, "--code") = s.code
  /\ command = "start" => ValueAfter(args, "--session") = s.session
  /\ command \in {"delete-recording", "download-recording"} =>
       ValueAfter(args, "--recording-id") = json.id
  /\ command = "configure" =>
       /\ ValueAfter(args, "--resolution") = s.resolution /\ ValueAfter(args, "--fps") = s.fps
       /\ ValueAfter(args, "--aspect") = s.aspect /\ ValueAfter(args, "--look") = s.look
       /\ ValueAfter(args, "--orientation") = s.orientation
       /\ ValueAfter(args, "--lens") = s.lens /\ ValueAfter(args, "--zoom") = s.zoom

LEMMA SettingsAreHeard ==
  ASSUME NEW s, Plain(s), NEW command \in CommandNames, NEW json, "id" \in DOMAIN json,
         NEW args, args = CommandArguments(s, command, Descriptor(json))
  PROVE  Heard(s, command, json, args)
<1>r. PICK r : r = Descriptor(json) OBVIOUS
<1>1. r.id = json.id BY <1>r, DescriptorId
<1>a. PICK line : line = CommandArguments(s, command, r) OBVIOUS
<1>2. Line(s, command, Extra(s, command, r), line)
  BY <1>a DEF CommandArguments, Opening, Joins, Line
<1>3. CASE command = "configure"
  <2>1. Extra(s, command, r) = CaptureProfileArguments(s) BY <1>3 DEF Extra
  <2>2. Line(s, command, CaptureProfileArguments(s), line) BY <1>2, <2>1
  <2>3. Heard(s, command, json, line) BY <1>3, <2>2, ProfileArguments DEF Heard
  <2> QED BY <1>a, <1>r, <2>3
<1>4. CASE command = "start"
  <2>1. Extra(s, command, r) = TokenArguments(s) \o <<"--session", s.session>> BY <1>4 DEF Extra
  <2>e. PICK rest : rest = Extra(s, command, r) OBVIOUS
  <2>v. PICK value : value = s.session OBVIOUS
  <2>2. TokenThen(s, "--session", value, rest) BY <2>1, <2>e, <2>v DEF TokenThen
  <2>f. "--session" \in OwnFlags \ {"--token"} BY DEF ArgumentFlags, OwnFlags
  <2>3. Line(s, command, rest, line) BY <1>2, <2>e
  <2>4. /\ line[2] = command /\ ValueAfter(line, "--host") = s.host
        /\ ValueAfter(line, "--token") = s.token /\ ValueAfter(line, "--session") = value
    BY <2>2, <2>3, <2>f, TokenThenOne
  <2>5. Heard(s, command, json, line) BY <1>4, <2>4, <2>v DEF Heard
  <2> QED BY <1>a, <1>r, <2>5
<1>5. CASE command = "pair"
  <2>1. Extra(s, command, r) = <<"--code", s.code>> BY <1>5 DEF Extra
  <2>2. Line(s, command, <<"--code", s.code>>, line) BY <1>2, <2>1
  <2>3. Heard(s, command, json, line) BY <1>5, <2>2, CodeAlone DEF Heard
  <2> QED BY <1>a, <1>r, <2>3
<1>6. CASE command = "delete-recording"
  <2>1. Extra(s, command, r) = TokenArguments(s) \o <<"--recording-id", r.id>> BY <1>6 DEF Extra
  <2>e. PICK rest : rest = Extra(s, command, r) OBVIOUS
  <2>v. PICK value : value = r.id OBVIOUS
  <2>2. TokenThen(s, "--recording-id", value, rest) BY <2>1, <2>e, <2>v DEF TokenThen
  <2>f. "--recording-id" \in OwnFlags \ {"--token"} BY DEF ArgumentFlags, OwnFlags
  <2>3. Line(s, command, rest, line) BY <1>2, <2>e
  <2>4. /\ line[2] = command /\ ValueAfter(line, "--host") = s.host
        /\ ValueAfter(line, "--token") = s.token /\ ValueAfter(line, "--recording-id") = value
    BY <2>2, <2>3, <2>f, TokenThenOne
  <2>5. Heard(s, command, json, line) BY <1>1, <1>6, <2>4, <2>v DEF Heard
  <2> QED BY <1>a, <1>r, <2>5
<1>7. CASE command = "download-recording"
  <2>1. Extra(s, command, r) = DownloadArguments(s, r) BY <1>7 DEF Extra
  <2>2. Line(s, command, DownloadArguments(s, r), line) BY <1>2, <2>1
  <2>3. Heard(s, command, json, line) BY <1>1, <1>7, <2>2, RecordingArguments DEF Heard
  <2> QED BY <1>a, <1>r, <2>3
<1>8. CASE command \notin {"configure", "start", "pair", "delete-recording", "download-recording"}
  <2>1. Extra(s, command, r) = TokenArguments(s) BY <1>8 DEF Extra
  <2>2. Line(s, command, TokenArguments(s), line) BY <1>2, <2>1
  <2>3. Heard(s, command, json, line) BY <1>8, <2>2, TokenAlone DEF Heard
  <2> QED BY <1>a, <1>r, <2>3
<1> QED BY <1>3, <1>4, <1>5, <1>6, <1>7, <1>8

\* What has been heard is sent, when nothing is missing.
LEMMA HeardIsSent ==
  ASSUME NEW s, Plain(s), NEW command \in CommandNames, NEW json,
         NEW args, Heard(s, command, json, args)
  PROVE  CommandForArgs(args)
         = IF \E f \in Required(command) : ValueAfter(args, f) = "" THEN "refused"
           ELSE Meant(s, command, json)
<1>1. args[2] = command BY DEF Heard
<1>p. PICK profile : profile = Profile(s, command) OBVIOUS
<1>2. command = "configure" => profile = CaptureProfileFromArgs(args)
  BY <1>p DEF CaptureProfileFromArgs, IntAfter, TenthsAfter, Heard, Profile
<1>3. command # "configure" => profile = <<>> BY <1>p DEF Profile
<1>g. PICK given : given = ValuesGiven(command, args) OBVIOUS
<1>s. PICK said : said = Said(s, json) OBVIOUS
<1>4. \A k \in Fields(command) : given[k] = said[k]
  BY <1>g, <1>s DEF ValuesGiven, Said, Fields, FlagOf, Heard, CommandNames
<1>n. PICK names : names = {k \in Fields(command) : given[k] # ""} OBVIOUS
<1>5. names = {k \in Fields(command) : said[k] # ""} BY <1>4, <1>n
<1>t. PICK type : type = CommandType(command) OBVIOUS
<1>6. JsonObject(type, names, given, profile) = JsonObject(type, names, said, profile)
  BY <1>4, <1>n, SameObject
<1>7. Meant(s, command, json) = JsonObject(type, names, said, profile)
  BY <1>5, <1>p, <1>s, <1>t, MeantIs
<1>8. CommandForArgs(args)
      = IF \E f \in Required(command) : ValueAfter(args, f) = "" THEN "refused"
        ELSE JsonObject(type, names, given, profile)
  BY <1>1, <1>2, <1>3, <1>g, <1>n, <1>t, SentIs
<1> QED BY <1>6, <1>7, <1>8

\* The phone is told what the settings mean, about the recording that it has listed, whatever a
\* recording and a session are called: remote_camera.cpp's arguments, reashoot_mac.cpp's reading
\* of them and control_protocol.cpp's JSON.
THEOREM CommandsSayWhatIsMeant ==
  \A s \in Settings, command \in CommandNames, json \in Recordings : SaysWhatIsMeant(s, command, json)
<1> SUFFICES ASSUME NEW s \in Settings, NEW command \in CommandNames, NEW json \in Recordings
             PROVE  SaysWhatIsMeant(s, command, json)
  OBVIOUS
<1>1. Plain(s) /\ "id" \in DOMAIN json BY WireAssumption DEF Plain, PlainSettings
<1>a. PICK args : args = CommandArguments(s, command, Descriptor(json)) OBVIOUS
<1>2. Heard(s, command, json, args) BY <1>1, <1>a, SettingsAreHeard
<1>m. PICK missing \in BOOLEAN :
        missing = (\/ s.host = "" \/ (s.token = "" /\ command \notin {"pair", "ping"})
                   \/ (command = "pair" /\ s.code = "")
                   \/ (command \in {"delete-recording", "download-recording"} /\ json.id = ""))
  OBVIOUS
<1>3. (\E f \in Required(command) : ValueAfter(args, f) = "") <=> missing
  BY <1>2, <1>m DEF Required, Heard, CommandNames
<1>4. CommandForArgs(args) = IF missing THEN "refused" ELSE Meant(s, command, json)
  BY <1>1, <1>2, <1>3, HeardIsSent
<1> QED BY <1>4, <1>a, <1>m DEF SaysWhatIsMeant

(***************************************************************************)
(* Hashes: the blocks of a message.                                        *)
(***************************************************************************)
\* What a block may hold: bytes of the file, and what finishes it.
Octets == Bytes \cup {"80", "0"} \cup {Length(n)[i] : n \in Nat, i \in 1..Counter}
Message == Seq(Octets)

LEMMA SizesAre == Block \in Nat /\ Block > 1 /\ Counter \in Nat /\ Counter > 0 /\ Counter < Block
BY BlockAssumption

LEMMA Remainder ==
  ASSUME NEW b \in Nat \ {0}, NEW q \in Int, NEW r \in 0..(b - 1), NEW n, n = b * q + r
  PROVE  n % b = r
OBVIOUS

LEMMA MinIs ==
  ASSUME NEW S, S \subseteq Int, NEW m \in S, \A k \in S : m <= k
  PROVE  Min(S) = m
<1>1. \A x \in S : (\A k \in S : x <= k) => x = m
  <2> SUFFICES ASSUME NEW x \in S, \A k \in S : x <= k PROVE x = m OBVIOUS
  <2>1. x <= m /\ m <= x /\ x \in Int /\ m \in Int OBVIOUS
  <2> QED BY <2>1
<1>2. \E x \in S : \A k \in S : x <= k OBVIOUS
<1>3. Min(S) \in S /\ \A k \in S : Min(S) <= k BY <1>2, Zenon DEF Min
<1> QED BY <1>1, <1>3

LEMMA MinOfTwo ==
  ASSUME NEW a \in Int, NEW b \in Int
  PROVE  Min({a, b}) = IF a <= b THEN a ELSE b
<1>1. CASE a <= b
  <2>1. Min({a, b}) = a BY <1>1, MinIs
  <2> QED BY <1>1, <2>1
<1>2. CASE ~(a <= b)
  <2>1. Min({a, b}) = b BY <1>2, MinIs
  <2> QED BY <1>2, <2>1
<1> QED BY <1>1, <1>2

(***************************************************************************)
(* The blocks one after another.                                           *)
(***************************************************************************)
FlatBody(seqs, f, i) == IF i = 1 THEN seqs[i] ELSE f[i - 1] \o seqs[i]
Flats(seqs) == CHOOSE f : f = [i \in 1..Len(seqs) |-> FlatBody(seqs, f, i)]

LEMMA FlatsDef ==
  ASSUME NEW seqs, Len(seqs) \in Nat
  PROVE  /\ Flats(seqs) = [i \in 1..Len(seqs) |-> FlatBody(seqs, Flats(seqs), i)]
         /\ Len(seqs) # 0 => FlattenSeq(seqs) = Flats(seqs)[Len(seqs)]
<1> DEFINE Is(f, k) == f = [i \in 1..k |-> FlatBody(seqs, f, i)]
           S == {k \in Nat : \E f : Is(f, k)}
<1>1. 0 \in S
  <2>1. Is([i \in 1..0 |-> 0], 0) OBVIOUS
  <2> QED BY <2>1
<1>2. ASSUME NEW k \in S PROVE k + 1 \in S
  <2>1. PICK f : Is(f, k) BY <1>2
  <2> DEFINE g == [n \in 1..(k + 1) |-> IF n = k + 1 THEN FlatBody(seqs, f, k + 1) ELSE f[n]]
  <2>2. k \in Nat BY <1>2
  <2>3. \A n \in 1..k : g[n] = f[n] BY <2>2
  <2>4. \A n \in 1..(k + 1) : FlatBody(seqs, g, n) = FlatBody(seqs, f, n)
    <3> SUFFICES ASSUME NEW n \in 1..(k + 1), n # 1 PROVE FlatBody(seqs, g, n) = FlatBody(seqs, f, n)
      BY DEF FlatBody
    <3>1. n - 1 \in 1..k BY <2>2
    <3>2. g[n - 1] = f[n - 1] BY <2>3, <3>1
    <3> HIDE DEF g
    <3> QED BY <3>2 DEF FlatBody
  <2>5. \A n \in 1..k : f[n] = FlatBody(seqs, f, n) BY <2>1
  <2>6. \A n \in 1..(k + 1) : g[n] = FlatBody(seqs, g, n)
    <3> HIDE DEF Is
    <3> QED BY <2>2, <2>4, <2>5
  <2>7. g = [n \in 1..(k + 1) |-> g[n]] OBVIOUS
  <2>8. Is(g, k + 1)
    <3> HIDE DEF g
    <3> QED BY <2>6, <2>7
  <2>9. \E h : Is(h, k + 1) BY <2>8
  <2> HIDE DEF Is
  <2> QED BY <2>2, <2>9
<1>3. S = Nat
  <2> HIDE DEF Is
  <2> QED BY <1>1, <1>2, NatSet
<1>4. \E f : Is(f, Len(seqs)) BY <1>3
<1>5. Flats(seqs) = CHOOSE f : Is(f, Len(seqs)) BY DEF Flats, FlatBody
<1>6. Is(Flats(seqs), Len(seqs))
  <2> HIDE DEF Is
  <2> QED BY <1>4, <1>5
<1>7. Len(seqs) # 0 => FlattenSeq(seqs) = Flats(seqs)[Len(seqs)] BY DEF Flats, FlatBody, FlattenSeq
<1> QED BY <1>6, <1>7

LEMMA FlattenOneMore ==
  ASSUME NEW seqs \in Seq(Message), NEW m \in Message
  PROVE  FlattenSeq(Append(seqs, m)) = FlattenSeq(seqs) \o m
<1>p. PICK more : more = Append(seqs, m) OBVIOUS
<1> DEFINE M == Message
<1>0. seqs \in Seq(M) /\ m \in M OBVIOUS
<1>1. /\ Len(more) = Len(seqs) + 1 /\ Len(seqs) \in Nat /\ Len(more) \in Nat
      /\ more[Len(seqs) + 1] = m /\ \A n \in 1..Len(seqs) : more[n] = seqs[n]
  <2> HIDE DEF M
  <2> QED BY <1>0, <1>p
<1>l. PICK l \in Nat : l = Len(seqs) BY <1>1
<1>k. PICK k \in Nat : k = Len(more) /\ k = l + 1 BY <1>1, <1>l
<1>a. PICK a : a = Flats(seqs) OBVIOUS
<1>b. PICK b : b = Flats(more) OBVIOUS
<1>2. /\ \A i \in 1..l : a[i] = FlatBody(seqs, a, i)
      /\ l # 0 => FlattenSeq(seqs) = a[l]
  <2>1. a = [i \in 1..l |-> FlatBody(seqs, a, i)] /\ (l # 0 => FlattenSeq(seqs) = a[l])
    BY <1>1, <1>a, <1>l, FlatsDef
  <2> QED BY <2>1
<1>3. /\ \A i \in 1..k : b[i] = FlatBody(more, b, i)
      /\ FlattenSeq(more) = b[k]
  <2>1. b = [i \in 1..k |-> FlatBody(more, b, i)] /\ (k # 0 => FlattenSeq(more) = b[k])
    BY <1>1, <1>b, <1>k, FlatsDef
  <2> QED BY <2>1, <1>k
<1>4. CASE l = 0
  <2>1. b[1] = more[1] /\ k = 1 BY <1>3, <1>4, <1>k DEF FlatBody
  <2>2. FlattenSeq(more) = m BY <1>1, <1>3, <1>4, <1>l, <2>1
  <2>3. FlattenSeq(seqs) = <<>>
    <3>1. seqs = <<>> BY <1>4, <1>l, EmptySeq
    <3> QED BY <3>1, <1>4, <1>l DEF FlattenSeq
  <2>4. <<>> \o m = m BY ConcatEmptySeq DEF Message
  <2> QED BY <1>p, <2>2, <2>3, <2>4
<1>5. CASE l # 0
  <2> DEFINE S == {n \in 0..(l - 1) : a[n + 1] = b[n + 1]}
  <2>1. 0 \in S
    <3>1. 1 \in 1..l /\ 1 \in 1..k BY <1>5, <1>k
    <3>2. a[1] = seqs[1] BY <1>2, <3>1 DEF FlatBody
    <3>3. b[1] = more[1] BY <1>3, <3>1 DEF FlatBody
    <3>4. a[1] = b[1] BY <1>1, <1>l, <3>1, <3>2, <3>3
    <3>5. a[0 + 1] = b[0 + 1] BY <3>4
    <3>6. 0 \in 0..(l - 1) BY <1>5
    <3> QED BY <3>5, <3>6
  <2>2. ASSUME NEW n \in 0..(l - 1), n \in S, n < l - 1 PROVE n + 1 \in S
    <3>p. PICK p \in Nat : p = n + 2 OBVIOUS
    <3>o. PICK o \in Nat : o = n + 1 OBVIOUS
    <3>1. p \in 1..l /\ p \in 1..k /\ p # 1 /\ p - 1 = o /\ o + 1 = p /\ o \in 0..(l - 1)
      BY <1>k, <2>2, <3>p, <3>o
    <3>2. a[p] = a[o] \o seqs[p]
      <4> HIDE DEF S
      <4>1. a[p] = FlatBody(seqs, a, p) BY <1>2, <3>1
      <4> QED BY <4>1, <3>1 DEF FlatBody
    <3>3. b[p] = b[o] \o more[p]
      <4> HIDE DEF S
      <4>1. b[p] = FlatBody(more, b, p) BY <1>3, <3>1
      <4> QED BY <4>1, <3>1 DEF FlatBody
    <3>4. a[o] = b[o] BY <2>2, <3>o
    <3>5. more[p] = seqs[p] BY <1>1, <1>l, <3>1
    <3>6. a[o + 1] = b[o + 1]
      <4> HIDE DEF S
      <4> QED BY <3>1, <3>2, <3>3, <3>4, <3>5
    <3>7. o \in S BY <3>1, <3>6
    <3> QED BY <3>7, <3>o
  <2>3. 0..(l - 1) \subseteq S
    <3> HIDE DEF S
    <3>1. l - 1 \in Nat BY <1>5
    <3> QED BY <2>1, <2>2, <3>1, UpTo
  <2>4. a[l] = b[l]
    <3>1. l - 1 \in S /\ (l - 1) + 1 = l
      <4> HIDE DEF S
      <4> QED BY <1>5, <2>3
    <3> QED BY <3>1
  <2> HIDE DEF S
  <2>5. b[k] = b[l] \o m
    <3>1. k \in 1..k /\ k # 1 /\ k - 1 = l BY <1>5, <1>k
    <3>2. b[k] = FlatBody(more, b, k) BY <1>3, <3>1
    <3>3. b[k] = b[k - 1] \o more[k] BY <3>1, <3>2 DEF FlatBody
    <3>4. more[k] = m BY <1>1, <1>k, <1>l
    <3> QED BY <3>1, <3>3, <3>4
  <2> QED BY <1>2, <1>3, <1>5, <1>p, <2>4, <2>5
<1> QED BY <1>4, <1>5

\* Full blocks, which hold q times a block of the text.
Filled(blocks, flat, q) ==
  /\ blocks \in Seq(Message) /\ \A i \in DOMAIN blocks : Len(blocks[i]) = Block
  /\ flat = FlattenSeq(blocks) /\ flat \in Message /\ q \in Nat /\ Len(flat) = Block * q

LEMMA NothingFilled == Filled(<<>>, <<>>, 0)
<1>e. PICK e : e = <<>> OBVIOUS
<1>1. Len(e) = 0 /\ e \in Seq(Message) /\ e \in Seq(Octets) /\ DOMAIN e = {} BY <1>e
<1>2. FlattenSeq(e) = e BY <1>1 DEF FlattenSeq
<1>3. Block * 0 = 0 BY SizesAre
<1>4. \A i \in DOMAIN e : Len(e[i]) = Block BY <1>1
<1>5. Filled(e, e, 0) BY <1>1, <1>2, <1>3, <1>4 DEF Filled, Message
<1> QED BY <1>5, <1>e

LEMMA OneMoreFilled ==
  ASSUME NEW blocks, NEW flat, NEW q, Filled(blocks, flat, q), NEW b \in Message, Len(b) = Block
  PROVE  Filled(Append(blocks, b), flat \o b, q + 1)
<1> DEFINE M == Message
<1>0. blocks \in Seq(M) /\ b \in M /\ \A i \in DOMAIN blocks : Len(blocks[i]) = Block BY DEF Filled
<1>m. PICK more : more = Append(blocks, b) OBVIOUS
<1>1. more \in Seq(M) /\ \A i \in DOMAIN more : (i \in DOMAIN blocks /\ more[i] = blocks[i]) \/ more[i] = b
  <2> HIDE DEF M
  <2> QED BY <1>0, <1>m
<1>2. \A i \in DOMAIN more : Len(more[i]) = Block BY <1>0, <1>1
<1>3. FlattenSeq(more) = flat \o b BY <1>m, FlattenOneMore DEF Filled
<1>f. flat \in Message BY DEF Filled
<1>4. flat \o b \in Message /\ Len(flat \o b) = Len(flat) + Len(b) BY <1>f DEF Message
<1>5. Block * (q + 1) = Block * q + Block BY SizesAre DEF Filled
<1>6. Len(flat \o b) = Block * (q + 1) BY <1>4, <1>5 DEF Filled
<1>7. Filled(more, flat \o b, q + 1) BY <1>1, <1>2, <1>3, <1>4, <1>6 DEF Filled
<1> QED BY <1>7, <1>m

\* A message in two parts.
TwoParts(seq, c, a, b) ==
  /\ a \in Message /\ b \in Message /\ a \o b = seq
  /\ Len(a) = c /\ Len(b) = Len(seq) - c

LEMMA CutsInTwo ==
  ASSUME NEW seq \in Message, NEW c \in Nat, c <= Len(seq)
  PROVE  TwoParts(seq, c, SubSeq(seq, 1, c), SubSeq(seq, c + 1, Len(seq)))
<1>l. PICK l \in Nat : l = Len(seq) BY LenProperties DEF Message
<1>1. \A i \in 1..l : seq[i] \in Octets BY <1>l DEF Message
<1>2. c <= l BY <1>l
<1>3. SubSeq(seq, 1, c) \in Seq(Octets) /\ Len(SubSeq(seq, 1, c)) = IF 1 <= c THEN c - 1 + 1 ELSE 0
  <2>1. \A i \in 1..c : seq[i] \in Octets BY <1>1, <1>2
  <2> QED BY <2>1, SubSeqProperties
<1>4. /\ SubSeq(seq, c + 1, l) \in Seq(Octets)
      /\ Len(SubSeq(seq, c + 1, l)) = IF c + 1 <= l THEN l - (c + 1) + 1 ELSE 0
  <2>1. \A i \in (c + 1)..l : seq[i] \in Octets BY <1>1, <1>2
  <2> QED BY <2>1, SubSeqProperties
<1>5. SubSeq(seq, 1, c) \o SubSeq(seq, c + 1, l) = seq
  <2>1. 1 \in 1..(Len(seq) + 1) /\ c \in (1 - 1)..Len(seq) /\ l \in c..Len(seq) BY <1>l, <1>2
  <2>2. SubSeq(seq, 1, c) \o SubSeq(seq, c + 1, l) = SubSeq(seq, 1, l)
    BY <2>1, ConcatAdjacentSubSeq DEF Message
  <2>3. SubSeq(seq, 1, Len(seq)) = seq BY SubSeqFull DEF Message
  <2> QED BY <1>l, <2>2, <2>3
<1>a. PICK a : a = SubSeq(seq, 1, c) OBVIOUS
<1>b. PICK b : b = SubSeq(seq, c + 1, l) OBVIOUS
<1>6. a \in Message /\ Len(a) = c BY <1>3, <1>a DEF Message
<1>7. b \in Message /\ Len(b) = l - c BY <1>2, <1>4, <1>b DEF Message
<1>8. a \o b = seq BY <1>5, <1>a, <1>b
<1>9. TwoParts(seq, c, a, b) BY <1>6, <1>7, <1>8, <1>l DEF TwoParts
<1> QED BY <1>9, <1>a, <1>b, <1>l

LEMMA Associates ==
  ASSUME NEW a \in Message, NEW b \in Message, NEW c \in Message
  PROVE  (a \o b) \o c = a \o (b \o c)
BY ConcatAssociative DEF Message

LEMMA Concats ==
  ASSUME NEW a \in Message, NEW b \in Message
  PROVE  a \o b \in Message /\ Len(a \o b) = Len(a) + Len(b)
BY DEF Message

LEMMA LengthIs ==
  ASSUME NEW a \in Message PROVE Len(a) \in Nat
BY DEF Message

LEMMA Nothing == <<>> \in Message /\ Len(<<>>) = 0 /\ \A a \in Message : a \o <<>> = a
<1>1. <<>> \in Seq(Octets) /\ Len(<<>>) = 0 OBVIOUS
<1>2. \A a \in Message : a \o <<>> = a BY ConcatEmptySeq DEF Message
<1> QED BY <1>1, <1>2 DEF Message

\* What has been put into the hash, of a text: full blocks, the block begun, the rest.
Hashed(blocks, block, total, rest, text) ==
  \E flat, q : /\ Filled(blocks, flat, q)
               /\ block \in Message /\ Len(block) < Block /\ rest \in Message
               /\ (flat \o block) \o rest = text /\ total = Len(text) - Len(rest)
HashedState(s, text, n) ==
  /\ s = Hashing(s.blocks, s.block, s.total, s.rest)
  /\ Hashed(s.blocks, s.block, s.total, s.rest, text) /\ Len(s.rest) <= n

LEMMA FieldsOfHashing ==
  ASSUME NEW blocks, NEW block, NEW total, NEW rest
  PROVE  /\ Hashing(blocks, block, total, rest).blocks = blocks
         /\ Hashing(blocks, block, total, rest).block = block
         /\ Hashing(blocks, block, total, rest).total = total
         /\ Hashing(blocks, block, total, rest).rest = rest
BY DEF Hashing

LEMMA StateIs ==
  ASSUME NEW blocks, NEW block, NEW total, NEW rest, NEW text, NEW n,
         Hashed(blocks, block, total, rest, text), Len(rest) <= n
  PROVE  HashedState(Hashing(blocks, block, total, rest), text, n)
BY FieldsOfHashing DEF HashedState

\* What a part of the rest makes of the block.
MovedOn(flat, block, rest, c, a, b) ==
  /\ block \o a \in Message /\ Len(block \o a) = Len(block) + c
  /\ flat \o (block \o a) \in Message
  /\ (flat \o (block \o a)) \o b = (flat \o block) \o rest
LEMMA MovesOn ==
  ASSUME NEW flat \in Message, NEW block \in Message, NEW rest \in Message, NEW c,
         NEW a, NEW b, TwoParts(rest, c, a, b)
  PROVE  MovedOn(flat, block, rest, c, a, b)
<1>1. a \in Message /\ b \in Message /\ a \o b = rest /\ Len(a) = c BY DEF TwoParts
<1>2. block \o a \in Message /\ Len(block \o a) = Len(block) + c BY <1>1, Concats
<1>3. flat \o (block \o a) \in Message /\ flat \o block \in Message BY <1>2, Concats
<1>4. (flat \o (block \o a)) \o b = flat \o ((block \o a) \o b)
  <2>1. PICK x \in Message : x = block \o a BY <1>2
  <2>2. b \in Message BY <1>1
  <2>3. (flat \o x) \o b = flat \o (x \o b) BY <2>2, Associates
  <2> QED BY <2>1, <2>3
<1>5. (block \o a) \o b = block \o (a \o b) BY <1>1, Associates
<1>6. flat \o (block \o rest) = (flat \o block) \o rest BY Associates
<1> QED BY <1>1, <1>2, <1>3, <1>4, <1>5, <1>6 DEF MovedOn

LEMMA MoveKeeps ==
  ASSUME NEW s, NEW text \in Message, NEW n \in Nat, HashedState(s, text, n + 1)
  PROVE  HashedState(Move(s), text, n)
<1>b. PICK blocks, block, total, rest :
        /\ s.blocks = blocks /\ s.block = block /\ s.total = total /\ s.rest = rest
        /\ s = Hashing(blocks, block, total, rest)
  BY DEF HashedState
<1>1. Hashed(blocks, block, total, rest, text) /\ Len(rest) <= n + 1 BY <1>b DEF HashedState
<1>2. PICK flat, q : /\ Filled(blocks, flat, q)
               /\ block \in Message /\ Len(block) < Block /\ rest \in Message
               /\ (flat \o block) \o rest = text /\ total = Len(text) - Len(rest)
  BY <1>1 DEF Hashed
<1>3. flat \in Message BY <1>2 DEF Filled
<1>4. CASE rest = <<>>
  <2>1. Move(s) = s BY <1>4, <1>b DEF Move
  <2>2. Len(rest) <= n BY <1>4, Nothing
  <2>3. HashedState(Hashing(blocks, block, total, rest), text, n) BY <1>1, <2>2, StateIs
  <2> QED BY <1>b, <2>1, <2>3
<1>5. CASE rest # <<>>
  <2>l. PICK l \in Nat : l = Len(rest) BY <1>2, LengthIs
  <2>k. PICK k \in Nat : k = Len(block) BY <1>2, LengthIs
  <2>1. l # 0 /\ l <= n + 1 /\ k < Block /\ Block \in Nat
    BY <1>1, <1>2, <1>5, <2>k, <2>l, EmptySeq, SizesAre DEF Message
  <2>c. PICK c : c = Min({Block - Len(s.block), Len(s.rest)}) OBVIOUS
  <2>2. c \in Nat /\ c # 0 /\ c <= l /\ k + c <= Block
    <3>1. Min({Block - k, l}) = IF Block - k <= l THEN Block - k ELSE l BY <2>1, MinOfTwo
    <3>2. c = Min({Block - k, l}) BY <1>b, <2>c, <2>k, <2>l
    <3> QED BY <2>1, <3>1, <3>2
  <2>a. PICK a : a = SubSeq(rest, 1, c) OBVIOUS
  <2>b. PICK b : b = SubSeq(rest, c + 1, Len(rest)) OBVIOUS
  <2>3. TwoParts(rest, c, a, b) BY <1>2, <2>2, <2>a, <2>b, <2>l, CutsInTwo
  <2>f. PICK full : full = block \o a OBVIOUS
  <2>4. /\ full \in Message /\ Len(full) = k + c /\ flat \o full \in Message
        /\ (flat \o full) \o b = text
    <3>1. MovedOn(flat, block, rest, c, a, b)
      <4>1. block \in Message /\ rest \in Message BY <1>2
      <4> QED BY <1>3, <2>3, <4>1, MovesOn
    <3> QED BY <1>2, <2>f, <2>k, <3>1 DEF MovedOn
  <2>5. b \in Message /\ Len(b) = l - c BY <2>3, <2>l DEF TwoParts
  <2>6. total + c = Len(text) - Len(b)
    <3>1. Len(text) \in Nat BY LengthIs
    <3> QED BY <1>2, <2>2, <2>5, <2>l, <3>1
  <2>7. Len(b) <= n BY <2>1, <2>2, <2>5
  <2>8. Move(s) = IF Len(full) = Block THEN Hashing(Append(blocks, full), <<>>, total + c, b)
                  ELSE Hashing(blocks, full, total + c, b)
    BY <1>5, <1>b, <2>a, <2>b, <2>c, <2>f DEF Move
  <2>9. CASE Len(full) = Block
    <3>1. Filled(Append(blocks, full), flat \o full, q + 1) BY <1>2, <2>4, <2>9, OneMoreFilled
    <3>2. (flat \o full) \o <<>> = flat \o full BY <2>4, Nothing
    <3>e. PICK e \in Message : e = <<>> /\ Len(e) = 0 BY Nothing
    <3>g. PICK g : g = flat \o full OBVIOUS
    <3>m. PICK more : more = Append(blocks, full) OBVIOUS
    <3>5. Len(e) < Block BY <3>e, SizesAre
    <3>6. Filled(more, g, q + 1) BY <3>1, <3>g, <3>m
    <3>7. (g \o e) \o b = text BY <2>4, <3>2, <3>e, <3>g
    <3>8. Hashed(more, e, total + c, b, text) BY <2>5, <2>6, <3>5, <3>6, <3>7 DEF Hashed
    <3>3. Hashed(Append(blocks, full), <<>>, total + c, b, text) BY <3>8, <3>e, <3>m
    <3>4. HashedState(Hashing(Append(blocks, full), <<>>, total + c, b), text, n)
      BY <2>7, <3>3, StateIs
    <3> QED BY <2>8, <2>9, <3>4
  <2>10. CASE Len(full) # Block
    <3>1. Len(full) < Block BY <2>1, <2>2, <2>4, <2>10
    <3>2. Hashed(blocks, full, total + c, b, text) BY <1>2, <2>4, <2>5, <2>6, <3>1 DEF Hashed
    <3>3. HashedState(Hashing(blocks, full, total + c, b), text, n) BY <2>7, <3>2, StateIs
    <3> QED BY <2>8, <2>10, <3>3
  <2> QED BY <2>9, <2>10
<1> QED BY <1>4, <1>5

MovedBody(state, data, f, n) ==
  IF n = 0 THEN Hashing(state.blocks, state.block, state.total, data) ELSE Move(f[n - 1])

LEMMA MovedDef ==
  ASSUME NEW state, NEW data, Len(data) \in Nat
  PROVE  Moved(state, data) = [n \in 0..Len(data) |-> MovedBody(state, data, Moved(state, data), n)]
<1> DEFINE Is(f, k) == f = [n \in 0..k |-> MovedBody(state, data, f, n)]
           S == {k \in Nat : \E f : Is(f, k)}
<1>1. 0 \in S
  <2>1. Is([n \in 0..0 |-> MovedBody(state, data, <<>>, 0)], 0) BY DEF MovedBody
  <2> QED BY <2>1
<1>2. ASSUME NEW k \in S PROVE k + 1 \in S
  <2>1. PICK f : Is(f, k) BY <1>2
  <2> DEFINE g == [n \in 0..(k + 1) |-> IF n = k + 1 THEN MovedBody(state, data, f, k + 1) ELSE f[n]]
  <2>2. k \in Nat BY <1>2
  <2>3. \A n \in 0..k : g[n] = f[n] BY <2>2
  <2>4. \A n \in 0..(k + 1) : MovedBody(state, data, g, n) = MovedBody(state, data, f, n)
    <3> HIDE DEF g
    <3> SUFFICES ASSUME NEW n \in 0..(k + 1), n # 0
                 PROVE MovedBody(state, data, g, n) = MovedBody(state, data, f, n)
      BY DEF MovedBody
    <3>1. n - 1 \in 0..k BY <2>2
    <3>2. g[n - 1] = f[n - 1] BY <2>3, <3>1
    <3> QED BY <3>2 DEF MovedBody
  <2>5. \A n \in 0..k : f[n] = MovedBody(state, data, f, n) BY <2>1
  <2>6. \A n \in 0..(k + 1) : g[n] = MovedBody(state, data, g, n)
    <3> HIDE DEF Is
    <3> QED BY <2>2, <2>4, <2>5
  <2>7. g = [n \in 0..(k + 1) |-> g[n]] OBVIOUS
  <2>8. Is(g, k + 1)
    <3> HIDE DEF g
    <3> QED BY <2>6, <2>7
  <2>9. \E h : Is(h, k + 1) BY <2>8
  <2> HIDE DEF Is
  <2> QED BY <2>2, <2>9
<1>3. S = Nat
  <2> HIDE DEF Is
  <2> QED BY <1>1, <1>2, NatSet
<1>4. \E f : Is(f, Len(data)) BY <1>3
<1>5. Moved(state, data) = CHOOSE f : Is(f, Len(data)) BY DEF Moved, MovedBody
<1>6. Is(Moved(state, data), Len(data))
  <2> HIDE DEF Is
  <2> QED BY <1>4, <1>5
<1> QED BY <1>6

\* Data that are given are put into the hash to the last byte.
LEMMA UpdateKeeps ==
  ASSUME NEW state, NEW text \in Message, NEW data \in Message,
         HashedState(Hashing(state.blocks, state.block, state.total, data), text, Len(data))
  PROVE  HashedState(Update(state, data), text, 0)
<1>l. PICK l \in Nat : l = Len(data) BY LengthIs
<1>f. PICK f : f = Moved(state, data) OBVIOUS
<1>1. \A n \in 0..l : f[n] = MovedBody(state, data, f, n)
  <2>1. f = [n \in 0..l |-> MovedBody(state, data, f, n)] BY <1>f, <1>l, MovedDef
  <2> QED BY <2>1
<1> DEFINE S == {n \in 0..l : HashedState(f[n], text, l - n)}
<1>2. 0 \in S
  <2>1. f[0] = Hashing(state.blocks, state.block, state.total, data) BY <1>1 DEF MovedBody
  <2>2. l - 0 = l OBVIOUS
  <2>3. HashedState(f[0], text, l) BY <1>l, <2>1
  <2> QED BY <2>2, <2>3
<1>3. ASSUME NEW n \in 0..l, n \in S, n < l PROVE n + 1 \in S
  <2>m. PICK m \in Nat : m = n + 1 /\ m \in 0..l /\ m # 0 /\ m - 1 = n BY <1>3
  <2>r. PICK r \in Nat : r = l - m BY <1>3, <2>m
  <2>1. l - n = r + 1 BY <2>m, <2>r
  <2>2. HashedState(f[n], text, r + 1) BY <1>3, <2>1
  <2> HIDE DEF S
  <2>3. f[m] = Move(f[n])
    <3>1. f[m] = MovedBody(state, data, f, m) BY <1>1, <2>m
    <3> QED BY <2>m, <3>1 DEF MovedBody
  <2>4. HashedState(Move(f[n]), text, r) BY <2>2, MoveKeeps
  <2>5. m \in S BY <2>3, <2>4, <2>m, <2>r DEF S
  <2> QED BY <2>5, <2>m
<1>4. 0..l \subseteq S
  <2> HIDE DEF S
  <2> QED BY <1>2, <1>3, UpTo
<1>5. HashedState(f[l], text, 0)
  <2>1. l \in S /\ l - l = 0
    <3> HIDE DEF S
    <3> QED BY <1>4
  <2> QED BY <2>1
<1> QED BY <1>5, <1>f, <1>l DEF Update

\* What is given next belongs to the text.
LEMMA FeedsOn ==
  ASSUME NEW s, NEW text \in Message, NEW data \in Message, HashedState(s, text, 0)
  PROVE  HashedState(Hashing(s.blocks, s.block, s.total, data), text \o data, Len(data))
<1>b. PICK blocks, block, total, rest :
        s.blocks = blocks /\ s.block = block /\ s.total = total /\ s.rest = rest
  OBVIOUS
<1>1. Hashed(blocks, block, total, rest, text) /\ Len(rest) <= 0 BY <1>b DEF HashedState
<1>2. PICK flat, q : /\ Filled(blocks, flat, q)
               /\ block \in Message /\ Len(block) < Block /\ rest \in Message
               /\ (flat \o block) \o rest = text /\ total = Len(text) - Len(rest)
  BY <1>1 DEF Hashed
<1>3. flat \in Message /\ block \in Message /\ rest \in Message BY <1>2 DEF Filled
<1>4. rest = <<>> /\ Len(rest) = 0
  <2>1. Len(rest) = 0 BY <1>1, <1>3, LengthIs
  <2> QED BY <1>3, <2>1, EmptySeq DEF Message
<1>5. flat \o block = text
  <2>1. PICK x \in Message : x = flat \o block BY <1>3, Concats
  <2>2. x \o <<>> = x BY Nothing
  <2> QED BY <1>2, <1>4, <2>1, <2>2
<1>6. PICK whole \in Message : whole = text \o data /\ Len(whole) = Len(text) + Len(data) BY Concats
<1>7. total = Len(whole) - Len(data) BY <1>2, <1>4, <1>6, LengthIs
<1>8. (flat \o block) \o data = whole BY <1>5, <1>6
<1>9. Hashed(blocks, block, total, data, whole) BY <1>2, <1>7, <1>8 DEF Hashed
<1>10. Len(data) <= Len(data) BY LengthIs
<1>11. HashedState(Hashing(blocks, block, total, data), whole, Len(data)) BY <1>9, <1>10, StateIs
<1> QED BY <1>6, <1>11, <1>b

UpdatedBody(file, buffer, f, n) ==
  IF n = 0 THEN Hashing(<<>>, <<>>, 0, <<>>)
  ELSE Update(f[n - 1], SubSeq(file, (n - 1) * buffer + 1, Min({n * buffer, Len(file)})))

LEMMA UpdatedDef ==
  ASSUME NEW file, NEW buffer, Len(file) \in Nat
  PROVE  Updated(file, buffer) = [n \in 0..Len(file) |-> UpdatedBody(file, buffer, Updated(file, buffer), n)]
<1> DEFINE Is(f, k) == f = [n \in 0..k |-> UpdatedBody(file, buffer, f, n)]
           S == {k \in Nat : \E f : Is(f, k)}
<1>1. 0 \in S
  <2>1. Is([n \in 0..0 |-> UpdatedBody(file, buffer, <<>>, 0)], 0) BY DEF UpdatedBody
  <2> QED BY <2>1
<1>2. ASSUME NEW k \in S PROVE k + 1 \in S
  <2>1. PICK f : Is(f, k) BY <1>2
  <2> DEFINE g == [n \in 0..(k + 1) |-> IF n = k + 1 THEN UpdatedBody(file, buffer, f, k + 1) ELSE f[n]]
  <2>2. k \in Nat BY <1>2
  <2>3. \A n \in 0..k : g[n] = f[n] BY <2>2
  <2>4. \A n \in 0..(k + 1) : UpdatedBody(file, buffer, g, n) = UpdatedBody(file, buffer, f, n)
    <3> HIDE DEF g
    <3> SUFFICES ASSUME NEW n \in 0..(k + 1), n # 0
                 PROVE UpdatedBody(file, buffer, g, n) = UpdatedBody(file, buffer, f, n)
      BY DEF UpdatedBody
    <3>1. n - 1 \in 0..k BY <2>2
    <3>2. g[n - 1] = f[n - 1] BY <2>3, <3>1
    <3> QED BY <3>2 DEF UpdatedBody
  <2>5. \A n \in 0..k : f[n] = UpdatedBody(file, buffer, f, n) BY <2>1
  <2>6. \A n \in 0..(k + 1) : g[n] = UpdatedBody(file, buffer, g, n)
    <3> HIDE DEF Is
    <3> QED BY <2>2, <2>4, <2>5
  <2>7. g = [n \in 0..(k + 1) |-> g[n]] OBVIOUS
  <2>8. Is(g, k + 1)
    <3> HIDE DEF g
    <3> QED BY <2>6, <2>7
  <2>9. \E h : Is(h, k + 1) BY <2>8
  <2> HIDE DEF Is
  <2> QED BY <2>2, <2>9
<1>3. S = Nat
  <2> HIDE DEF Is
  <2> QED BY <1>1, <1>2, NatSet
<1>4. \E f : Is(f, Len(file)) BY <1>3
<1>5. Updated(file, buffer) = CHOOSE f : Is(f, Len(file)) BY DEF Updated, UpdatedBody
<1>6. Is(Updated(file, buffer), Len(file))
  <2> HIDE DEF Is
  <2> QED BY <1>4, <1>5
<1> QED BY <1>6


\* How much of the file has been read when a buffer ends at x.
ReadUpTo(file, x) == Min({x, Len(file)})
Reads(file, x, y, a, b, c) ==
  /\ a = SubSeq(file, 1, ReadUpTo(file, x)) /\ a \in Message
  /\ b = SubSeq(file, x + 1, ReadUpTo(file, y)) /\ b \in Message
  /\ c = SubSeq(file, 1, ReadUpTo(file, y)) /\ c \in Message /\ a \o b = c

\* A buffer is read.
LEMMA BufferIs ==
  ASSUME NEW file \in Message, NEW x \in Nat, NEW y \in Nat, x <= y
  PROVE  \E p, q, r : Reads(file, x, y, p, q, r)
<1>l. PICK l \in Nat : l = Len(file) BY LengthIs
<1>a. PICK a \in Nat : a = ReadUpTo(file, x) /\ a = (IF x <= l THEN x ELSE l)
  BY <1>l, MinOfTwo DEF ReadUpTo
<1>b. PICK b \in Nat : b = ReadUpTo(file, y) /\ b = (IF y <= l THEN y ELSE l)
  BY <1>l, MinOfTwo DEF ReadUpTo
<1>2. a <= b /\ b <= l /\ (a # x => x + 1 > b /\ a = b) BY <1>a, <1>b
<1>3. \A i \in 1..l : file[i] \in Octets BY <1>l DEF Message
<1>x. PICK w \in Nat : w = x + 1 OBVIOUS
<1>p. PICK p : p = SubSeq(file, 1, a) OBVIOUS
<1>q. PICK q : q = SubSeq(file, w, b) OBVIOUS
<1>r. PICK r : r = SubSeq(file, 1, b) OBVIOUS
<1>4. p \in Message
  <2>1. \A i \in 1..a : file[i] \in Octets BY <1>2, <1>3
  <2>2. SubSeq(file, 1, a) \in Seq(Octets) BY <2>1, SubSeqProperties
  <2> QED BY <1>p, <2>2 DEF Message
<1>5. q \in Message
  <2>1. \A i \in w..b : file[i] \in Octets BY <1>2, <1>3, <1>x
  <2>2. SubSeq(file, w, b) \in Seq(Octets) BY <2>1, SubSeqProperties
  <2> QED BY <1>q, <2>2 DEF Message
<1>8. r \in Message
  <2>1. \A i \in 1..b : file[i] \in Octets BY <1>2, <1>3
  <2>2. SubSeq(file, 1, b) \in Seq(Octets) BY <2>1, SubSeqProperties
  <2> QED BY <1>r, <2>2 DEF Message
<1>6. CASE a = x
  <2>1. 1 \in 1..(Len(file) + 1) /\ a \in (1 - 1)..Len(file) /\ b \in a..Len(file) BY <1>l, <1>2
  <2>2. SubSeq(file, 1, a) \o SubSeq(file, a + 1, b) = SubSeq(file, 1, b)
    BY <2>1, ConcatAdjacentSubSeq DEF Message
  <2>3. p \o q = r BY <1>6, <1>p, <1>q, <1>r, <1>x, <2>2
  <2>4. Reads(file, x, y, p, q, r)
    BY <1>4, <1>5, <1>8, <1>a, <1>b, <1>p, <1>q, <1>r, <1>x, <2>3 DEF Reads
  <2> QED BY <2>4
<1>7. CASE a # x
  <2>1. q = <<>>
    <3>1. b < w BY <1>2, <1>7, <1>x
    <3> QED BY <1>q, <3>1, SubSeqEmpty
  <2>2. p \o <<>> = p BY <1>4, Nothing
  <2>3. p = r BY <1>2, <1>7, <1>p, <1>r
  <2>4. p \o q = r BY <2>1, <2>2, <2>3
  <2>5. Reads(file, x, y, p, q, r)
    BY <1>4, <1>5, <1>8, <1>a, <1>b, <1>p, <1>q, <1>r, <1>x, <2>4 DEF Reads
  <2> QED BY <2>5
<1> QED BY <1>6, <1>7

LEMMA Products ==
  ASSUME NEW n \in Nat, NEW buffer \in Nat \ {0}
  PROVE  /\ n * buffer \in Nat /\ (n + 1) * buffer = n * buffer + buffer
         /\ n <= n * buffer
<1>1. n * buffer \in Nat /\ (n + 1) * buffer = n * buffer + buffer OBVIOUS
<1>2. n * buffer = n * (buffer - 1) + n OBVIOUS
<1>3. n * (buffer - 1) >= 0 OBVIOUS
<1>4. n * (buffer - 1) \in Int OBVIOUS
<1> QED BY <1>1, <1>2, <1>3, <1>4

\* After its last buffer the whole file is in the hash.
LEMMA FileIsRead ==
  ASSUME NEW file \in Message, NEW buffer \in Nat \ {0}
  PROVE  HashedState(Updated(file, buffer)[Len(file)], file, 0)
<1>l. PICK l \in Nat : l = Len(file) BY LengthIs
<1>f. PICK f : f = Updated(file, buffer) OBVIOUS
<1>1. \A n \in 0..l : f[n] = UpdatedBody(file, buffer, f, n)
  <2>1. f = [n \in 0..l |-> UpdatedBody(file, buffer, f, n)] BY <1>f, <1>l, UpdatedDef
  <2> QED BY <2>1
<1> DEFINE Upto(n) == SubSeq(file, 1, ReadUpTo(file, n * buffer))
           S == {n \in 0..l : HashedState(f[n], Upto(n), 0)}
<1>2. 0 \in S
  <2>e. PICK e \in Message : e = <<>> /\ Len(e) = 0 BY Nothing
  <2>1. f[0] = Hashing(e, e, 0, e)
    <3>1. f[0] = UpdatedBody(file, buffer, f, 0) BY <1>1
    <3>2. UpdatedBody(file, buffer, f, 0) = Hashing(<<>>, <<>>, 0, <<>>) BY DEF UpdatedBody
    <3> QED BY <3>1, <3>2, <2>e
  <2>2. ReadUpTo(file, 0 * buffer) = 0
    <3>1. 0 * buffer = 0 OBVIOUS
    <3>2. Min({0, l}) = 0 BY MinOfTwo
    <3> QED BY <1>l, <3>1, <3>2 DEF ReadUpTo
  <2>3. Upto(0) = e BY <2>2, <2>e, SubSeqEmpty
  <2>4. Filled(e, e, 0) BY <2>e, NothingFilled
  <2>5. (e \o e) \o e = e /\ 0 = Len(e) - Len(e) /\ Len(e) < Block BY <2>e, Nothing, SizesAre
  <2>6. Hashed(e, e, 0, e, e) BY <2>e, <2>4, <2>5 DEF Hashed
  <2>7. HashedState(Hashing(e, e, 0, e), e, 0) BY <2>6, <2>e, StateIs
  <2> HIDE DEF Upto
  <2>8. 0 \in 0..l /\ HashedState(f[0], Upto(0), 0) BY <2>1, <2>3, <2>7
  <2> QED BY <2>8
<1>3. ASSUME NEW n \in 0..l, n \in S, n < l PROVE n + 1 \in S
  <2>m. PICK m \in Nat : m = n + 1 /\ m \in 0..l /\ m # 0 /\ m - 1 = n BY <1>3
  <2>x. PICK x \in Nat : x = n * buffer BY Products
  <2>y. PICK y \in Nat : y = m * buffer BY Products
  <2>1. y = x + buffer /\ x <= y
    <3>1. n \in Nat OBVIOUS
    <3>2. (n + 1) * buffer = n * buffer + buffer BY <3>1, Products
    <3>3. y = x + buffer BY <2>m, <2>x, <2>y, <3>2
    <3> QED BY <3>3
  <2>2. PICK t, data, whole : Reads(file, x, y, t, data, whole) BY <2>1, BufferIs
  <2>3. t = Upto(n) /\ whole = Upto(m) /\ t \in Message /\ data \in Message /\ whole \in Message
    BY <2>2, <2>x, <2>y DEF Reads
  <2>4. HashedState(f[n], t, 0) BY <1>3, <2>3
  <2> HIDE DEF S, Upto
  <2>5. f[m] = Update(f[n], data)
    <3>1. f[m] = UpdatedBody(file, buffer, f, m) BY <1>1, <2>m
    <3>2. f[m] = Update(f[m - 1], SubSeq(file, (m - 1) * buffer + 1, Min({m * buffer, Len(file)})))
      BY <2>m, <3>1 DEF UpdatedBody
    <3>3. data = SubSeq(file, x + 1, Min({y, Len(file)})) BY <2>2 DEF Reads, ReadUpTo
    <3> QED BY <2>m, <2>x, <2>y, <3>2, <3>3
  <2>w. whole = t \o data BY <2>2 DEF Reads
  <2>g. PICK g : g = f[n] OBVIOUS
  <2>6. HashedState(Hashing(g.blocks, g.block, g.total, data), whole, Len(data))
    BY <2>3, <2>4, <2>g, <2>w, FeedsOn
  <2>7. HashedState(Update(g, data), whole, 0) BY <2>3, <2>6, UpdateKeeps
  <2>8. m \in S BY <2>3, <2>5, <2>7, <2>g, <2>m DEF S
  <2> QED BY <2>8, <2>m
<1>4. 0..l \subseteq S
  <2> HIDE DEF S
  <2> QED BY <1>2, <1>3, UpTo
<1>5. HashedState(f[l], Upto(l), 0)
  <2>1. l \in S
    <3> HIDE DEF S
    <3> QED BY <1>4
  <2> HIDE DEF Upto
  <2> QED BY <2>1
<1>6. Upto(l) = file
  <2>x. PICK x \in Nat : x = l * buffer BY Products
  <2>1. l <= x BY <2>x, Products
  <2>2. Min({x, l}) = l BY <2>1, MinOfTwo
  <2>3. SubSeq(file, 1, l) = file BY <1>l, SubSeqFull DEF Message
  <2> QED BY <1>l, <2>2, <2>3, <2>x DEF ReadUpTo
<1> HIDE DEF Upto
<1> QED BY <1>5, <1>6, <1>f, <1>l

\* n is b times q and r.
Remains(n, b, q, r) == q \in Int /\ r \in 0..(b - 1) /\ n = b * q + r

LEMMA WhatRemains ==
  ASSUME NEW b \in Nat \ {0}, NEW n, NEW q, NEW r, Remains(n, b, q, r)
  PROVE  n % b = r
BY DEF Remains

\* The least number that fills up to a remainder.
LEMMA LeastFill ==
  ASSUME NEW base \in Nat, NEW z \in Nat, z < Block, NEW r \in Nat, r < Block, NEW t \in Int,
         base + z = Block * t + r
  PROVE  Min({x \in 0..Block : (base + x) % Block = r}) = z
<1> DEFINE X == {x \in 0..Block : (base + x) % Block = r}
<1>b. Block \in Nat \ {0} BY SizesAre
<1>p. PICK p \in Int : p = Block * t BY <1>b
<1>1. z \in X
  <2>1. r \in 0..(Block - 1) BY <1>b
  <2>2. (base + z) % Block = r BY <1>b, <2>1, Remainder
  <2> QED BY <1>b, <2>2
<1>2. \A x \in X : z <= x
  <2> SUFFICES ASSUME NEW x \in Nat, x < z, (base + x) % Block = r PROVE FALSE
    BY <1>b
  <2>d. PICK d \in Nat : d = z - x OBVIOUS
  <2>1. d # 0 /\ d < Block /\ base + x = (p + r) - d BY <1>b, <1>p, <2>d
  <2>2. CASE d <= r
    <3>1. PICK e \in Nat : e = r - d BY <2>2
    <3>2. e \in 0..(Block - 1) /\ base + x = Block * t + e BY <1>b, <1>p, <2>1, <3>1
    <3>4. Remains(base + x, Block, t, e) BY <3>2 DEF Remains
    <3>3. (base + x) % Block = e BY <1>b, <3>4, WhatRemains
    <3> QED BY <2>1, <3>1, <3>3
  <2>3. CASE ~(d <= r)
    <3>1. PICK e \in Nat : e = (Block + r) - d BY <1>b, <2>1
    <3>q. PICK q \in Int : q = t - 1 OBVIOUS
    <3>2. Block * q = p - Block BY <1>b, <1>p, <3>q
    <3>3. e \in 0..(Block - 1) /\ base + x = Block * q + e BY <1>b, <2>1, <2>3, <3>1, <3>2
    <3>4. (base + x) % Block = e
      <4>1. Remains(base + x, Block, q, e) BY <3>3 DEF Remains
      <4> QED BY <1>b, <4>1, WhatRemains
    <3> QED BY <1>b, <2>1, <3>1, <3>4
  <2> QED BY <2>2, <2>3
<1>3. X \subseteq Int BY <1>b
<1> HIDE DEF X
<1>4. Min(X) = z BY <1>1, <1>2, <1>3, MinIs
<1> QED BY <1>4 DEF X

LEMMA ZerosAre ==
  ASSUME NEW n \in Nat PROVE Zeros(n) \in Message /\ Len(Zeros(n)) = n
BY DEF Zeros, Message, Octets

LEMMA ZerosJoined ==
  ASSUME NEW m \in Nat, NEW n \in Nat PROVE Zeros(m) \o Zeros(n) = Zeros(m + n)
BY DEF Zeros

LEMMA LengthsAre ==
  ASSUME NEW n \in Nat PROVE Length(n) \in Message /\ Len(Length(n)) = Counter
<1>1. \A i \in 1..Counter : Length(n)[i] \in Octets BY DEF Octets
<1>2. Counter \in Nat BY SizesAre
<1>3. Length(n) = [i \in 1..Counter |-> Length(n)[i]] BY DEF Length
<1>4. [i \in 1..Counter |-> Length(n)[i]] \in Seq(Octets) BY <1>1, <1>2
<1>5. Len([i \in 1..Counter |-> <<n, i>>]) = Counter BY <1>2
<1>6. Len(Length(n)) = Counter BY <1>5 DEF Length
<1> QED BY <1>3, <1>4, <1>6 DEF Message

LEMMA Marked ==
  ASSUME NEW m \in Message
  PROVE  Append(m, "80") \in Message /\ Len(Append(m, "80")) = Len(m) + 1
<1>1. "80" \in Octets BY DEF Octets
<1> QED BY <1>1 DEF Message

LEMMA MarkedLast ==
  ASSUME NEW a \in Message, NEW b \in Message
  PROVE  Append(a \o b, "80") = a \o Append(b, "80")
<1>1. "80" \in Octets BY DEF Octets
<1> QED BY <1>1 DEF Message

\* A message as the standard pads it with z zeros.
Padded(m, z) == (Append(m, "80") \o Zeros(z)) \o Length(Len(m))

LEMMA StandardPads ==
  ASSUME NEW m \in Message, NEW z \in Nat, z < Block, NEW t \in Int,
         Len(m) + 1 + Counter + z = Block * t
  PROVE  /\ ShaMessage(m) = Padded(m, z)
         /\ Sha1Message(m) = Padded(m, z)
<1>l. PICK l \in Nat : l = Len(m) BY LengthIs
<1>s. Block \in Nat /\ Counter \in Nat /\ 0 < Counter /\ Counter < Block BY SizesAre
<1>p. PICK p \in Int : p = Block * t BY <1>s
<1>1. ShaMessage(m) = Padded(m, z)
  <2>b. PICK base \in Nat : base = l + 1 + Counter BY <1>s
  <2>1. 0 \in Nat /\ 0 < Block /\ base + z = Block * t + 0 BY <1>l, <1>p, <1>s, <2>b
  <2>2. Min({x \in 0..Block : (base + x) % Block = 0}) = z
    <3>1. \A j \in Int : base + z = Block * j + 0
                           => Min({x \in 0..Block : (base + x) % Block = 0}) = z
      BY <2>1, LeastFill
    <3> QED BY <2>1, <3>1
  <2>3. \A x \in 0..Block : Len(m) + 1 + x + Counter = base + x BY <1>l, <1>s, <2>b
  <2>4. {x \in 0..Block : (Len(m) + 1 + x + Counter) % Block = 0}
          = {x \in 0..Block : (base + x) % Block = 0}
    BY <2>3
  <2> QED BY <2>2, <2>4 DEF ShaMessage, Padded
<1>2. Sha1Message(m) = Padded(m, z)
  <2>b. PICK base \in Nat : base = l + 1 BY <1>s
  <2>r. PICK r \in Nat : r = Block - Counter BY <1>s
  <2>q. PICK q \in Int : q = t - 1 OBVIOUS
  <2>i. q \in Int OBVIOUS
  <2>0. Block * q = p - Block BY <1>p, <1>s, <2>q
  <2>1. r < Block /\ base + z = Block * q + r BY <1>l, <1>p, <1>s, <2>b, <2>r, <2>0
  <2>2. Min({x \in 0..Block : (base + x) % Block = r}) = z
    <3>1. \A j \in Int : base + z = Block * j + r
                           => Min({x \in 0..Block : (base + x) % Block = r}) = z
      BY <2>1, LeastFill
    <3> QED BY <2>1, <2>i, <3>1
  <2>3. Len(Append(m, "80")) = base BY <1>l, <2>b, Marked
  <2> QED BY <2>2, <2>3, <2>r DEF Sha1Message, PaddedTo, Padded
<1> QED BY <1>1, <1>2

\* The text is the full blocks and the block begun.
Whole(blocks, block, total, text, flat, q) ==
  /\ Filled(blocks, flat, q) /\ block \in Message /\ Len(block) < Block
  /\ flat \o block = text /\ total = Len(text)

LEMMA NothingIsLeft ==
  ASSUME NEW s, NEW text \in Message, HashedState(s, text, 0)
  PROVE  \E flat, q : Whole(s.blocks, s.block, s.total, text, flat, q)
<1>b. PICK blocks, block, total, rest :
        s.blocks = blocks /\ s.block = block /\ s.total = total /\ s.rest = rest
  OBVIOUS
<1>1. Hashed(blocks, block, total, rest, text) /\ Len(rest) <= 0 BY <1>b DEF HashedState
<1>2. PICK flat, q : /\ Filled(blocks, flat, q)
               /\ block \in Message /\ Len(block) < Block /\ rest \in Message
               /\ (flat \o block) \o rest = text /\ total = Len(text) - Len(rest)
  BY <1>1 DEF Hashed
<1>3. flat \in Message /\ block \in Message /\ rest \in Message BY <1>2 DEF Filled
<1>4. rest = <<>> /\ Len(rest) = 0
  <2>1. Len(rest) = 0 BY <1>1, <1>3, LengthIs
  <2> QED BY <1>3, <2>1, EmptySeq DEF Message
<1>5. flat \o block = text
  <2>1. PICK x \in Message : x = flat \o block BY <1>3, Concats
  <2>2. x \o <<>> = x BY Nothing
  <2> QED BY <1>2, <1>4, <2>1, <2>2
<1>6. total = Len(text) BY <1>2, <1>4, LengthIs
<1>7. Whole(blocks, block, total, text, flat, q) BY <1>2, <1>5, <1>6 DEF Whole
<1> QED BY <1>7, <1>b

\* The finished blocks, of which flat is what they hold.
Finished(blocks, flat, text) == \E q : Filled(blocks, flat, q) /\ flat = ShaMessage(text)

OneMore(flat, marked, z, l, b) ==
  /\ b = (marked \o Zeros(z)) \o Length(l) /\ b \in Message /\ Len(b) = Len(marked) + z + Counter
  /\ flat \o b = ((flat \o marked) \o Zeros(z)) \o Length(l)

LEMMA OneBlockMore ==
  ASSUME NEW flat \in Message, NEW marked \in Message, NEW z \in Nat, NEW l \in Nat
  PROVE  \E b : OneMore(flat, marked, z, l, b)
<1>z. PICK zeros : zeros \in Message /\ zeros = Zeros(z) /\ Len(zeros) = z BY ZerosAre
<1>n. PICK size : size \in Message /\ size = Length(l) /\ Len(size) = Counter BY LengthsAre
<1>c. PICK c \in Nat : c = Counter BY SizesAre
<1>0. zeros \in Message /\ size \in Message BY <1>z, <1>n
<1>1. PICK x \in Message : x = marked \o zeros /\ Len(x) = Len(marked) + Len(zeros) BY <1>0, Concats
<1>2. PICK b \in Message : b = x \o size /\ Len(b) = Len(x) + Len(size) BY <1>0, Concats
<1>3. (flat \o x) \o size = flat \o (x \o size) BY <1>0, Associates
<1>4. (flat \o marked) \o zeros = flat \o (marked \o zeros) BY <1>0, Associates
<1>5. Len(marked) \in Nat BY LengthIs
<1>6. Len(b) = Len(marked) + z + Counter BY <1>1, <1>2, <1>5, <1>z, <1>n, <1>c
<1>7. b = (marked \o zeros) \o size /\ flat \o b = ((flat \o marked) \o zeros) \o size
  BY <1>1, <1>2, <1>3, <1>4
<1>8. OneMore(flat, marked, z, l, b) BY <1>6, <1>7, <1>z, <1>n DEF OneMore
<1> QED BY <1>8

TwoMore(flat, marked, y, z, l, a, b) ==
  /\ a = marked \o Zeros(y) /\ b = (<<>> \o Zeros(z)) \o Length(l)
  /\ a \in Message /\ Len(a) = Len(marked) + y
  /\ b \in Message /\ Len(b) = z + Counter
  /\ (flat \o a) \o b = ((flat \o marked) \o Zeros(y + z)) \o Length(l)

LEMMA TwoBlocksMore ==
  ASSUME NEW flat \in Message, NEW marked \in Message, NEW y \in Nat, NEW z \in Nat, NEW l \in Nat
  PROVE  \E a, b : TwoMore(flat, marked, y, z, l, a, b)
<1>y. PICK former : former \in Message /\ former = Zeros(y) /\ Len(former) = y BY ZerosAre
<1>z. PICK latter : latter \in Message /\ latter = Zeros(z) /\ Len(latter) = z BY ZerosAre
<1>n. PICK size : size \in Message /\ size = Length(l) /\ Len(size) = Counter BY LengthsAre
<1>f. former \in Message BY <1>y
<1>g. latter \in Message BY <1>z
<1>h. size \in Message BY <1>n
<1>3. (flat \o marked) \o former = flat \o (marked \o former) BY <1>f, Associates
<1>5. (former \o latter) \o size = former \o (latter \o size) BY <1>f, <1>g, <1>h, Associates
<1>a. PICK a : a \in Message /\ a = marked \o former /\ Len(a) = Len(marked) + Len(former)
  BY <1>f, Concats
<1>b. PICK b : b \in Message /\ b = latter \o size /\ Len(b) = Len(latter) + Len(size)
  BY <1>g, <1>h, Concats
<1>m. PICK m : m \in Message /\ m = flat \o marked BY Concats
<1>t. PICK both : both \in Message /\ both = former \o latter BY <1>f, <1>g, Concats
<1>1. <<>> \o latter = latter BY <1>g, ConcatEmptySeq DEF Message
<1>i. m \in Message BY <1>m
<1>j. b \in Message BY <1>b
<1>k. both \in Message BY <1>t
<1>4. (m \o former) \o b = m \o (former \o b) BY <1>f, <1>i, <1>j, Associates
<1>8. (m \o both) \o size = m \o (both \o size) BY <1>h, <1>i, <1>k, Associates
<1>7. both = Zeros(y + z) BY <1>t, <1>y, <1>z, ZerosJoined
<1>9. (flat \o a) \o b = (m \o both) \o size BY <1>3, <1>4, <1>5, <1>8, <1>a, <1>b, <1>m, <1>t
<1>10. b = (<<>> \o latter) \o size BY <1>1, <1>b
<1>11. Len(a) = Len(marked) + y /\ Len(b) = z + Counter BY <1>a, <1>b, <1>n, <1>y, <1>z
<1>12. TwoMore(flat, marked, y, z, l, a, b)
  BY <1>7, <1>9, <1>10, <1>11, <1>a, <1>b, <1>m, <1>n, <1>y, <1>z DEF TwoMore
<1> QED BY <1>12

LEMMA FinishPads ==
  ASSUME NEW s, NEW text \in Message, HashedState(s, text, 0)
  PROVE  (\E flat : Finished(Finish(s), flat, text)) /\ Sha1Message(text) = ShaMessage(text)
<1>b. PICK blocks, block, total : s.blocks = blocks /\ s.block = block /\ s.total = total
  OBVIOUS
<1>1. PICK flat, q : Whole(blocks, block, total, text, flat, q) BY <1>b, NothingIsLeft
<1>2. /\ Filled(blocks, flat, q) /\ block \in Message /\ Len(block) < Block
      /\ flat \o block = text /\ total = Len(text)
  BY <1>1 DEF Whole
<1>3. flat \in Message /\ q \in Nat /\ Len(flat) = Block * q BY <1>2 DEF Filled
<1>k. PICK k \in Nat : k = Len(block) BY <1>2, LengthIs
<1>l. PICK l \in Nat : l = Len(text) BY LengthIs
<1>s. Block \in Nat /\ Counter \in Nat /\ 0 < Counter /\ Counter < Block BY SizesAre
<1>p. PICK p \in Nat : p = Block * q BY <1>s, <1>3
<1>4. l = p + k
  <2>1. Len(flat \o block) = Len(flat) + Len(block) BY <1>2, <1>3, Concats
  <2> QED BY <1>2, <1>3, <1>k, <1>l, <1>p, <2>1
<1>m. PICK marked \in Message : marked = Append(block, "80") /\ Len(marked) = k + 1
  BY <1>2, <1>k, Marked
<1>5. flat \o marked = Append(text, "80") BY <1>2, <1>3, <1>m, MarkedLast
<1>6. CASE k + 1 > Block - Counter
  <2>0. k + 1 <= Block BY <1>2, <1>k, <1>s
  <2>y. PICK y \in Nat : y = Block - (k + 1) BY <1>s, <2>0
  <2>z. PICK z \in Nat : z = Block - Counter BY <1>s
  <2>a. PICK a, b : TwoMore(flat, marked, y, z, l, a, b) BY <1>3, TwoBlocksMore
  <2>1. /\ a \in Message /\ Len(a) = Block /\ b \in Message /\ Len(b) = Block
        /\ (flat \o a) \o b = (Append(text, "80") \o Zeros(y + z)) \o Length(l)
        /\ a = marked \o Zeros(y) /\ b = (<<>> \o Zeros(z)) \o Length(l)
    <3>1. /\ a \in Message /\ Len(a) = Len(marked) + y /\ b \in Message /\ Len(b) = z + Counter
          /\ (flat \o a) \o b = ((flat \o marked) \o Zeros(y + z)) \o Length(l)
          /\ a = marked \o Zeros(y) /\ b = (<<>> \o Zeros(z)) \o Length(l)
      BY <2>a, Zenon DEF TwoMore
    <3>m. Len(marked) = k + 1 BY <1>m
    <3>2. Len(marked) + y = Block /\ z + Counter = Block BY <3>m, <1>s, <2>y, <2>z
    <3> QED BY <1>5, <3>1, <3>2
  <2>2. Finish(s) = Append(Append(blocks, a), b)
    <3>1. Finish(s) = LET spills == Len(marked) > Block - Counter
                          whole == IF spills THEN Append(blocks, marked \o Zeros(Block - Len(marked)))
                                   ELSE blocks
                          last == IF spills THEN <<>> ELSE marked
                      IN Append(whole, last \o Zeros(Block - Counter - Len(last)) \o Length(total))
      BY <1>b, <1>m DEF Finish
    <3>2. Len(marked) > Block - Counter BY <1>6, <1>m
    <3>3. Block - Counter - Len(<<>>) = z /\ Block - Len(marked) = y BY <1>m, <1>s, <2>y, <2>z
    <3> QED BY <1>2, <1>l, <2>1, <3>1, <3>2, <3>3
  <2>3. Filled(Append(blocks, a), flat \o a, q + 1) BY <1>2, <2>1, OneMoreFilled
  <2>4. Filled(Append(Append(blocks, a), b), (flat \o a) \o b, (q + 1) + 1)
    BY <2>1, <2>3, OneMoreFilled
  <2>w. PICK w \in Nat : w = y + z OBVIOUS
  <2>t. PICK t \in Int : t = q + 2 BY <1>3
  <2>5. Block * t = p + Block + Block BY <1>3, <1>p, <1>s, <2>t
  <2>6. w < Block /\ Len(text) + 1 + Counter + w = Block * t
    BY <1>4, <1>6, <1>l, <1>s, <2>5, <2>w, <2>y, <2>z
  <2>7. ShaMessage(text) = Padded(text, w) /\ Sha1Message(text) = Padded(text, w)
    BY <2>6, StandardPads
  <2>8. (flat \o a) \o b = ShaMessage(text) BY <1>l, <2>1, <2>7, <2>w DEF Padded
  <2> QED BY <2>2, <2>4, <2>7, <2>8 DEF Finished
<1>7. CASE ~(k + 1 > Block - Counter)
  <2>z. PICK z \in Nat : z = Block - Counter - (k + 1) BY <1>7, <1>s
  <2>b. PICK b : OneMore(flat, marked, z, l, b) BY <1>3, OneBlockMore
  <2>1. /\ b \in Message /\ Len(b) = Block
        /\ flat \o b = (Append(text, "80") \o Zeros(z)) \o Length(l)
        /\ b = (marked \o Zeros(z)) \o Length(l)
    <3>1. /\ b \in Message /\ Len(b) = Len(marked) + z + Counter
          /\ flat \o b = ((flat \o marked) \o Zeros(z)) \o Length(l)
          /\ b = (marked \o Zeros(z)) \o Length(l)
      BY <2>b, Zenon DEF OneMore
    <3>m. Len(marked) = k + 1 BY <1>m
    <3>2. Len(marked) + z + Counter = Block BY <3>m, <1>s, <2>z
    <3> QED BY <1>5, <3>1, <3>2
  <2>2. Finish(s) = Append(blocks, b)
    <3>1. Finish(s) = LET spills == Len(marked) > Block - Counter
                          whole == IF spills THEN Append(blocks, marked \o Zeros(Block - Len(marked)))
                                   ELSE blocks
                          last == IF spills THEN <<>> ELSE marked
                      IN Append(whole, last \o Zeros(Block - Counter - Len(last)) \o Length(total))
      BY <1>b, <1>m DEF Finish
    <3>2. ~(Len(marked) > Block - Counter) BY <1>7, <1>m
    <3>3. Block - Counter - Len(marked) = z BY <1>m, <1>s, <2>z
    <3> QED BY <1>2, <1>l, <2>1, <3>1, <3>2, <3>3
  <2>3. Filled(Append(blocks, b), flat \o b, q + 1) BY <1>2, <2>1, OneMoreFilled
  <2>t. PICK t \in Int : t = q + 1 BY <1>3
  <2>5. Block * t = p + Block BY <1>3, <1>p, <1>s, <2>t
  <2>6. z < Block /\ Len(text) + 1 + Counter + z = Block * t
    BY <1>4, <1>l, <1>s, <2>5, <2>z
  <2>7. ShaMessage(text) = Padded(text, z) /\ Sha1Message(text) = Padded(text, z)
    BY <2>6, StandardPads
  <2>8. flat \o b = ShaMessage(text) BY <1>l, <2>1, <2>7 DEF Padded
  <2> QED BY <2>2, <2>3, <2>7, <2>8 DEF Finished
<1> QED BY <1>6, <1>7

THEOREM HashIsOfTheMessage ==
  ASSUME NEW file \in Seq(Bytes), NEW buffer \in Nat \ {0}
  PROVE  HashesTheMessage(file, buffer)
<1>1. file \in Message
  <2>1. \A i \in 1..Len(file) : file[i] \in Octets BY DEF Octets
  <2> QED BY <2>1 DEF Message
<1>2. HashedState(Updated(file, buffer)[Len(file)], file, 0) BY <1>1, FileIsRead
<1>3. /\ \E flat : Finished(FileBlocks(file, buffer), flat, file)
      /\ Sha1Message(file) = ShaMessage(file)
  BY <1>1, <1>2, FinishPads DEF FileBlocks
<1>4. PICK flat, q : Filled(FileBlocks(file, buffer), flat, q) /\ flat = ShaMessage(file)
  BY <1>3 DEF Finished
<1> QED BY <1>3, <1>4 DEF Filled, HashesTheMessage

(***************************************************************************)
(* All of them together: CommandWire's specification.                      *)
(***************************************************************************)
\* What each operation has been given.
WireInv ==
  \/ call = "none"
  \/ call = "arguments" /\ \E p \in Paths, a, b \in Arguments : input = <<p, <<a, b>>>>
  \/ call = "hash" /\ \E f \in Files, n \in Buffers : input = <<f, n>>
  \/ call = "frame" /\ input \in Lengths
  \/ call = "command" /\ \E s \in Settings, c \in CommandNames, r \in Recordings : input = <<s, c, r>>

LEMMA WireStarts == WireInit => WireInv
  BY DEF WireInit, WireInv

LEMMA WireSteps == WireInv /\ [WireNext]_wvars => WireInv'
<1> SUFFICES ASSUME WireInv, [WireNext]_wvars PROVE WireInv' OBVIOUS
<1>1. CASE RunProcess BY <1>1 DEF RunProcess, Uses, WireInv
<1>2. CASE Sha256File BY <1>2 DEF Sha256File, Uses, WireInv
<1>3. CASE Exchange BY <1>3 DEF Exchange, Uses, WireInv
<1>4. CASE RunCommand BY <1>4 DEF RunCommand, Uses, WireInv
<1>5. CASE UNCHANGED wvars BY <1>5 DEF wvars, WireInv
<1> QED BY <1>1, <1>2, <1>3, <1>4, <1>5 DEF WireNext

\* Each operation does with what it is given what the theorems above say.
LEMMA WireIsRight == ShortMessages /\ WireInv => ArrivesAsMeant
<1> SUFFICES ASSUME ShortMessages, WireInv PROVE ArrivesAsMeant OBVIOUS
<1>1. CASE call = "none" BY <1>1 DEF ArrivesAsMeant
<1>2. CASE call = "arguments"
  <2>1. PICK p \in Paths, a \in Arguments, b \in Arguments : input = <<p, <<a, b>>>>
    BY <1>2 DEF WireInv
  <2>2. p \in Text /\ a \in Text /\ b \in Text BY WireAssumption DEF Text
  <2>l. PICK list : list = <<a, b>> OBVIOUS
  <2>3. list \in Seq(Text) BY <2>2, <2>l
  <2>4. ArgumentsSurvive(p, list) BY <2>2, <2>3, ArgumentsArrive
  <2>5. input[1] = p /\ input[2] = list BY <2>1, <2>l
  <2> QED BY <1>2, <2>4, <2>5 DEF ArrivesAsMeant
<1>3. CASE call = "hash"
  <2>1. PICK f \in Files, n \in Buffers : input = <<f, n>> BY <1>3 DEF WireInv
  <2>2. f \in Seq(Bytes) /\ n \in Nat \ {0} BY WireAssumption
  <2>3. HashesTheMessage(f, n) BY <2>2, HashIsOfTheMessage
  <2>4. input[1] = f /\ input[2] = n BY <2>1
  <2> QED BY <1>3, <2>3, <2>4 DEF ArrivesAsMeant
<1>4. CASE call = "frame"
  <2>1. input \in Lengths BY <1>4 DEF WireInv
  <2>2. input \in Nat /\ input <= 65535 BY <2>1, WireAssumption DEF ShortMessages
  <2>3. CommandArrivesWhole(input) /\ EventArrivesWhole(input)
    BY <2>2, CommandsArriveWhole, EventsArriveWhole
  <2> QED BY <1>4, <2>3 DEF ArrivesAsMeant
<1>5. CASE call = "command"
  <2>1. PICK s \in Settings, c \in CommandNames, r \in Recordings : input = <<s, c, r>>
    BY <1>5 DEF WireInv
  <2>2. SaysWhatIsMeant(s, c, r) BY CommandsSayWhatIsMeant
  <2>3. input[1] = s /\ input[2] = c /\ input[3] = r BY <2>1
  <2> QED BY <1>5, <2>2, <2>3 DEF ArrivesAsMeant
<1> QED BY <1>1, <1>2, <1>3, <1>4, <1>5 DEF WireInv

\* What the helper is given, hashes, sends and is told arrives as it was meant, for all arguments,
\* files, buffers, settings and recordings, and all messages of up to 65535 bytes.
THEOREM SentIsMeant == ShortMessages => (WireSpec => []ArrivesAsMeant)
<1> SUFFICES ASSUME ShortMessages PROVE WireSpec => []ArrivesAsMeant OBVIOUS
<1>1. WireInv => ArrivesAsMeant BY WireIsRight
<1> QED BY <1>1, WireStarts, WireSteps, PTL DEF WireSpec
=============================================================================
