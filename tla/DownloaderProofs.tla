--------------------------- MODULE DownloaderProofs ---------------------------
(***************************************************************************)
(* Proofs about Downloader: its types, and that one helper at a time keeps *)
(* the promise of TakeTransfer, for movies of every size.                  *)
(***************************************************************************)
EXTENDS Downloader, TLAPS

Receiving(h) == job[h].pc = "receiving"

\* Every step keeps the types.
LEMMA TypeStep == TypeOK /\ [Next]_vars => TypeOK'
<1> SUFFICES ASSUME TypeOK, [Next]_vars PROVE TypeOK'
  OBVIOUS
<1> USE DEF TypeOK
<1>0. /\ 0 \in 0..(MaxAttempts - 1) /\ "raw" \in Version /\ \A v \in Version : Size[v] \in Nat \ {0}
      /\ \A i \in Inode : data[i] \in Seq(Block) /\ Len(data[i]) \in Nat
      /\ \A i \in Inode \cup {None} : Len(Content(i)) \in Nat
  BY ChunkAssumption, VersionAssumption, SizeAssumption DEF Content
<1>1. ASSUME NEW h \in Helper, NEW j \in Job, job' = [job EXCEPT ![h] = j]
      PROVE  job' \in [Helper -> Job]
  BY <1>1
<1>2. ASSUME NEW h \in Helper, NEW pc \in Stage, Goto(h, pc) PROVE job' \in [Helper -> Job]
  <2>1. [job[h] EXCEPT !.pc = pc, !.out = None] \in Job
    BY DEF Job
  <2>2. job' = [job EXCEPT ![h] = [job[h] EXCEPT !.pc = pc, !.out = None]]
    BY <1>2 DEF Goto
  <2> QED
    BY <1>1, <2>1, <2>2
<1>3. ASSUME NEW h \in Helper, Prepare(h) PROVE TypeOK'
  <2>1. [NoJob EXCEPT !.pc = "check", !.file = served] \in Job
    BY <1>0, <1>3 DEF Prepare, NoJob, Job, Stage
  <2> QED
    BY <1>1, <1>3, <2>1 DEF Prepare
<1>4. ASSUME NEW h \in Helper, CheckDestination(h) PROVE TypeOK'
  BY <1>2, <1>4 DEF CheckDestination, Stage, Job
<1>5. ASSUME NEW h \in Helper, ResumeTemporary(h) PROVE TypeOK'
  <2>1. job[h].file \in Version /\ temp[job[h].file] \in Inode \cup {None}
    BY DEF Job
  <2>2. \E n \in Nat : job' = [job EXCEPT ![h] = [job[h] EXCEPT !.pc = "loop", !.offset = n]]
    BY <1>0, <1>5, <2>1 DEF ResumeTemporary
  <2>3. \A n \in Nat : [job[h] EXCEPT !.pc = "loop", !.offset = n] \in Job
    BY DEF Job, Stage
  <2>4. job' \in [Helper -> Job]
    BY <1>1, <2>2, <2>3
  <2> QED
    BY <1>5, <2>1, <2>4 DEF ResumeTemporary
<1>6. ASSUME NEW h \in Helper, LeaveLoop(h) PROVE TypeOK'
  BY <1>2, <1>6 DEF LeaveLoop, Stage
<1>7. ASSUME NEW h \in Helper, Connect(h) PROVE TypeOK'
  <2> DEFINE f == job[h].file
             first == job[h].offset
             last == IF Known(h) THEN Lesser(ByteCount(h), first + Chunk) ELSE Size[served]
             j(i) == [job[h] EXCEPT !.pc = "receiving", !.out = i, !.from = served,
                        !.at = Lesser(first, Size[served]), !.end = Lesser(last, Size[served])]
  <2>1. f \in Version /\ first \in Nat /\ served \in Version
    BY <1>7 DEF Connect, Job
  <2>2. Lesser(first, Size[served]) \in Nat /\ Lesser(last, Size[served]) \in Nat
    BY <1>0, <2>1, ChunkAssumption DEF Lesser, ByteCount
  <2> HIDE DEF last
  <2>3. \A i \in Inode : j(i) \in Job
    BY <2>1, <2>2 DEF Job, Stage
  <2>4. \E i \in Inode : /\ job' = [job EXCEPT ![h] = j(i)]
                         /\ temp' = temp \/ temp' = [temp EXCEPT ![f] = i]
                         /\ data' = data \/ data' = [data EXCEPT ![i] = <<>>]
    <3>1. CASE temp[f] # None
      BY <1>7, <2>1, <3>1 DEF Connect, last
    <3>2. CASE temp[f] = None
      BY <1>7, <3>2 DEF Connect, last
    <3> QED
      BY <3>1, <3>2
  <2> HIDE DEF j, f, first
  <2>5. job' \in [Helper -> Job]
    BY <1>1, <2>3, <2>4
  <2>6. temp' \in [Version -> Inode \cup {None}]
    BY <2>4
  <2>7. data' \in [Inode -> Seq(Block)]
    <3>1. <<>> \in Seq(Block)
      OBVIOUS
    <3> QED
      BY <2>4, <3>1
  <2> QED
    BY <1>7, <2>5, <2>6, <2>7 DEF Connect
<1>8. ASSUME NEW h \in Helper, Receive(h) PROVE TypeOK'
  <2>1. job[h].from \in Version /\ job[h].at \in Nat /\ job[h].offset \in Nat
        /\ job[h].out \in Inode \cup {None}
    BY DEF Job
  <2>2. <<job[h].from, job[h].at + 1>> \in Block
    BY <2>1 DEF Block
  <2>3. data' \in [Inode -> Seq(Block)]
    <3>1. \A i \in Inode : Append(data[i], <<job[h].from, job[h].at + 1>>) \in Seq(Block)
      BY <2>2
    <3> QED
      BY <1>8, <2>1, <3>1 DEF Receive
  <2>4. job' \in [Helper -> Job]
    <3>1. \A a, o \in Nat : [job[h] EXCEPT !.at = a, !.offset = o] \in Job
      BY DEF Job
    <3>2. job' = [job EXCEPT ![h] = [job[h] EXCEPT !.at = job[h].at + 1,
                                                  !.offset = job[h].offset + 1]]
      BY <1>8 DEF Receive
    <3>3. job[h].at + 1 \in Nat /\ job[h].offset + 1 \in Nat
      BY <2>1
    <3> QED
      BY <1>1, <3>1, <3>2, <3>3
  <2> QED
    BY <1>8, <2>3, <2>4 DEF Receive
<1>9. ASSUME NEW h \in Helper, ConnectionCloses(h) PROVE TypeOK'
  <2>1. job' \in [Helper -> Job]
    <3>1. \A pc \in Stage : [job[h] EXCEPT !.pc = pc, !.attempts = 0, !.out = None] \in Job
      BY <1>0 DEF Job
    <3>2. \E pc \in Stage :
            job' = [job EXCEPT ![h] = [job[h] EXCEPT !.pc = pc, !.attempts = 0, !.out = None]]
      BY <1>9 DEF ConnectionCloses, Stage
    <3> QED
      BY <1>1, <3>1, <3>2
  <2> QED
    BY <1>9, <2>1 DEF ConnectionCloses
<1>10. ASSUME NEW h \in Helper, AttemptFails(h) PROVE TypeOK'
  <2>1. job[h].file \in Version /\ job[h].attempts \in 0..(MaxAttempts - 1)
    BY DEF Job
  <2>2. CASE job[h].attempts + 1 >= MaxAttempts
    BY <1>2, <1>10, <2>2 DEF AttemptFails, Stage
  <2>3. CASE ~(job[h].attempts + 1 >= MaxAttempts)
    <3> DEFINE a == job[h].attempts + 1
               o == Len(Content(temp[job[h].file]))
    <3>1. a \in 0..(MaxAttempts - 1) /\ o \in Nat
      BY <1>0, <2>1, <2>3, ChunkAssumption
    <3>2. job' = [job EXCEPT ![h] = [job[h] EXCEPT !.pc = "loop", !.out = None,
                                       !.attempts = a, !.offset = o]]
      BY <1>10, <2>3 DEF AttemptFails
    <3> HIDE DEF a, o
    <3>3. [job[h] EXCEPT !.pc = "loop", !.out = None, !.attempts = a, !.offset = o] \in Job
      BY <3>1 DEF Job, Stage
    <3>4. job' \in [Helper -> Job]
      BY <1>1, <3>2, <3>3
    <3> QED
      BY <1>10, <3>4 DEF AttemptFails
  <2> QED
    BY <2>2, <2>3
<1>11. ASSUME NEW h \in Helper, RemoveDestination(h) PROVE TypeOK'
  BY <1>2, <1>11 DEF RemoveDestination, Stage
<1>12. ASSUME NEW h \in Helper, RenameTemporary(h) PROVE TypeOK'
  BY <1>2, <1>12 DEF RenameTemporary, Stage
<1>13. ASSUME NEW h \in Helper, VerifyChecksum(h) PROVE TypeOK'
  BY <1>2, <1>13 DEF VerifyChecksum, Stage
<1>14. ASSUME NEW h \in Helper, Acknowledge(h) PROVE TypeOK'
  BY <1>2, <1>14 DEF Acknowledge, Stage
<1>15. ASSUME NEW h \in Helper, Killed(h) PROVE TypeOK'
  BY <1>2, <1>15 DEF Killed, Stage
<1>16. CASE PhoneRerenders \/ UserDeletes \/ UNCHANGED vars
  BY <1>16 DEF PhoneRerenders, UserDeletes, vars
<1> QED
  BY <1>3, <1>4, <1>5, <1>6, <1>7, <1>8, <1>9, <1>10, <1>11, <1>12, <1>13, <1>14, <1>15, <1>16
     DEF Next, Step

LEMMA TypeInit == Init => TypeOK
BY ChunkAssumption, VersionAssumption DEF Init, TypeOK, NoJob, Job, Stage

\* The download's variables keep their types: among others, a helper never
\* enters its loop with MaxAttempts failures behind it.
THEOREM DownloaderTypes == Spec => []TypeOK
<1>1. TypeOK /\ [Next]_vars => TypeOK'
  BY TypeStep
<1> QED
  BY <1>1, TypeInit, PTL DEF Spec
-----------------------------------------------------------------------------
(* One helper keeps the promise of TakeTransfer.                           *)

Sole == \A g, h \in Helper : g = h

\* Every descriptor has a size, and it has a checksum too unless the record
\* can only serve the movie that was shot.
Dependable == Sized = Version /\ (Summed = Version \/ Version = {"raw"})

Lacking == {"trim", "loop", "receiving", "finish", "rename"}

\* No file has two names, and the only open file is the temporary one.
FilesInv ==
  /\ \A v, w \in Version :
       /\ temp[v] # None => temp[v] # dest[w]
       /\ temp[v] # None /\ temp[v] = temp[w] => v = w
       /\ dest[v] # None /\ dest[v] = dest[w] => v = w
  /\ \A h \in Helper : IF Receiving(h)
                        THEN job[h].out # None /\ job[h].out = temp[job[h].file]
                        ELSE job[h].out = None

\* A copy is made only while there is none, and acknowledged once there is.
StageInv ==
  \A h \in Helper :
    /\ job[h].pc \in Lacking => ~Intact(job[h].file)
    /\ job[h].pc = "verified" => Intact(job[h].file)

GivenInv ==
  /\ served = None <=> given # "kept"
  /\ AcknowledgedIsOnDisk

\* What the helper has is the beginning of the movie, and it asks for the rest.
BeginningInv ==
  /\ TemporaryIsPrefix
  /\ \A h \in Helper :
       LET had == Len(Content(temp[job[h].file]))
       IN  /\ job[h].pc = "loop" => job[h].offset = had
           /\ Receiving(h) => /\ job[h].from = job[h].file
                              /\ job[h].offset = had
                              /\ job[h].at = had
                              /\ job[h].end <= Size[job[h].file]

\* The files are what the helper believes them to be.
CopyInv ==
  /\ BeginningInv
  /\ \A v \in Version : dest[v] # None => Intact(v)
  /\ \A h \in Helper : job[h].pc \in {"finish", "rename"} =>
       Len(Content(temp[job[h].file])) = Size[job[h].file]

PromiseInv ==
  TypeOK /\ FilesInv /\ StageInv /\ GivenInv /\ (Summed # Version => CopyInv)

\* A beginning of the movie that has its length is the movie.
LEMMA WholePrefix ==
  ASSUME NEW v \in Version, NEW d \in Seq(Block), Len(d) = Size[v],
         \A i \in 1..Len(d) : d[i] = <<v, i>>
  PROVE  d = Movie(v)
<1>1. DOMAIN d = 1..Size[v] /\ d = [i \in 1..Size[v] |-> d[i]]
  OBVIOUS
<1> QED
  BY <1>1 DEF Movie

LEMMA PromiseInit == Init => PromiseInv
<1> SUFFICES ASSUME Init PROVE PromiseInv
  OBVIOUS
<1>1. TypeOK
  BY TypeInit
<1>2. \A v \in Version : Content(temp[v]) = <<>> /\ Size[v] \in Nat
  BY SizeAssumption DEF Init, Content
<1>3. CopyInv
  BY <1>2, VersionAssumption DEF Init, CopyInv, BeginningInv, NoJob, Intact, Receiving, TemporaryIsPrefix
<1>4. FilesInv /\ StageInv
  BY DEF Init, FilesInv, StageInv, Receiving, NoJob, Lacking
<1>5. GivenInv
  BY NoneAssumption, VersionAssumption DEF Init, GivenInv, AcknowledgedIsOnDisk
<1> QED
  BY <1>1, <1>3, <1>4, <1>5 DEF PromiseInv

\* What changes no finished file changes no copy.
LEMMA IntactFrame ==
  ASSUME dest' = dest, \A v \in Version : dest[v] # None => data'[dest[v]] = data[dest[v]]
  PROVE  \A v \in Version : Intact(v)' <=> Intact(v)
BY DEF Intact, Movie

LEMMA GotoFacts ==
  ASSUME TypeOK, NEW h \in Helper, NEW pc, Goto(h, pc)
  PROVE  /\ job'[h].pc = pc /\ job'[h].out = None
         /\ job'[h].file = job[h].file /\ job'[h].offset = job[h].offset
BY DEF Goto, TypeOK, Job

LEMMA JobFacts ==
  ASSUME TypeOK, NEW h \in Helper
  PROVE  /\ job[h].file \in Version /\ job[h].from \in Version
         /\ job[h].offset \in Nat /\ job[h].at \in Nat /\ job[h].end \in Nat
         /\ Size[job[h].file] \in Nat \ {0}
         /\ Len(Content(temp[job[h].file])) \in Nat
<1>1. job[h].file \in Version /\ temp[job[h].file] \in Inode \cup {None}
  BY DEF TypeOK, Job
<1>2. \A i \in Inode \cup {None} : Len(Content(i)) \in Nat
  BY DEF TypeOK, Content
<1> QED
  BY <1>1, <1>2, SizeAssumption DEF TypeOK, Job

\* Steps that change no file of the computer: the stage the helper goes to must
\* know at least as much about the files as the one it leaves.
LEMMA QuietSteps ==
  ASSUME Sole, Dependable, PromiseInv, TypeOK', NEW h \in Helper,
         LeaveLoop(h) \/ VerifyChecksum(h) \/ Killed(h) \/ Acknowledge(h)
           \/ ConnectionCloses(h) \/ AttemptFails(h) \/ Prepare(h)
  PROVE  PromiseInv' /\ [Promise!Next]_(Promise!vars)
<1> USE DEF PromiseInv
<1>1. /\ data' = data /\ temp' = temp /\ dest' = dest
      /\ \A g \in Helper : g = h
  BY DEF LeaveLoop, VerifyChecksum, Killed, Acknowledge, ConnectionCloses, AttemptFails,
         Prepare, Sole
<1>2. \A v \in Version : (Intact(v)' <=> Intact(v)) /\ Content(temp[v])' = Content(temp[v])
  BY <1>1, IntactFrame DEF Content
<1>3. /\ job[h].file \in Version /\ job[h].offset \in Nat /\ Size[job[h].file] \in Nat
      /\ Len(Content(temp[job[h].file])) \in Nat /\ Known(h)
  BY JobFacts DEF Dependable, Known
<1>a. ASSUME AttemptFails(h)
      PROVE  /\ job'[h].file = job[h].file /\ job'[h].out = None
             /\ \/ job'[h].pc = "failed"
                \/ job'[h].pc = "loop" /\ job'[h].offset = Len(Content(temp[job[h].file]))
  <2>1. CASE Goto(h, "failed")
    BY <2>1, GotoFacts
  <2>2. CASE ~Goto(h, "failed")
    <3>1. job' = [job EXCEPT ![h].pc = "loop", ![h].out = None, ![h].attempts = @ + 1,
                             ![h].offset = Len(Content(temp[job[h].file]))]
      BY <1>a, <2>2 DEF AttemptFails
    <3>2. job \in [Helper -> Job]
      BY DEF TypeOK
    <3> QED
      BY <3>1, <3>2 DEF Job
  <2> QED
    BY <2>1, <2>2
<1>4. \/ Prepare(h) /\ job'[h].pc = "check" /\ job'[h].file \in Version
      \/ /\ job'[h].file = job[h].file
         /\ \/ LeaveLoop(h) /\ job'[h].pc = "finish" /\ job'[h].offset = job[h].offset
            \/ VerifyChecksum(h)
                 /\ job'[h].pc = IF Intact(job[h].file) THEN "verified" ELSE "failed"
            \/ job'[h].pc \in {"failed", "done"}
            \/ ConnectionCloses(h) /\ job'[h].pc = "loop" /\ job'[h].offset = job[h].offset
            \/ AttemptFails(h) /\ job'[h].pc = "loop"
                 /\ job'[h].offset = Len(Content(temp[job[h].file]))
  <2>1. CASE Prepare(h)
    BY <2>1 DEF Prepare, NoJob, TypeOK
  <2>2. CASE ConnectionCloses(h)
    BY <1>3, <2>2 DEF ConnectionCloses, TypeOK, Job
  <2>3. CASE AttemptFails(h)
    BY <1>a, <2>3
  <2>4. CASE LeaveLoop(h) \/ VerifyChecksum(h) \/ Killed(h) \/ Acknowledge(h)
    BY <2>4, GotoFacts DEF LeaveLoop, VerifyChecksum, Killed, Acknowledge
  <2> QED
    BY <2>1, <2>2, <2>3, <2>4
<1>5. job'[h].out = None
  <2>1. CASE Prepare(h)
    BY <2>1 DEF Prepare, NoJob, TypeOK
  <2>2. CASE ConnectionCloses(h)
    BY <2>2 DEF ConnectionCloses, TypeOK, Job
  <2>3. CASE AttemptFails(h)
    BY <1>a, <2>3
  <2>4. CASE LeaveLoop(h) \/ VerifyChecksum(h) \/ Killed(h) \/ Acknowledge(h)
    BY <2>4, GotoFacts DEF LeaveLoop, VerifyChecksum, Killed, Acknowledge
  <2> QED
    BY <2>1, <2>2, <2>3, <2>4
<1>6. FilesInv'
  BY <1>1, <1>4, <1>5 DEF FilesInv, Receiving
<1>7. StageInv'
  BY <1>1, <1>2, <1>3, <1>4 DEF StageInv, Lacking, ConnectionCloses, AttemptFails, LeaveLoop
<1>8. Summed # Version => CopyInv'
  <2> SUFFICES ASSUME Summed # Version PROVE CopyInv'
    OBVIOUS
  <2>1. TemporaryIsPrefix' /\ \A v \in Version : dest'[v] # None => Intact(v)'
    BY <1>1, <1>2 DEF CopyInv, BeginningInv, TemporaryIsPrefix
  <2>2. job'[h].pc \in {"finish", "rename"} => LeaveLoop(h) /\ job'[h].file = job[h].file
    BY <1>4
  <2>3. Len(Content(temp[job[h].file])) <= Size[job[h].file]
    BY <1>3 DEF CopyInv, BeginningInv, TemporaryIsPrefix
  <2>4. LeaveLoop(h) => Len(Content(temp[job[h].file])) = Size[job[h].file]
    BY <1>3, <2>3 DEF LeaveLoop, CopyInv, BeginningInv, ByteCount
  <2>5. job'[h].pc = "loop" =>
          job'[h].file = job[h].file /\ job'[h].offset = Len(Content(temp[job[h].file]))
    BY <1>4 DEF ConnectionCloses, CopyInv, BeginningInv, Receiving
  <2>6. ~Receiving(h)'
    BY <1>4 DEF Receiving
  <2> QED
    BY <1>1, <1>2, <1>3, <2>1, <2>2, <2>4, <2>5, <2>6 DEF CopyInv, BeginningInv
<1>9. GivenInv' /\ [Promise!Next]_(Promise!vars)
  <2>1. CASE UNCHANGED <<served, given>>
    BY <1>2, <2>1 DEF GivenInv, AcknowledgedIsOnDisk, Promise!vars
  <2>2. CASE Acknowledge(h) /\ served' = None
             /\ given' = IF served = None THEN given ELSE "acknowledged"
    <3>1. \E v \in Version : Intact(v)
      BY <1>3, <2>2 DEF Acknowledge, StageInv
    <3>2. GivenInv'
      <4>1. \E v \in Version : Intact(v)'
        BY <1>2, <3>1
      <4>2. served' = None <=> given' # "kept"
        BY <2>2 DEF GivenInv
      <4> QED
        BY <4>1, <4>2 DEF GivenInv, AcknowledgedIsOnDisk
    <3>3. CASE served = None
      <4>1. (\E v \in Version : Intact(v))' = (\E v \in Version : Intact(v))
        BY <1>2
      <4>2. given' = given
        BY <2>2, <3>3
      <4> QED
        BY <3>2, <4>1, <4>2 DEF Promise!vars
    <3>4. CASE served # None
      <4>1. given = "kept" /\ given' = "acknowledged"
        BY <2>2, <3>4 DEF GivenInv
      <4>2. (\E v \in Version : Intact(v))' = (\E v \in Version : Intact(v))
        BY <1>2
      <4>3. Promise!Acknowledge
        BY <3>1, <4>1, <4>2 DEF Promise!Acknowledge
      <4> QED
        BY <3>2, <4>3 DEF Promise!Next
    <3> QED
      BY <3>2, <3>3, <3>4
  <2> QED
    BY <2>1, <2>2 DEF LeaveLoop, VerifyChecksum, Killed, Acknowledge, ConnectionCloses,
       AttemptFails, Prepare
<1> QED
  BY <1>6, <1>7, <1>8, <1>9

\* The finished download is recognised, or it is not there yet.
LEMMA CheckStep ==
  ASSUME Sole, Dependable, PromiseInv, TypeOK', NEW h \in Helper, CheckDestination(h)
  PROVE  PromiseInv' /\ UNCHANGED Promise!vars
<1> USE DEF PromiseInv
<1>1. /\ data' = data /\ dest' = dest /\ served' = served /\ given' = given
      /\ \A g \in Helper : g = h
  BY DEF CheckDestination, Sole
<1>2. \A v \in Version : Intact(v)' <=> Intact(v)
  BY <1>1, IntactFrame
<1>3. /\ job'[h].file = job[h].file /\ job[h].file \in Version /\ job'[h].out = None
      /\ job'[h].pc \in {"verified", "trim"}
  BY JobFacts, GotoFacts DEF CheckDestination
<1>4. Intact(job[h].file) => Len(Content(dest[job[h].file])) = Size[job[h].file]
  BY <1>3, SizeAssumption DEF Intact, Movie, Content
<1>5. job'[h].pc = "trim" => ~Intact(job[h].file)
  BY <1>3, <1>4, GotoFacts DEF CheckDestination, Dependable, Known
<1>6. CASE job'[h].pc = "trim"
  <2>1. temp' = temp
    BY <1>6, GotoFacts DEF CheckDestination
  <2> QED
    BY <1>1, <1>2, <1>3, <1>5, <1>6, <2>1
       DEF FilesInv, StageInv, GivenInv, CopyInv, BeginningInv, AcknowledgedIsOnDisk, TemporaryIsPrefix,
           Content, Receiving, Lacking, Promise!vars
<1>7. CASE job'[h].pc = "verified"
  <2>1. temp' = [temp EXCEPT ![job[h].file] = None]
    BY <1>7, GotoFacts DEF CheckDestination
  <2>2. Intact(job[h].file)
    <3>1. Len(Content(dest[job[h].file])) = Size[job[h].file]
      BY <1>7, GotoFacts DEF CheckDestination
    <3>2. dest[job[h].file] # None
      BY <1>3, <3>1, SizeAssumption DEF Content
    <3>3. CASE Summed = Version
      BY <1>3, <1>7, <3>3, GotoFacts DEF CheckDestination
    <3>4. CASE Summed # Version
      BY <1>3, <3>2, <3>4 DEF CopyInv, BeginningInv
    <3> QED
      BY <3>3, <3>4
  <2>3. \A v \in Version : temp'[v] = None \/ temp'[v] = temp[v]
    BY <2>1 DEF TypeOK
  <2>4. FilesInv'
    BY <1>1, <1>3, <1>7, <2>3 DEF FilesInv, Receiving
  <2>5. TemporaryIsPrefix => TemporaryIsPrefix'
    <3>1. \A v \in Version : Content(temp[v])' = <<>> \/ Content(temp[v])' = Content(temp[v])
      BY <1>1, <2>3 DEF Content
    <3>2. \A v \in Version : Size[v] \in Nat
      BY SizeAssumption
    <3>3. Len(<<>>) = 0 /\ \A i \in 1..0 : FALSE
      OBVIOUS
    <3> SUFFICES ASSUME TemporaryIsPrefix, NEW v \in Version
                 PROVE  /\ Len(Content(temp[v])') <= Size[v]
                        /\ \A i \in 1..Len(Content(temp[v])') : Content(temp[v])'[i] = <<v, i>>
      BY DEF TemporaryIsPrefix
    <3>4. CASE Content(temp[v])' = <<>>
      BY <3>2, <3>3, <3>4
    <3>5. CASE Content(temp[v])' = Content(temp[v])
      BY <3>5 DEF TemporaryIsPrefix
    <3> QED
      BY <3>1, <3>4, <3>5
  <2>6. Summed # Version => CopyInv'
    BY <1>1, <1>2, <1>3, <1>7, <2>5 DEF CopyInv, BeginningInv, Receiving
  <2>7. StageInv'
    BY <1>1, <1>2, <1>3, <1>7, <2>2 DEF StageInv, Lacking
  <2>8. GivenInv' /\ UNCHANGED Promise!vars
    BY <1>1, <1>2 DEF GivenInv, AcknowledgedIsOnDisk, Promise!vars
  <2> QED
    BY <2>4, <2>6, <2>7, <2>8
<1> QED
  BY <1>3, <1>6, <1>7

\* What is resumed is a beginning of the movie, and not longer than it.
LEMMA ResumeStep ==
  ASSUME Sole, Dependable, PromiseInv, TypeOK', NEW h \in Helper, ResumeTemporary(h)
  PROVE  PromiseInv' /\ UNCHANGED Promise!vars
<1> USE DEF PromiseInv
<1> DEFINE f == job[h].file
           had == Len(Content(temp[f]))
<1>1. /\ data' = data /\ dest' = dest /\ served' = served /\ given' = given
      /\ \A g \in Helper : g = h
      /\ job[h].pc = "trim"
  BY DEF ResumeTemporary, Sole
<1>2. \A v \in Version : Intact(v)' <=> Intact(v)
  BY <1>1, IntactFrame
<1>3. f \in Version /\ Known(h) /\ Size[f] \in Nat /\ had \in Nat
  BY JobFacts DEF Dependable, Known
<1>4. /\ job'[h].pc = "loop" /\ job'[h].file = f /\ job'[h].out = job[h].out
      /\ job'[h].offset = IF had > Size[f] THEN 0 ELSE had
  BY <1>3 DEF ResumeTemporary, TypeOK, Job
<1>5. temp' = [temp EXCEPT ![f] = IF had > Size[f] THEN None ELSE temp[f]]
  BY <1>3 DEF ResumeTemporary
<1>6. \A v \in Version : temp'[v] = None \/ temp'[v] = temp[v]
  BY <1>5 DEF TypeOK
<1>7. job[h].out = None
  BY <1>1 DEF FilesInv, Receiving
<1>8. FilesInv'
  BY <1>1, <1>4, <1>6, <1>7 DEF FilesInv, Receiving
<1>9. StageInv'
  BY <1>1, <1>2, <1>3, <1>4 DEF StageInv, Lacking
<1>10. Summed # Version => CopyInv'
  <2> SUFFICES ASSUME CopyInv PROVE CopyInv'
    OBVIOUS
  <2>1. had <= Size[f]
    BY <1>3 DEF CopyInv, BeginningInv, TemporaryIsPrefix
  <2>2. temp' = temp
    BY <1>3, <1>5, <2>1 DEF TypeOK
  <2>3. \A v \in Version : Content(temp[v])' = Content(temp[v])
    BY <1>1, <2>2 DEF Content
  <2>4. job'[h].offset = had
    BY <1>3, <1>4, <2>1
  <2> HIDE DEF had
  <2>5. ~Receiving(h)' /\ job'[h].pc \notin {"finish", "rename"}
    BY <1>4 DEF Receiving
  <2> QED
    BY <1>1, <1>2, <1>3, <1>4, <2>3, <2>4, <2>5 DEF CopyInv, BeginningInv, TemporaryIsPrefix, had
<1>11. GivenInv' /\ UNCHANGED Promise!vars
  BY <1>1, <1>2 DEF GivenInv, AcknowledgedIsOnDisk, Promise!vars
<1> QED
  BY <1>8, <1>9, <1>10, <1>11

\* The temporary file is opened, and the range asked for is inside the movie.
LEMMA ConnectStep ==
  ASSUME Sole, Dependable, PromiseInv, TypeOK', NEW h \in Helper, Connect(h)
  PROVE  PromiseInv' /\ UNCHANGED Promise!vars
<1> USE DEF PromiseInv
<1> DEFINE f == job[h].file
           o == job[h].offset
<1>1. /\ dest' = dest /\ served' = served /\ given' = given
      /\ \A g \in Helper : g = h
      /\ job[h].pc = "loop" /\ served \in Version
  BY DEF Connect, Sole, TypeOK
<1>2. f \in Version /\ Known(h) /\ Size[f] \in Nat /\ o \in Nat /\ o < Size[f] /\ Size[served] \in Nat
  BY <1>1, JobFacts, SizeAssumption DEF Dependable, Known, Connect, ByteCount
<1> DEFINE last == Lesser(Size[f], o + Chunk)
<1>3. PICK i \in Inode :
        /\ job' = [job EXCEPT ![h] = [job[h] EXCEPT !.pc = "receiving", !.out = i,
                    !.from = served, !.at = Lesser(o, Size[served]),
                    !.end = Lesser(last, Size[served])]]
        /\ \/ temp[f] = i /\ temp' = temp /\ data' = data
           \/ /\ temp[f] = None /\ ~Used(i)
              /\ temp' = [temp EXCEPT ![f] = i]
              /\ data' = [data EXCEPT ![i] = <<>>]
  <2>1. CASE temp[f] # None
    BY <1>2, <2>1 DEF Connect, ByteCount, TypeOK
  <2>2. CASE temp[f] = None
    BY <1>2, <2>2 DEF Connect, ByteCount
  <2> QED
    BY <2>1, <2>2
<1>4. /\ job'[h].pc = "receiving" /\ job'[h].out = i /\ job'[h].file = f
      /\ job'[h].from = served /\ job'[h].offset = o
      /\ job'[h].at = Lesser(o, Size[served]) /\ job'[h].end = Lesser(last, Size[served])
  BY <1>3 DEF TypeOK, Job
<1>5. /\ temp'[f] = i /\ i # None
      /\ \A v \in Version : v # f => temp'[v] = temp[v]
  BY <1>2, <1>3, NoneAssumption DEF TypeOK
<1>6. \A v \in Version : dest[v] # i /\ (v # f => temp[v] # i)
  BY <1>2, <1>3, <1>5 DEF Used, FilesInv
<1>7. \A j \in Inode : j # i => data'[j] = data[j]
  BY <1>3 DEF TypeOK
<1>8. \A v \in Version : Intact(v)' <=> Intact(v)
  BY <1>1, <1>6, <1>7, IntactFrame DEF TypeOK
<1>9. \A v \in Version : Content(temp[v])' = Content(temp[v])
  BY <1>2, <1>3, <1>5, <1>6, <1>7, NoneAssumption DEF Content, TypeOK
<1>10. FilesInv'
  BY <1>1, <1>2, <1>4, <1>5, <1>6 DEF FilesInv, Receiving
<1>11. StageInv'
  BY <1>1, <1>2, <1>4, <1>8 DEF StageInv, Lacking
<1>12. Summed # Version => CopyInv'
  <2> SUFFICES ASSUME CopyInv, Version = {"raw"} PROVE CopyInv'
    BY DEF Dependable
  <2>1. served = f
    BY <1>1, <1>2
  <2>2. job'[h].at = o /\ job'[h].end <= Size[f]
    BY <1>2, <1>4, <2>1, ChunkAssumption DEF Lesser
  <2>3. o = Len(Content(temp[f]))
    BY <1>1 DEF CopyInv, BeginningInv
  <2> QED
    BY <1>1, <1>2, <1>4, <1>8, <1>9, <2>1, <2>2, <2>3 DEF CopyInv, BeginningInv, TemporaryIsPrefix, Receiving
<1>13. GivenInv' /\ UNCHANGED Promise!vars
  BY <1>1, <1>8 DEF GivenInv, AcknowledgedIsOnDisk, Promise!vars
<1> QED
  BY <1>10, <1>11, <1>12, <1>13

LEMMA AppendNext ==
  ASSUME NEW v \in Version, NEW d \in Seq(Block), \A k \in 1..Len(d) : d[k] = <<v, k>>,
         NEW e, e = Append(d, <<v, Len(d) + 1>>)
  PROVE  Len(e) = Len(d) + 1 /\ \A k \in 1..Len(e) : e[k] = <<v, k>>
<1>1. Len(d) \in Nat /\ <<v, Len(d) + 1>> \in Block
  BY DEF Block
<1>2. Len(e) = Len(d) + 1 /\ e[Len(d) + 1] = <<v, Len(d) + 1>>
  BY <1>1
<1>3. \A k \in 1..Len(d) : e[k] = d[k]
  BY <1>1
<1> QED
  BY <1>1, <1>2, <1>3

\* A block that arrives is the next one of the movie.
LEMMA ReceiveStep ==
  ASSUME Sole, Dependable, PromiseInv, TypeOK', NEW h \in Helper, Receive(h)
  PROVE  PromiseInv' /\ UNCHANGED Promise!vars
<1> USE DEF PromiseInv
<1> DEFINE f == job[h].file
           i == job[h].out
<1>1. /\ dest' = dest /\ temp' = temp /\ served' = served /\ given' = given
      /\ \A g \in Helper : g = h
      /\ Receiving(h) /\ job[h].at < job[h].end
  BY DEF Receive, Sole, Receiving
<1>2. /\ f \in Version /\ Size[f] \in Nat /\ job[h].at \in Nat /\ job[h].offset \in Nat
      /\ job[h].end \in Nat
  BY JobFacts
<1>3. i # None /\ i = temp[f] /\ i \in Inode /\ \A v \in Version : dest[v] # i
  BY <1>1, <1>2 DEF FilesInv, TypeOK
<1>4. /\ data'[i] = Append(data[i], <<job[h].from, job[h].at + 1>>)
      /\ \A j \in Inode : j # i => data'[j] = data[j]
  BY <1>3 DEF Receive, TypeOK
<1>5. /\ job'[h].pc = "receiving" /\ job'[h].file = f /\ job'[h].out = i
      /\ job'[h].from = job[h].from /\ job'[h].end = job[h].end
      /\ job'[h].at = job[h].at + 1 /\ job'[h].offset = job[h].offset + 1
  BY <1>1 DEF Receive, Receiving, TypeOK, Job
<1>6. \A v \in Version : Intact(v)' <=> Intact(v)
  BY <1>1, <1>3, <1>4, IntactFrame DEF TypeOK
<1>7. FilesInv'
  BY <1>1, <1>2, <1>3, <1>5 DEF FilesInv, Receiving
<1>8. StageInv'
  BY <1>1, <1>2, <1>5, <1>6, Receiving(h) DEF StageInv, Lacking, Receiving
<1>9. Summed # Version => CopyInv'
  <2> SUFFICES ASSUME CopyInv, Version = {"raw"} PROVE CopyInv'
    BY DEF Dependable
  <2>1. /\ f = "raw" /\ \A v \in Version : v = "raw"
        /\ Content(temp["raw"]) = data[i] /\ Content(temp["raw"])' = data'[i]
    BY <1>1, <1>2, <1>3 DEF Content
  <2>2. data[i] \in Seq(Block) /\ Len(data[i]) = job[h].at /\ job[h].from = f
        /\ job[h].offset = job[h].at /\ job[h].end <= Size[f]
    BY <1>1, <1>2, <1>3, <2>1 DEF CopyInv, BeginningInv, TypeOK
  <2>3. \A k \in 1..Len(data[i]) : data[i][k] = <<f, k>>
    BY <1>2, <2>1 DEF CopyInv, BeginningInv, TemporaryIsPrefix
  <2>4. Len(data'[i]) = job[h].at + 1 /\ \A k \in 1..Len(data'[i]) : data'[i][k] = <<f, k>>
    <3>1. data'[i] = Append(data[i], <<f, Len(data[i]) + 1>>)
      BY <1>4, <2>2
    <3> QED
      BY <1>2, <2>2, <2>3, <3>1, AppendNext
  <2>6. TemporaryIsPrefix'
    BY <1>1, <1>2, <2>1, <2>2, <2>4 DEF TemporaryIsPrefix
  <2>5. \A v \in Version : dest'[v] # None => Intact(v)'
    BY <1>1, <1>6 DEF CopyInv, BeginningInv
  <2> QED
    BY <1>1, <1>5, <2>1, <2>2, <2>4, <2>5, <2>6 DEF CopyInv, BeginningInv, Receiving
<1>10. GivenInv' /\ UNCHANGED Promise!vars
  BY <1>1, <1>6 DEF GivenInv, AcknowledgedIsOnDisk, Promise!vars
<1> QED
  BY <1>7, <1>8, <1>9, <1>10

\* Only what is not an intact copy is removed.
LEMMA RemoveStep ==
  ASSUME Sole, Dependable, PromiseInv, TypeOK', NEW h \in Helper, RemoveDestination(h)
  PROVE  PromiseInv' /\ UNCHANGED Promise!vars
<1> USE DEF PromiseInv
<1>1. /\ data' = data /\ temp' = temp /\ served' = served /\ given' = given
      /\ \A g \in Helper : g = h
      /\ job[h].pc = "finish" /\ dest' = [dest EXCEPT ![job[h].file] = None]
  BY DEF RemoveDestination, Sole
<1>2. /\ job[h].file \in Version /\ job'[h].file = job[h].file /\ job'[h].out = None
      /\ job'[h].pc = "rename"
  BY JobFacts, GotoFacts DEF RemoveDestination
<1>3. ~Intact(job[h].file)
  BY <1>1 DEF StageInv, Lacking
<1>4. /\ dest'[job[h].file] = None
      /\ \A v \in Version : v # job[h].file => dest'[v] = dest[v]
  BY <1>1, <1>2 DEF TypeOK
<1>5. \A v \in Version : Intact(v)' <=> Intact(v)
  BY <1>1, <1>2, <1>3, <1>4 DEF Intact, Movie
<1>6. FilesInv'
  BY <1>1, <1>2, <1>4 DEF FilesInv, Receiving
<1>7. StageInv'
  BY <1>1, <1>2, <1>3, <1>5 DEF StageInv, Lacking
<1>8. Summed # Version => CopyInv'
  <2>1. \A v \in Version : Content(temp[v])' = Content(temp[v])
    BY <1>1 DEF Content
  <2>2. \A v \in Version : dest'[v] # None => dest[v] # None
    BY <1>2, <1>4
  <2> SUFFICES ASSUME CopyInv PROVE CopyInv'
    OBVIOUS
  <2>3. TemporaryIsPrefix'
    BY <2>1 DEF CopyInv, BeginningInv, TemporaryIsPrefix
  <2>4. BeginningInv'
    BY <1>1, <1>2, <2>3 DEF BeginningInv, Receiving
  <2>5. \A v \in Version : dest'[v] # None => Intact(v)'
    BY <1>5, <2>2 DEF CopyInv
  <2> QED
    BY <1>1, <1>2, <2>1, <2>4, <2>5 DEF CopyInv
<1>9. GivenInv' /\ UNCHANGED Promise!vars
  BY <1>1, <1>5 DEF GivenInv, AcknowledgedIsOnDisk, Promise!vars
<1> QED
  BY <1>6, <1>7, <1>8, <1>9

\* The rename is the step that makes the copy, or shows it to be bad.
LEMMA RenameStep ==
  ASSUME Sole, Dependable, PromiseInv, TypeOK', NEW h \in Helper, RenameTemporary(h)
  PROVE  PromiseInv' /\ [Promise!Next]_(Promise!vars)
<1> USE DEF PromiseInv
<1> DEFINE f == job[h].file
<1>1. /\ data' = data /\ served' = served /\ given' = given
      /\ \A g \in Helper : g = h
      /\ job[h].pc = "rename" /\ f \in Version
  BY JobFacts DEF RenameTemporary, Sole
<1>2. /\ job'[h].file = f /\ job'[h].out = None
      /\ job'[h].pc = IF temp[f] = None THEN "failed"
                      ELSE IF f \in Summed THEN "verify" ELSE "verified"
  BY <1>1, GotoFacts DEF RenameTemporary
<1>3. /\ temp'[f] = None
      /\ temp[f] # None => dest'[f] = temp[f]
      /\ temp[f] = None => dest'[f] = dest[f]
      /\ \A v \in Version : v # f => temp'[v] = temp[v] /\ dest'[v] = dest[v]
  BY <1>1 DEF RenameTemporary, TypeOK
<1>4. \A v \in Version : v # f => (Intact(v)' <=> Intact(v))
  BY <1>1, <1>3 DEF Intact, Movie
<1>5. ~Intact(f)
  BY <1>1 DEF StageInv, Lacking
<1>6. FilesInv'
  BY <1>1, <1>2, <1>3 DEF FilesInv, Receiving
<1>7. ASSUME Summed # Version, temp[f] # None
      PROVE  dest'[f] # None /\ data'[dest'[f]] = Movie(f)
  <2>1. temp[f] \in Inode /\ data[temp[f]] \in Seq(Block) /\ Content(temp[f]) = data[temp[f]]
    BY <1>1, <1>7 DEF TypeOK, Content
  <2>2. Len(data[temp[f]]) = Size[f] /\ \A k \in 1..Len(data[temp[f]]) : data[temp[f]][k] = <<f, k>>
    BY <1>1, <1>7, <2>1 DEF CopyInv, BeginningInv, TemporaryIsPrefix
  <2>3. data[temp[f]] = Movie(f)
    BY <1>1, <2>1, <2>2, WholePrefix
  <2> QED
    BY <1>1, <1>3, <1>7, <2>3
<1>8. \A v \in Version : Intact(v) => Intact(v)'
  BY <1>4, <1>5
<1>9. StageInv'
  <2>1. ASSUME job'[h].pc = "verified" PROVE Intact(job[h].file)'
    <3>1. dest'[f] # None /\ data'[dest'[f]] = Movie(f)
      BY <1>1, <1>2, <1>7, <2>1
    <3> QED
      BY <1>2, <3>1 DEF Intact, Movie
  <2> QED
    BY <1>1, <1>2, <2>1 DEF StageInv, Lacking
<1>10. Summed # Version => CopyInv'
  <2> SUFFICES ASSUME Summed # Version, Version = {"raw"} PROVE CopyInv'
    BY DEF Dependable
  <2>1. f = "raw" /\ Content(temp["raw"])' = <<>>
    BY <1>1, <1>3 DEF Content
  <2>2. TemporaryIsPrefix'
    <3>1. Size["raw"] \in Nat /\ Len(<<>>) = 0
      BY SizeAssumption, VersionAssumption
    <3> QED
      BY <2>1, <3>1 DEF TemporaryIsPrefix
  <2>3. \A v \in Version : dest'[v] # None => Intact(v)'
    BY <1>1, <1>3, <1>5, <1>7, <2>1 DEF CopyInv, BeginningInv, Intact, Movie
  <2> QED
    BY <1>1, <1>2, <2>2, <2>3 DEF CopyInv, BeginningInv, Receiving
<1>11. GivenInv'
  BY <1>1, <1>8 DEF GivenInv, AcknowledgedIsOnDisk
<1>12. [Promise!Next]_(Promise!vars)
  <2>1. CASE \E v \in Version : Intact(v)
    <3>1. (\E v \in Version : Intact(v))' = (\E v \in Version : Intact(v))
      BY <1>8, <2>1
    <3> QED
      BY <1>1, <3>1 DEF Promise!vars
  <2>2. CASE ~\E v \in Version : Intact(v)
    <3>1. CASE \E v \in Version : Intact(v)'
      <4>1. Promise!Copy
        BY <1>1, <2>2, <3>1 DEF Promise!Copy
      <4> QED
        BY <4>1 DEF Promise!Next
    <3>2. CASE ~\E v \in Version : Intact(v)'
      <4>1. (\E v \in Version : Intact(v))' = (\E v \in Version : Intact(v))
        BY <2>2, <3>2
      <4> QED
        BY <1>1, <4>1 DEF Promise!vars
    <3> QED
      BY <3>1, <3>2
  <2> QED
    BY <2>1, <2>2
<1> QED
  BY <1>6, <1>9, <1>10, <1>11, <1>12

\* What the phone and its user do changes nothing on the computer.
LEMMA PhoneSteps ==
  ASSUME PromiseInv, TypeOK', PhoneRerenders \/ UserDeletes \/ UNCHANGED vars
  PROVE  PromiseInv' /\ [Promise!Next]_(Promise!vars)
<1> USE DEF PromiseInv
<1>1. data' = data /\ temp' = temp /\ dest' = dest /\ job' = job
  BY DEF PhoneRerenders, UserDeletes, vars
<1>2. \A v \in Version : (Intact(v)' <=> Intact(v)) /\ Content(temp[v])' = Content(temp[v])
  BY <1>1, IntactFrame DEF Content
<1>3. FilesInv' /\ StageInv' /\ (CopyInv => CopyInv')
  <2>1. FilesInv'
    BY <1>1 DEF FilesInv, Receiving
  <2>2. StageInv'
    BY <1>1, <1>2, JobFacts DEF StageInv
  <2>3. CopyInv => CopyInv'
    BY <1>1, <1>2, JobFacts DEF CopyInv, BeginningInv, TemporaryIsPrefix, Receiving
  <2> QED
    BY <2>1, <2>2, <2>3
<1>4. (\E v \in Version : Intact(v))' = (\E v \in Version : Intact(v))
  BY <1>2
<1>5. CASE UserDeletes
  <2>1. given = "kept" /\ given' = "deleted" /\ served' = None
    BY <1>5 DEF UserDeletes, GivenInv
  <2>2. Promise!UserDeletes
    BY <1>4, <2>1 DEF Promise!UserDeletes
  <2> QED
    BY <1>3, <2>1, <2>2 DEF GivenInv, AcknowledgedIsOnDisk, Promise!Next
<1>6. CASE PhoneRerenders \/ UNCHANGED vars
  <2>1. given' = given /\ (served' = None <=> served = None)
    BY <1>6, NoneAssumption, VersionAssumption DEF PhoneRerenders, vars
  <2> QED
    BY <1>2, <1>3, <1>4, <2>1 DEF GivenInv, AcknowledgedIsOnDisk, Promise!vars
<1> QED
  BY <1>5, <1>6

LEMMA PromiseStep ==
  ASSUME Sole, Dependable, PromiseInv, [Next]_vars
  PROVE  PromiseInv' /\ [Promise!Next]_(Promise!vars)
<1>1. TypeOK'
  BY TypeStep DEF PromiseInv
<1> QED
  BY <1>1, QuietSteps, CheckStep, ResumeStep, ConnectStep, ReceiveStep, RemoveStep, RenameStep,
     PhoneSteps DEF Next, Step

\* As long as one helper at a time downloads a recording whose size is known,
\* and the recording is either summed or cannot be rendered anew, the phone
\* gives it up only for an intact copy, whatever connections and helpers do.
THEOREM SoleHelperKeepsPromise == Sole /\ Dependable => (Spec => PromiseKept)
<1> SUFFICES ASSUME Sole, Dependable PROVE Spec => PromiseKept
  OBVIOUS
<1>1. Init => PromiseInv /\ Promise!Init
  BY PromiseInit DEF Init, Promise!Init, Intact
<1>2. PromiseInv /\ [Next]_vars => PromiseInv' /\ [Promise!Next]_(Promise!vars)
  BY PromiseStep
<1> QED
  BY <1>1, <1>2, PTL DEF Spec, PromiseKept, Promise!Spec

\* Under the same conditions what was acknowledged is on the computer's disk.
THEOREM AcknowledgedStays == Sole /\ Dependable => (Spec => []AcknowledgedIsOnDisk)
<1> SUFFICES ASSUME Sole, Dependable PROVE Spec => []AcknowledgedIsOnDisk
  OBVIOUS
<1>1. PromiseInv /\ [Next]_vars => PromiseInv'
  BY PromiseStep
<1>2. PromiseInv => AcknowledgedIsOnDisk
  BY DEF PromiseInv, GivenInv
<1> QED
  BY <1>1, <1>2, PromiseInit, PTL DEF Spec
-----------------------------------------------------------------------------
(* One helper, and a recording the phone cannot render anew: whatever the  *)
(* descriptor says of its size and checksum, nothing but the movie's next  *)
(* block is ever written.                                                  *)

\* A step that closes the helper's file, and may drop or move it.
LEMMA ClosedFile ==
  ASSUME Version = {"raw"}, TypeOK, FilesInv, BeginningInv, TypeOK',
         NEW h \in Helper, \A g \in Helper : g = h,
         data' = data, temp'["raw"] \in {temp["raw"], None},
         temp'["raw"] # None => dest'["raw"] \in {dest["raw"], None},
         job'[h].out = None, job'[h].pc # "receiving",
         job'[h].pc = "loop" => job'[h].offset = Len(Content(temp["raw"]))'
  PROVE  FilesInv' /\ BeginningInv'
<1>1. job'[h].file = "raw"
  BY DEF TypeOK, Job
<1>2. FilesInv'
  BY <1>1, NoneAssumption DEF FilesInv, Receiving
<1>3. TemporaryIsPrefix'
  <2>1. CASE temp'["raw"] = None
    <3>1. Content(temp["raw"])' = <<>> /\ Size["raw"] \in Nat /\ Len(<<>>) = 0
      BY <2>1, SizeAssumption, VersionAssumption DEF Content
    <3> QED
      BY <3>1 DEF TemporaryIsPrefix
  <2>2. CASE temp'["raw"] = temp["raw"]
    BY <2>2 DEF BeginningInv, TemporaryIsPrefix, Content
  <2> QED
    BY <2>1, <2>2
<1> QED
  BY <1>1, <1>2, <1>3 DEF BeginningInv, Receiving

LEMMA BeginningStep ==
  ASSUME Sole, Version = {"raw"}, TypeOK, FilesInv, BeginningInv, [Next]_vars
  PROVE  FilesInv' /\ BeginningInv'
<1>1. TypeOK'
  BY TypeStep
<1>2. ASSUME NEW h \in Helper
      PROVE  /\ \A g \in Helper : g = h
             /\ job[h].file = "raw" /\ job[h].offset \in Nat /\ job[h].at \in Nat
             /\ job[h].end \in Nat /\ Size["raw"] \in Nat
             /\ Len(Content(temp["raw"])) \in Nat /\ Len(Content(temp["raw"])) <= Size["raw"]
             /\ job[h].pc # "receiving" => job[h].out = None
             /\ job[h].pc = "loop" => job[h].offset = Len(Content(temp["raw"]))
             /\ job[h].pc = "receiving" =>
                  /\ job[h].out # None /\ job[h].out = temp["raw"] /\ job[h].from = "raw"
                  /\ job[h].offset = Len(Content(temp["raw"]))
                  /\ job[h].at = Len(Content(temp["raw"])) /\ job[h].end <= Size["raw"]
  BY <1>2, JobFacts DEF Sole, FilesInv, BeginningInv, TemporaryIsPrefix, Receiving
<1>3. ASSUME NEW h \in Helper,
             \/ Prepare(h) \/ CheckDestination(h) \/ ResumeTemporary(h) \/ LeaveLoop(h)
             \/ ConnectionCloses(h) \/ AttemptFails(h) \/ RemoveDestination(h)
             \/ RenameTemporary(h) \/ VerifyChecksum(h) \/ Acknowledge(h) \/ Killed(h)
      PROVE  FilesInv' /\ BeginningInv'
  <2>1. data' = data
    BY <1>3 DEF Prepare, CheckDestination, ResumeTemporary, LeaveLoop, ConnectionCloses,
       AttemptFails, RemoveDestination, RenameTemporary, VerifyChecksum, Acknowledge, Killed
  <2>2. temp'["raw"] \in {temp["raw"], None}
        /\ (temp'["raw"] # None => dest'["raw"] \in {dest["raw"], None})
    BY <1>2, <1>3 DEF Prepare, CheckDestination, ResumeTemporary, LeaveLoop, ConnectionCloses,
       AttemptFails, RemoveDestination, RenameTemporary, VerifyChecksum, Acknowledge, Killed, TypeOK
  <2>3. /\ job'[h].out = None /\ job'[h].pc # "receiving"
        /\ job'[h].pc = "loop" => job'[h].offset = Len(Content(temp["raw"]))'
    <3>1. CASE Prepare(h)
      BY <3>1 DEF Prepare, NoJob, TypeOK
    <3>2. CASE ResumeTemporary(h)
      <4>1. temp' = temp /\ job[h].pc = "trim"
        BY <1>2, <3>2 DEF ResumeTemporary, TypeOK
      <4>2. Content(temp["raw"])' = Content(temp["raw"])
        BY <2>1, <4>1 DEF Content
      <4>3. ~(Len(Content(temp[job[h].file])) > Size[job[h].file])
        BY <1>2
      <4>4. job'[h].out = job[h].out /\ job'[h].pc = "loop"
            /\ job'[h].offset = Len(Content(temp[job[h].file]))
        BY <3>2, <4>3 DEF ResumeTemporary, TypeOK, Job
      <4> QED
        BY <1>2, <4>1, <4>2, <4>4
    <3>3. CASE ConnectionCloses(h) \/ AttemptFails(h)
      <4>1. Content(temp["raw"])' = Content(temp["raw"])
        BY <2>1, <3>3 DEF Content, ConnectionCloses, AttemptFails
      <4>2. CASE ConnectionCloses(h)
        BY <1>2, <4>1, <4>2 DEF ConnectionCloses, TypeOK, Job
      <4>3. CASE AttemptFails(h)
        BY <1>2, <4>1, <4>3, GotoFacts DEF AttemptFails, TypeOK, Job
      <4> QED
        BY <3>3, <4>2, <4>3
    <3>4. CASE \/ CheckDestination(h) \/ LeaveLoop(h) \/ RemoveDestination(h)
               \/ RenameTemporary(h) \/ VerifyChecksum(h) \/ Acknowledge(h) \/ Killed(h)
      BY <3>4, GotoFacts DEF CheckDestination, LeaveLoop, RemoveDestination, RenameTemporary,
         VerifyChecksum, Acknowledge, Killed
    <3> QED
      BY <1>3, <3>1, <3>2, <3>3, <3>4
  <2> QED
    BY <1>1, <1>2, <2>1, <2>2, <2>3, ClosedFile
<1>4. ASSUME NEW h \in Helper, Connect(h) PROVE FilesInv' /\ BeginningInv'
  <2> DEFINE o == job[h].offset
             had == Len(Content(temp["raw"]))
  <2>1. served = "raw" /\ o = had /\ dest' = dest /\ job[h].pc = "loop"
    BY <1>2, <1>4 DEF Connect, TypeOK
  <2>2. PICK i \in Inode, last \in Nat :
          /\ job' = [job EXCEPT ![h] = [job[h] EXCEPT !.pc = "receiving", !.out = i,
                      !.from = "raw", !.at = Lesser(o, Size["raw"]),
                      !.end = Lesser(last, Size["raw"])]]
          /\ \/ temp["raw"] = i /\ temp' = temp /\ data' = data
             \/ /\ temp["raw"] = None /\ ~Used(i)
                /\ temp' = [temp EXCEPT !["raw"] = i]
                /\ data' = [data EXCEPT ![i] = <<>>]
    <3> DEFINE last == IF Known(h) THEN Lesser(ByteCount(h), o + Chunk) ELSE Size["raw"]
    <3>1. last \in Nat
      BY <1>2, ChunkAssumption DEF Lesser, ByteCount
    <3>2. CASE temp["raw"] # None
      BY <1>2, <1>4, <2>1, <3>1, <3>2 DEF Connect, TypeOK
    <3>3. CASE temp["raw"] = None
      BY <1>2, <1>4, <2>1, <3>1, <3>3 DEF Connect
    <3> QED
      BY <3>2, <3>3
  <2>3. /\ job'[h].pc = "receiving" /\ job'[h].out = i /\ job'[h].file = "raw"
        /\ job'[h].from = "raw" /\ job'[h].offset = o
        /\ job'[h].at = Lesser(o, Size["raw"]) /\ job'[h].end = Lesser(last, Size["raw"])
    BY <1>2, <2>2 DEF TypeOK, Job
  <2>4. temp'["raw"] = i /\ i # None
    BY <2>2, NoneAssumption DEF TypeOK
  <2>5. dest["raw"] # i
    BY <2>2, <2>4 DEF Used, FilesInv
  <2>6. Content(temp["raw"])' = Content(temp["raw"])
    BY <2>2, <2>4 DEF Content, TypeOK
  <2>7. job'[h].at = had /\ job'[h].end <= Size["raw"]
    BY <1>2, <2>1, <2>2, <2>3 DEF Lesser
  <2>8. FilesInv'
    BY <1>2, <2>1, <2>3, <2>4, <2>5 DEF FilesInv, Receiving
  <2> QED
    BY <1>2, <2>1, <2>3, <2>6, <2>7, <2>8 DEF BeginningInv, TemporaryIsPrefix, Receiving
<1>5. ASSUME NEW h \in Helper, Receive(h) PROVE FilesInv' /\ BeginningInv'
  <2> DEFINE i == job[h].out
  <2>1. /\ dest' = dest /\ temp' = temp /\ job[h].pc = "receiving" /\ job[h].at < job[h].end
        /\ i # None /\ i \in Inode /\ i = temp["raw"] /\ Content(temp["raw"]) = data[i]
        /\ Content(temp["raw"])' = data'[i]
    BY <1>2, <1>5 DEF Receive, TypeOK, Content
  <2>2. data'[i] = Append(data[i], <<"raw", Len(data[i]) + 1>>)
    BY <1>2, <1>5, <2>1 DEF Receive, TypeOK
  <2>3. data[i] \in Seq(Block) /\ \A k \in 1..Len(data[i]) : data[i][k] = <<"raw", k>>
    BY <2>1 DEF TypeOK, BeginningInv, TemporaryIsPrefix
  <2>4. Len(data'[i]) = Len(data[i]) + 1 /\ \A k \in 1..Len(data'[i]) : data'[i][k] = <<"raw", k>>
    BY <2>2, <2>3, AppendNext
  <2>5. /\ job'[h].pc = "receiving" /\ job'[h].file = "raw" /\ job'[h].out = i
        /\ job'[h].from = "raw" /\ job'[h].end = job[h].end
        /\ job'[h].at = job[h].at + 1 /\ job'[h].offset = job[h].offset + 1
    BY <1>2, <1>5, <2>1 DEF Receive, TypeOK, Job
  <2>6. FilesInv'
    BY <1>2, <2>1, <2>5 DEF FilesInv, Receiving
  <2>7. TemporaryIsPrefix'
    BY <1>2, <2>1, <2>4 DEF TemporaryIsPrefix
  <2> QED
    <3>1. job'[h].at = Len(Content(temp["raw"]))' /\ job'[h].offset = Len(Content(temp["raw"]))'
      BY <1>2, <2>1, <2>4, <2>5
    <3>2. job'[h].end <= Size["raw"] /\ \A g \in Helper : g = h
      BY <1>2, <2>1, <2>5
    <3> QED
      BY <2>5, <2>6, <2>7, <3>1, <3>2 DEF BeginningInv, Receiving
<1>6. CASE PhoneRerenders \/ UserDeletes \/ UNCHANGED vars
  <2>1. data' = data /\ temp' = temp /\ dest' = dest /\ job' = job
    BY <1>6 DEF PhoneRerenders, UserDeletes, vars
  <2> QED
    BY <2>1 DEF FilesInv, BeginningInv, TemporaryIsPrefix, Content, Receiving
<1> QED
  BY <1>3, <1>4, <1>5, <1>6 DEF Next, Step

\* No early close, failed attempt, kill or later helper leaves a gap or a
\* repetition in what one helper at a time resumes from, as long as the phone
\* keeps serving the movie that was shot.
THEOREM ResumedFromABeginning ==
  Sole /\ Version = {"raw"} => (Spec => []TemporaryIsPrefix)
<1> SUFFICES ASSUME Sole, Version = {"raw"} PROVE Spec => []TemporaryIsPrefix
  OBVIOUS
<1> DEFINE Inv == TypeOK /\ FilesInv /\ BeginningInv
<1>1. Init => Inv
  <2> SUFFICES ASSUME Init PROVE Inv
    OBVIOUS
  <2>1. Content(temp["raw"]) = <<>> /\ Size["raw"] \in Nat /\ Len(<<>>) = 0
    BY SizeAssumption, VersionAssumption DEF Init, Content
  <2>2. BeginningInv
    BY <2>1 DEF Init, BeginningInv, TemporaryIsPrefix, NoJob, Receiving
  <2>3. FilesInv
    BY PromiseInit DEF PromiseInv
  <2> QED
    BY <2>2, <2>3, TypeInit
<1>2. Inv /\ [Next]_vars => Inv'
  BY BeginningStep, TypeStep
<1>3. Inv => TemporaryIsPrefix
  BY DEF BeginningInv
<1> HIDE DEF Inv
<1> QED
  BY <1>1, <1>2, <1>3, PTL DEF Spec
=============================================================================
