------------------------- MODULE PhoneRecorderProofs -------------------------
(***************************************************************************)
(* Proofs about PhoneRecorder, for every set of takes and connections: the *)
(* variables keep their types, and, when clients overlap at most their     *)
(* stops (Overlap \subseteq {"stop"}), no footage is lost.                 *)
(***************************************************************************)
EXTENDS PhoneRecorder, TLAPS

\* The phone's variables keep their types, whatever clients overlap.
LEMMA TypeStep == TypeOK /\ [Next]_vars => TypeOK'
<1> SUFFICES ASSUME TypeOK, [Next]_vars PROVE TypeOK'
  OBVIOUS
<1> USE DEF TypeOK
<1>1. CASE ConfigureSession
  BY <1>1 DEF ConfigureSession
<1>2. ASSUME NEW look \in Look, ApplyProfile(look) PROVE TypeOK'
  BY <1>2 DEF ApplyProfile
<1>3. ASSUME NEW t \in Take, StartRecording(t) PROVE TypeOK'
  BY <1>3 DEF StartRecording, FileState, Fate, Raw, Name
<1>4. ASSUME NEW c \in Connection, StopRecording(c) PROVE TypeOK'
  BY <1>4 DEF StopRecording, Handler, PreparePhase, Reply, Idle, NoReply
<1>5. CASE CameraFinishes
  BY <1>5 DEF CameraFinishes, FileState, Fate, Raw, Name, Finish, FinishPhase, NoFinish, Look
<1>6. CASE CameraFails
  BY <1>6 DEF CameraFails, FileState, Fate, Raw, Name, Finish, FinishPhase, NoFinish, Look
<1>7. ASSUME NEW t \in Take, FinishWithError(t) PROVE TypeOK'
  BY <1>7 DEF FinishWithError, ResumeStop, Finish, FinishPhase, NoFinish, Look, camera,
              Handler, PreparePhase, Idle, Reply
<1>8. ASSUME NEW t \in Take, FinishBegins(t) PROVE TypeOK'
  BY <1>8 DEF FinishBegins, Finish, FinishPhase, camera
<1>9. ASSUME NEW t \in Take, FinishStores(t) PROVE TypeOK'
  <2> DEFINE id == Raw(IF activeID # None THEN activeID ELSE t)
             r == [url |-> Raw(t), state |-> "pending", sum |-> SumOf(Raw(t)),
                   look |-> finish[t].look, rendered |-> "natural"]
  <2>1. id \in Name /\ r \in Record
    BY DEF Raw, Name, Record, SumOf, TransferState, Finish, Look
  <2>2. store' = [store EXCEPT ![id] = r] /\ ResumeStop("stopped", id, Raw(t))
    BY <1>9 DEF FinishStores
  <2> HIDE DEF id, r
  <2>3. store' \in [Name -> Record \cup {None}]
    BY <2>1, <2>2
  <2>4. handler' \in [Connection -> Handler] /\ stopWaiter' = None
    BY <2>2 DEF ResumeStop, Handler, Idle
  <2>5. reply' \in [Connection -> Reply]
    BY <2>1, <2>2 DEF ResumeStop, Handler, Reply, Raw, Name
  <2> QED
    BY <1>9, <2>3, <2>4, <2>5 DEF FinishStores, Finish, FinishPhase, NoFinish, Look
<1>10. ASSUME NEW c \in Connection, NEW n \in Name, PrepareBegins(c, n) PROVE TypeOK'
  BY <1>10 DEF PrepareBegins, Listed, Rendered, TakeOf, Name, FileState, Handler, PreparePhase,
               Reply, NoReply, camera
<1>11. ASSUME NEW c \in Connection, ExportEnds(c) PROVE TypeOK'
  BY <1>11, SMTT(60) DEF ExportEnds, Rendered, TakeOf, Name, FileState, Handler, PreparePhase, camera
<1>12. ASSUME NEW c \in Connection, ExportResumes(c) PROVE TypeOK'
  <2>1. handler[c].phase \in PreparePhase
    BY <1>12 DEF ExportResumes, PreparePhase
  <2>2. handler[c].id \in Name /\ handler[c].rec \in Record
    BY <2>1 DEF Handler, PreparePhase
  <2>3. Rendered(handler[c].id) \in Name
    BY <2>2 DEF Rendered, TakeOf, Name
  <2>4. file' \in [Name -> FileState]
    BY <1>12 DEF ExportResumes, FileState
  <2>5. handler' \in [Connection -> Handler]
    <3>1. ASSUME NEW u \in Name, NEW l \in Look
          PROVE  [[handler[c].rec EXCEPT !.url = u] EXCEPT !.rendered = l] \in Record
      BY <2>2 DEF Record
    <3>2. ASSUME NEW r \in Record
          PROVE  [handler[c] EXCEPT !.phase = "inspecting", !.rec = r] \in Handler
      BY <2>1 DEF Handler, PreparePhase
    <3>3. CASE handler[c].phase = "exported"
      <4>1. handler[c].rec.look \in Look
        BY <2>2 DEF Record
      <4>2. [handler[c].rec EXCEPT !.url = Rendered(handler[c].id),
                                   !.rendered = handler[c].rec.look] \in Record
        BY <2>3, <3>1, <4>1
      <4> QED
        BY <1>12, <3>3, <3>2, <4>2 DEF ExportResumes
    <3>4. CASE handler[c].phase = "exportFailed"
      <4>1. [handler[c].rec EXCEPT !.rendered = "natural"] \in Record
        BY <2>2 DEF Record, Look
      <4> QED
        BY <1>12, <3>4, <3>2, <4>1 DEF ExportResumes
    <3> QED
      BY <1>12, <3>3, <3>4 DEF ExportResumes
  <2> QED
    BY <1>12, <2>4, <2>5 DEF ExportResumes, camera
<1>13. ASSUME NEW c \in Connection, PrepareStores(c) PROVE TypeOK'
  BY <1>13 DEF PrepareStores, SumOf, Handler, PreparePhase, Idle, Record, camera
<1>14. ASSUME NEW n \in Name, NEW r \in Record, DeleteFileThenRecord(n, r), Listed(n), Discard(store[n])
       PROVE  /\ file' \in [Name -> FileState]
              /\ store' \in [Name -> Record \cup {None}]
              /\ fate' \in [Take -> Fate]
  BY <1>14 DEF DeleteFileThenRecord, Discard, FileState, Fate
<1>15. ASSUME NEW n \in Name, TransferComplete(n) \/ DeleteRecording(n) PROVE TypeOK'
  <2>1. store[n] \in Record /\ [store[n] EXCEPT !.state = "transferred"] \in Record
    BY <1>15 DEF TransferComplete, DeleteRecording, Listed, Record, TransferState
  <2> QED
    BY <1>14, <1>15, <2>1 DEF TransferComplete, DeleteRecording, camera
<1>16. CASE Restart
  BY <1>16 DEF Restart, Record, TransferState, Look, Finish, FinishPhase, NoFinish,
               Handler, PreparePhase, Idle, Reply, NoReply, Fate
<1>17. CASE UNCHANGED vars
  BY <1>17 DEF vars, camera
<1> QED
  BY <1>1, <1>2, <1>3, <1>4, <1>5, <1>6, <1>7, <1>8, <1>9, <1>10, <1>11, <1>12, <1>13,
     <1>15, <1>16, <1>17 DEF Next

LEMMA TypeInit == Init => TypeOK
<1> SUFFICES ASSUME Init PROVE TypeOK
  OBVIOUS
<1>1. Idle \in Handler /\ NoReply \in Reply /\ NoFinish \in Finish
  BY DEF Idle, Handler, NoReply, Reply, NoFinish, Finish, FinishPhase, Look
<1>2. "absent" \in FileState /\ "natural" \in Look /\ "unused" \in Fate
  BY DEF FileState, Look, Fate
<1> QED
  BY <1>1, <1>2 DEF Init, TypeOK

\* Every reachable state is well typed: in particular each listed record points
\* at one of the phone's files and each suspended command keeps its own copy.
THEOREM TypeCorrect == Spec => []TypeOK
BY TypeInit, TypeStep, PTL DEF Spec
-----------------------------------------------------------------------------
(***************************************************************************)
(* Footage.  FootageIsKept is not inductive: that a prepare may remove the *)
(* original depends on what its connection has seen of the export, and     *)
(* that depends on no other prepare or take touching the same files.       *)
(***************************************************************************)
Kept(t) == fate[t] \in {"captured", "interrupted"}
Fresh(t) == Finishing(t) \/ fate[t] \in {"unused", "shooting"}
PrepPhase(c) == handler[c].phase \in PreparePhase

\* The camera works on one take at a time, which nothing else has touched yet.
CameraInv ==
  /\ output # None => fate[output] = "shooting" /\ activeID = output
  /\ \A t \in Take : Finishing(t) =>
       /\ output = None
       /\ fate[t] \notin {"unused", "shooting"}
       /\ \A u \in Take : Finishing(u) => u = t
       /\ finish[t].phase # "error" => activeID = t /\ file[Raw(t)] = "whole"
  /\ \A n \in Name : file[n] # "absent" => fate[TakeOf(n)] # "unused"

\* A listed record serves its own take; one that still needs its look rendered
\* serves the original, which is complete unless a prepare is replacing it.
StoreInv ==
  \A n \in Name : Listed(n) =>
    /\ ~Fresh(TakeOf(n))
    /\ TakeOf(store[n].url) = TakeOf(n)
    /\ NeedsExport(store[n]) =>
         /\ n = Raw(TakeOf(n))
         /\ store[n].url = n
         /\ Kept(TakeOf(n)) /\ ~Preparing(n) => file[n] = "whole"

\* A prepare works on the original of its take, alone; what its copy of the
\* record serves is complete from the moment the original may be gone.
PrepareInv ==
  \A c \in Connection : PrepPhase(c) =>
    LET n == handler[c].id
        r == handler[c].rec
    IN  /\ n = Raw(TakeOf(n))
        /\ ~Fresh(TakeOf(n))
        /\ r.look = "styled"
        /\ handler[c].phase # "inspecting" => r.url = n
        /\ handler[c].phase = "inspecting" =>
             \/ r.url = n /\ r.rendered = "natural"
             \/ r.url = Rendered(n) /\ r.rendered = "styled"
        /\ Kept(TakeOf(n)) =>
             IF handler[c].phase = "exported" THEN file[Rendered(n)] = "whole"
                                              ELSE file[r.url] = "whole"
        /\ \A d \in Connection : PrepPhase(d) /\ handler[d].id = n => d = c

\* The connection to be answered is suspended in a stop, for the take that is
\* being recorded or finished.
StopWaits ==
  stopWaiter # None =>
    /\ handler[stopWaiter].phase = "stop"
    /\ handler[stopWaiter].take \in Take
    /\ output = handler[stopWaiter].take \/ Finishing(handler[stopWaiter].take)

IInv == TypeOK /\ CameraInv /\ StopWaits /\ StoreInv /\ PrepareInv /\ FootageIsKept

\* File names: each name is the original or the rendered movie of its take.
LEMMA NameFacts ==
  /\ \A t \in Take : Raw(t) \in Name /\ TakeOf(Raw(t)) = t
  /\ \A n \in Name :
       /\ TakeOf(n) \in Take
       /\ Rendered(n) \in Name
       /\ TakeOf(Rendered(n)) = TakeOf(n)
       /\ n = Raw(TakeOf(n)) \/ n = Rendered(n)
       /\ Raw(TakeOf(n)) # Rendered(n)
BY DEF Name, Raw, Rendered, TakeOf

\* What TypeOK says of one listed record and of one connection's prepare.
LEMMA RecordType ==
  ASSUME TypeOK, NEW n \in Name, Listed(n)
  PROVE  store[n] \in Record /\ store[n].url \in Name
BY DEF TypeOK, Listed, Record

LEMMA HandlerType ==
  ASSUME TypeOK, NEW c \in Connection, PrepPhase(c)
  PROVE  /\ handler[c].id \in Name
         /\ handler[c].rec \in Record
         /\ handler[c].rec.url \in Name
BY DEF TypeOK, PrepPhase, PreparePhase, Handler, Record

LEMMA FootageInit == Init => IInv
<1> SUFFICES ASSUME Init PROVE IInv
  OBVIOUS
<1>1. TypeOK
  BY TypeInit
<1>2. CameraInv
  BY DEF Init, CameraInv, Finishing, NoFinish
<1>3. StoreInv
  BY DEF Init, StoreInv, Listed
<1>4. PrepareInv
  BY DEF Init, PrepareInv, PrepPhase, PreparePhase, Idle
<1>5. FootageIsKept
  BY DEF Init, FootageIsKept
<1>6. StopWaits
  BY DEF Init, StopWaits
<1> QED
  BY <1>1, <1>2, <1>3, <1>4, <1>5, <1>6 DEF IInv

\* Starting a take: nothing else refers to its files yet.
LEMMA StartKeepsFootage ==
  ASSUME IInv, TypeOK', Overlap \subseteq {"stop"}, NEW t \in Take, StartRecording(t)
  PROVE  IInv'
<1> USE NameFacts
<1>1. \A u \in Take : ~Finishing(u) /\ finish'[u] = finish[u] /\ (u # t => fate'[u] = fate[u])
  BY DEF StartRecording, IInv, TypeOK
<1>2. fate[t] = "unused" /\ fate'[t] = "shooting" /\ Fresh(t)
  BY DEF StartRecording, IInv, TypeOK, Fresh
<1>3. \A n \in Name : n # Raw(t) => file'[n] = file[n]
  BY DEF StartRecording, IInv, TypeOK
<1>4. CameraInv'
  BY <1>1, <1>2, <1>3 DEF StartRecording, IInv, CameraInv, Finishing
<1>5. StoreInv'
  BY <1>1, <1>2, <1>3 DEF StartRecording, IInv, StoreInv, Listed, Fresh, Finishing, Kept,
     Preparing, NeedsExport
<1>6. PrepareInv'
  <2>1. \A c \in Connection : PrepPhase(c) => handler[c].id \in Name /\ handler[c].rec.url \in Name
    BY HandlerType DEF IInv
  <2> QED
    BY <1>1, <1>2, <1>3, <2>1 DEF StartRecording, IInv, PrepareInv, PrepPhase, Fresh, Finishing, Kept
<1>7. FootageIsKept'
  BY <1>1, <1>2, <1>3 DEF IInv, FootageIsKept
<1>8. StopWaits'
  BY <1>1, NoneAssumption DEF StartRecording, IInv, StopWaits
<1> QED
  BY <1>4, <1>5, <1>6, <1>7, <1>8 DEF IInv

\* The camera closes a file: its take becomes complete or is lost.
LEMMA CameraKeepsFootage ==
  ASSUME IInv, TypeOK', CameraFinishes \/ CameraFails
  PROVE  IInv'
<1> USE NameFacts
<1> PICK t \in Take : t = output
  BY DEF CameraFinishes, CameraFails, IInv, TypeOK
<1>1. t \in Take /\ fate[t] = "shooting" /\ activeID = t /\ Fresh(t)
  BY DEF CameraFinishes, CameraFails, IInv, TypeOK, CameraInv, Fresh
<1>2. /\ output' = None /\ activeID' = activeID /\ store' = store /\ handler' = handler
      /\ \A u \in Take : u # t => fate'[u] = fate[u] /\ finish'[u] = finish[u]
      /\ \A n \in Name : n # Raw(t) => file'[n] = file[n]
  BY <1>1 DEF CameraFinishes, CameraFails, IInv, TypeOK
<1>3. finish'[t].phase # "none" /\ Finishing(t)' /\ Fresh(t)'
  BY <1>1 DEF CameraFinishes, CameraFails, IInv, TypeOK, NoFinish, Finishing, Fresh
<1>4. /\ fate'[t] \in {"captured", "interrupted", "lost"}
      /\ fate'[t] # "lost" => file'[Raw(t)] = "whole"
      /\ finish'[t].phase # "error" => file'[Raw(t)] = "whole"
  BY <1>1 DEF CameraFinishes, CameraFails, IInv, TypeOK, NoFinish
<1>5. CameraInv'
  <2>1. \A u \in Take : ~Finishing(u)
    BY <1>1 DEF CameraFinishes, CameraFails, IInv, CameraInv
  <2>2. \A u \in Take : Finishing(u)' => u = t
    BY <1>2, <2>1 DEF Finishing
  <2>3. \A n \in Name : file'[n] # "absent" => fate'[TakeOf(n)] # "unused"
    BY <1>1, <1>2, <1>4 DEF IInv, CameraInv
  <2>4. finish'[t].phase # "error" => activeID' = t /\ file'[Raw(t)] = "whole"
    BY <1>1, <1>2, <1>4
  <2> QED
    BY <1>2, <1>4, <2>2, <2>3, <2>4 DEF CameraInv
<1>6. StoreInv'
  <2> SUFFICES ASSUME NEW n \in Name, Listed(n)
               PROVE  StoreInv!(n)!2'
    BY <1>2 DEF StoreInv, Listed
  <2>1. ~Fresh(TakeOf(n)) /\ TakeOf(n) # t
    BY <1>1 DEF IInv, StoreInv
  <2>2. ~Fresh(TakeOf(n))' /\ (Kept(TakeOf(n))' <=> Kept(TakeOf(n))) /\ file'[n] = file[n]
    BY <1>2, <2>1 DEF Fresh, Finishing, Kept
  <2>3. (Preparing(n)' <=> Preparing(n)) /\ (NeedsExport(store[n])' <=> NeedsExport(store[n]))
    BY <1>2 DEF Preparing, NeedsExport
  <2> QED
    BY <1>2, <2>2, <2>3 DEF IInv, StoreInv
<1>7. PrepareInv'
  <2>1. \A c \in Connection : PrepPhase(c) => handler[c].id \in Name /\ handler[c].rec.url \in Name
    BY HandlerType DEF IInv
  <2> QED
    BY <1>1, <1>2, <1>3, <2>1 DEF IInv, PrepareInv, PrepPhase, Fresh, Finishing, Kept
<1>8. FootageIsKept'
  BY <1>1, <1>2, <1>4 DEF IInv, FootageIsKept
<1>9. StopWaits'
  BY <1>1, <1>2, <1>3 DEF CameraFinishes, CameraFails, IInv, TypeOK, CameraInv, StopWaits, Finishing
<1> QED
  BY <1>5, <1>6, <1>7, <1>8, <1>9 DEF IInv

\* Suspended prepares are unaffected by what happens to stop commands.
LEMMA StopAndProfileKeepFootage ==
  ASSUME IInv, TypeOK',
         \/ ConfigureSession
         \/ \E look \in Look : ApplyProfile(look)
         \/ \E c \in Connection : StopRecording(c)
         \/ UNCHANGED vars
  PROVE  IInv'
<1>1. /\ file' = file /\ store' = store /\ output' = output /\ activeID' = activeID
      /\ finish' = finish /\ fate' = fate
  BY DEF ConfigureSession, ApplyProfile, StopRecording, vars, camera
<1>2. \A c \in Connection :
       /\ PrepPhase(c)' <=> PrepPhase(c)
       /\ PrepPhase(c) => handler'[c] = handler[c]
  <2>1. CASE \E c \in Connection : StopRecording(c)
    <3>1. PICK c \in Connection : StopRecording(c)
      BY <2>1
    <3>2. /\ handler[c].phase = "idle" /\ handler'[c].phase = "stop"
          /\ \A d \in Connection : d # c => handler'[d] = handler[d]
      BY <3>1 DEF StopRecording, IInv, TypeOK, Idle
    <3> QED
      BY <3>2 DEF PrepPhase, PreparePhase
  <2>2. CASE handler' = handler
    BY <2>2 DEF PrepPhase
  <2> QED
    BY <2>1, <2>2 DEF ConfigureSession, ApplyProfile, vars
<1>3. \A n \in Name : Preparing(n)' <=> Preparing(n)
  BY <1>2 DEF Preparing, PrepPhase
<1>4. CameraInv'
  BY <1>1 DEF IInv, CameraInv, Finishing
<1>5. StoreInv'
  BY <1>1, <1>3 DEF IInv, StoreInv, Listed, Fresh, Finishing, Kept, NeedsExport
<1>6. PrepareInv'
  BY <1>1, <1>2 DEF IInv, PrepareInv, Fresh, Finishing, Kept
<1>7. FootageIsKept'
  BY <1>1 DEF IInv, FootageIsKept
<1>8. StopWaits'
  <2>1. ASSUME NEW c \in Connection, StopRecording(c) PROVE StopWaits'
    <3>1. /\ stopWaiter' = c /\ output' = output /\ output \in Take
          /\ handler'[c].phase = "stop" /\ handler'[c].take = output
      BY <2>1 DEF StopRecording, IInv, TypeOK, Idle
    <3> QED
      BY <3>1 DEF StopWaits
  <2>2. CASE handler' = handler /\ stopWaiter' = stopWaiter
    BY <1>1, <2>2 DEF IInv, StopWaits, Finishing
  <2> QED
    BY <2>1, <2>2 DEF ConfigureSession, ApplyProfile, vars
<1> QED
  BY <1>4, <1>5, <1>6, <1>7, <1>8 DEF IInv

\* The delegate callback: the finished take gets its record.
LEMMA FinishKeepsFootage ==
  ASSUME IInv, TypeOK', NEW t \in Take,
         FinishWithError(t) \/ FinishBegins(t) \/ FinishStores(t)
  PROVE  IInv'
<1> USE NameFacts
<1>1. Finishing(t) /\ output = None /\ fate[t] \notin {"unused", "shooting"} /\ Fresh(t)
  BY DEF FinishWithError, FinishBegins, FinishStores, Finishing, Fresh, IInv, CameraInv
<1>2. \A u \in Take : u # t => ~Finishing(u)
  BY <1>1 DEF IInv, CameraInv
<1>3. /\ file' = file /\ output' = output /\ fate' = fate
      /\ \A u \in Take : u # t => finish'[u] = finish[u]
  BY DEF FinishWithError, FinishBegins, FinishStores, IInv, TypeOK, camera
<1>4. \A u \in Take : ~Fresh(u) => ~Fresh(u)'
  BY <1>1, <1>3 DEF Fresh, Finishing
<1>5. \A c \in Connection :
       /\ PrepPhase(c)' => PrepPhase(c) /\ handler'[c] = handler[c]
       /\ PrepPhase(c) /\ c # stopWaiter => PrepPhase(c)'
  BY DEF FinishWithError, FinishBegins, FinishStores, ResumeStop, IInv, TypeOK, Idle,
         PrepPhase, PreparePhase
<1>6. CameraInv'
  <2>1. ASSUME Finishing(t)', finish'[t].phase # "error"
        PROVE  activeID' = t /\ file'[Raw(t)] = "whole"
    <3>1. FinishBegins(t)
      BY <2>1 DEF FinishWithError, FinishStores, Finishing, NoFinish, IInv, TypeOK
    <3>2. finish[t].phase # "error" /\ activeID' = activeID
      BY <3>1 DEF FinishBegins, camera
    <3> QED
      BY <1>1, <1>3, <3>2 DEF IInv, CameraInv
  <2>2. \A u \in Take : Finishing(u)' => u = t
    BY <1>2, <1>3 DEF Finishing
  <2> QED
    BY <1>1, <1>3, <2>1, <2>2 DEF IInv, CameraInv
<1>7. PrepareInv'
  <2>1. \A c \in Connection : PrepPhase(c) => handler[c].id \in Name /\ handler[c].rec.url \in Name
    BY HandlerType DEF IInv
  <2> QED
    BY <1>3, <1>4, <1>5, <2>1 DEF IInv, PrepareInv, Kept
<1>8. StoreInv'
  <2> SUFFICES ASSUME NEW n \in Name, Listed(n)'
               PROVE  StoreInv!(n)!2'
    BY DEF StoreInv
  <2>1. CASE FinishStores(t) /\ n = Raw(t)
    <3>1. activeID = t /\ file[Raw(t)] = "whole"
      BY <1>1, <2>1 DEF FinishStores, IInv, CameraInv
    <3>2. store'[n].url = n /\ ~Fresh(t)'
      BY <1>1, <1>3, <2>1, <3>1 DEF FinishStores, IInv, TypeOK, NoFinish, Fresh, Finishing
    <3> QED
      BY <1>3, <2>1, <3>1, <3>2
  <2>2. CASE ~(FinishStores(t) /\ n = Raw(t))
    <3>1. Listed(n) /\ store'[n] = store[n]
      <4>1. CASE FinishStores(t)
        <5>1. activeID = t
          BY <1>1, <4>1 DEF FinishStores, IInv, CameraInv
        <5> QED
          BY <2>2, <4>1, <5>1 DEF FinishStores, IInv, TypeOK, Listed
      <4> QED
        BY <4>1 DEF FinishWithError, FinishBegins, Listed
    <3>2. Preparing(n) => Preparing(n)'
      <4>1. ASSUME NEW c \in Connection, PrepPhase(c) PROVE handler'[c] = handler[c]
        <5>1. c # stopWaiter
          BY <4>1, NoneAssumption DEF IInv, StopWaits, PrepPhase, PreparePhase
        <5> QED
          BY <4>1, <5>1, <1>5
      <4> QED
        BY <4>1 DEF Preparing, PrepPhase
    <3> QED
      BY <1>3, <1>4, <3>1, <3>2 DEF IInv, StoreInv, NeedsExport, Kept
  <2> QED
    BY <2>1, <2>2
<1>9. FootageIsKept'
  BY <1>3 DEF IInv, FootageIsKept
<1>10. StopWaits'
  BY <1>1, <1>2, <1>3 DEF FinishWithError, FinishBegins, FinishStores, ResumeStop, IInv, TypeOK,
     CameraInv, StopWaits, Finishing
<1> QED
  BY <1>6, <1>7, <1>8, <1>9, <1>10 DEF IInv

\* A step of a connection's prepare changes neither the camera's state nor the
\* fate of a take: what is common to the four lemmas below.
LEMMA PrepareFrame ==
  ASSUME IInv, TypeOK', NEW c \in Connection,
         \/ \E n \in Name : PrepareBegins(c, n)
         \/ ExportEnds(c) \/ ExportResumes(c) \/ PrepareStores(c)
  PROVE  /\ output' = output /\ activeID' = activeID /\ finish' = finish /\ fate' = fate
         /\ stopWaiter' = stopWaiter
         /\ handler[c].phase # "stop"
         /\ \A d \in Connection \ {c} : handler'[d] = handler[d]
         /\ \A t \in Take : Fresh(t)' <=> Fresh(t)
         /\ \A t \in Take : Kept(t)' <=> Kept(t)
         /\ StopWaits'
<1>1. /\ output' = output /\ activeID' = activeID /\ finish' = finish /\ fate' = fate
      /\ stopWaiter' = stopWaiter
      /\ handler[c].phase # "stop"
      /\ \A d \in Connection \ {c} : handler'[d] = handler[d]
  BY DEF PrepareBegins, ExportEnds, ExportResumes, PrepareStores, camera, IInv, TypeOK
<1>2. StopWaits'
  BY <1>1, NoneAssumption DEF IInv, TypeOK, StopWaits, Finishing
<1> QED
  BY <1>1, <1>2 DEF Fresh, Finishing, Kept

\* Beginning a prepare removes only the leftover of an earlier export: the
\* record still needs its look, so what it serves is the complete original.
LEMMA PrepareBeginsKeepsFootage ==
  ASSUME IInv, TypeOK', Overlap \subseteq {"stop"},
         NEW c \in Connection, NEW n \in Name, PrepareBegins(c, n)
  PROVE  IInv'
<1> USE NameFacts
<1>1. /\ output' = output /\ activeID' = activeID /\ finish' = finish /\ fate' = fate
      /\ \A d \in Connection \ {c} : handler'[d] = handler[d]
      /\ \A t \in Take : Fresh(t)' <=> Fresh(t)
      /\ \A t \in Take : Kept(t)' <=> Kept(t)
      /\ StopWaits'
  BY PrepareFrame
<1>2. /\ ~Fresh(TakeOf(n)) /\ n = Raw(TakeOf(n)) /\ store[n].url = n
      /\ ~Preparing(n) /\ NeedsExport(store[n])
      /\ Kept(TakeOf(n)) => file[n] = "whole"
  BY DEF PrepareBegins, IInv, StoreInv
<1>3. /\ store' = store /\ ~PrepPhase(c) /\ PrepPhase(c)'
      /\ handler'[c].id = n /\ handler'[c].rec = store[n]
      /\ handler'[c].phase = IF file[n] # "absent" THEN "exporting" ELSE "exportFailed"
  BY <1>2 DEF PrepareBegins, IInv, TypeOK, PrepPhase, PreparePhase
<1>4. \A m \in Name : m # Rendered(n) => file'[m] = file[m]
  BY DEF PrepareBegins, IInv, TypeOK
<1>5. n # Rendered(n) /\ file'[n] = file[n]
  BY <1>2, <1>4
<1>6. store[n].look = "styled" /\ store[n] \in Record
  BY <1>2, RecordType DEF PrepareBegins, NeedsExport, Record, Look, IInv
<1>7. \A m \in Name : Preparing(m) => Preparing(m)'
  <2> SUFFICES ASSUME NEW m \in Name, NEW d \in Connection, PrepPhase(d), handler[d].id = m
               PROVE  PrepPhase(d)' /\ handler'[d].id = m
    BY DEF Preparing, PrepPhase
  <2>1. d # c
    BY <1>3
  <2> QED
    BY <1>1, <2>1 DEF PrepPhase
<1>8. CameraInv'
  <2>1. \A t \in Take : Finishing(t) => Rendered(n) # Raw(t)
    BY <1>2 DEF Fresh
  <2>2. fate[TakeOf(n)] # "unused"
    BY <1>2 DEF Fresh
  <2> QED
    BY <1>1, <1>4, <2>1, <2>2 DEF IInv, CameraInv, Finishing
<1>9. StoreInv'
  <2> SUFFICES ASSUME NEW m \in Name, Listed(m) PROVE StoreInv!(m)!2'
    BY <1>3 DEF StoreInv, Listed
  <2>1. m = Raw(TakeOf(m)) => m # Rendered(n)
    BY <1>5
  <2> QED
    BY <1>1, <1>3, <1>4, <1>7, <2>1 DEF IInv, StoreInv, NeedsExport
<1>10. PrepareInv'
  <2> SUFFICES ASSUME NEW d \in Connection, PrepPhase(d)' PROVE PrepareInv!(d)!2'
    BY DEF PrepareInv
  <2>1. \A e \in Connection \ {c} : PrepPhase(e)' => PrepPhase(e) /\ handler'[e].id # n
    BY <1>1, <1>2 DEF PrepPhase, Preparing
  <2>2. CASE d = c
    BY <1>1, <1>2, <1>3, <1>5, <1>6, <2>1, <2>2
  <2>3. CASE d # c
    <3>1. PrepPhase(d) /\ handler'[d] = handler[d] /\ handler[d].id # n
      BY <1>1, <2>1, <2>3
    <3>2. /\ handler[d].id \in Name /\ handler[d].rec.url \in Name
          /\ handler[d].id = Raw(TakeOf(handler[d].id))
      BY <3>1, HandlerType DEF IInv, PrepareInv
    <3>3. TakeOf(handler[d].id) # TakeOf(n)
      BY <1>2, <3>1, <3>2
    <3>4. TakeOf(handler[d].rec.url) = TakeOf(handler[d].id)
      BY <3>1, <3>2 DEF IInv, PrepareInv
    <3>5. /\ file'[handler[d].rec.url] = file[handler[d].rec.url]
          /\ file'[Rendered(handler[d].id)] = file[Rendered(handler[d].id)]
      BY <1>4, <3>2, <3>3, <3>4
    <3>6. \A e \in Connection : PrepPhase(e)' /\ handler'[e].id = handler[d].id => e = d
      BY <1>1, <1>3, <2>1, <3>1 DEF IInv, PrepareInv
    <3> QED
      BY <1>1, <3>1, <3>2, <3>5, <3>6 DEF IInv, PrepareInv
  <2> QED
    BY <2>2, <2>3
<1>11. FootageIsKept'
  <2> SUFFICES ASSUME NEW t \in Take, Kept(t)
               PROVE  \E m \in Name : TakeOf(m) = t /\ file'[m] = "whole"
    BY <1>1 DEF FootageIsKept, Kept
  <2>1. CASE t = TakeOf(n)
    BY <1>2, <1>5, <2>1
  <2>2. CASE t # TakeOf(n)
    BY <1>4, <2>2 DEF IInv, FootageIsKept, Kept
  <2> QED
    BY <2>1, <2>2
<1> QED
  BY <1>1, <1>8, <1>9, <1>10, <1>11 DEF IInv

\* Two prepares never work on the same take, and each touches its take's files.
LEMMA PreparesAreApart ==
  ASSUME IInv, NEW c \in Connection, PrepPhase(c)
  PROVE  /\ handler[c].id \in Name /\ handler[c].rec.url \in Name
         /\ handler[c].id = Raw(TakeOf(handler[c].id))
         /\ TakeOf(handler[c].rec.url) = TakeOf(handler[c].id)
         /\ \A d \in Connection \ {c} : PrepPhase(d) =>
              /\ TakeOf(handler[d].id) # TakeOf(handler[c].id)
              /\ TakeOf(handler[d].rec.url) # TakeOf(handler[c].id)
<1> USE NameFacts
<1>1. \A d \in Connection : PrepPhase(d) =>
        /\ handler[d].id \in Name /\ handler[d].rec.url \in Name
        /\ handler[d].id = Raw(TakeOf(handler[d].id))
  BY HandlerType DEF IInv, PrepareInv
<1>2. \A d \in Connection : PrepPhase(d) => TakeOf(handler[d].rec.url) = TakeOf(handler[d].id)
  BY <1>1 DEF IInv, PrepareInv
<1>3. \A d \in Connection \ {c} : PrepPhase(d) => handler[d].id # handler[c].id
  BY DEF IInv, PrepareInv
<1> QED
  BY <1>1, <1>2, <1>3

\* When the files of one prepare's take change, the other prepares and the
\* records of the other takes keep what they rely on.
LEMMA OtherTakesKeepFootage ==
  ASSUME IInv, TypeOK', NEW c \in Connection, PrepPhase(c),
         ExportEnds(c) \/ ExportResumes(c),
         PrepPhase(c)', handler'[c].id = handler[c].id,
         \A m \in Name : TakeOf(m) # TakeOf(handler[c].id) => file'[m] = file[m],
         PrepareInv!(c)!2',
         Kept(TakeOf(handler[c].id)) =>
           \E m \in Name : TakeOf(m) = TakeOf(handler[c].id) /\ file'[m] = "whole"
  PROVE  IInv'
<1> USE NameFacts
<1> DEFINE n == handler[c].id
<1>1. /\ output' = output /\ activeID' = activeID /\ finish' = finish /\ fate' = fate
      /\ \A d \in Connection \ {c} : handler'[d] = handler[d]
      /\ \A t \in Take : Fresh(t)' <=> Fresh(t)
      /\ \A t \in Take : Kept(t)' <=> Kept(t)
      /\ StopWaits'
  BY PrepareFrame
<1>2. n \in Name /\ n = Raw(TakeOf(n)) /\ ~Fresh(TakeOf(n))
  BY PreparesAreApart DEF IInv, PrepareInv
<1>3. store' = store
  BY DEF ExportEnds, ExportResumes
<1>4. \A d \in Connection : PrepPhase(d)' <=> PrepPhase(d)
  BY <1>1 DEF PrepPhase
<1>5. \A d \in Connection : PrepPhase(d) => handler'[d].id = handler[d].id
  BY <1>1
<1>6. \A m \in Name : Preparing(m)' <=> Preparing(m)
  BY <1>4, <1>5 DEF Preparing, PrepPhase
<1>7. CameraInv'
  <2>1. \A t \in Take : Finishing(t) => file'[Raw(t)] = file[Raw(t)]
    BY <1>2 DEF Fresh
  <2>2. fate[TakeOf(n)] # "unused"
    BY <1>2 DEF Fresh
  <2>3. \A m \in Name : file'[m] # "absent" => fate[TakeOf(m)] # "unused"
    BY <2>2 DEF IInv, CameraInv
  <2> QED
    BY <1>1, <2>1, <2>3 DEF IInv, CameraInv, Finishing
<1>8. StoreInv'
  <2> SUFFICES ASSUME NEW m \in Name, Listed(m) PROVE StoreInv!(m)!2'
    BY <1>3 DEF StoreInv, Listed
  <2>1. Preparing(n)
    BY DEF Preparing, PrepPhase
  <2>2. m = Raw(TakeOf(m)) /\ ~Preparing(m) => file'[m] = file[m]
    BY <1>2, <2>1
  <2> QED
    BY <1>1, <1>3, <1>6, <2>2 DEF IInv, StoreInv, NeedsExport
<1>9. PrepareInv'
  <2> SUFFICES ASSUME NEW d \in Connection, PrepPhase(d)' PROVE PrepareInv!(d)!2'
    BY DEF PrepareInv
  <2>1. CASE d # c
    <3>1. PrepPhase(d) /\ handler'[d] = handler[d]
      BY <1>1, <1>4, <2>1
    <3>2. /\ file'[handler[d].rec.url] = file[handler[d].rec.url]
          /\ file'[Rendered(handler[d].id)] = file[Rendered(handler[d].id)]
      BY <2>1, <3>1, PreparesAreApart
    <3>3. \A e \in Connection : PrepPhase(e)' /\ handler'[e].id = handler[d].id => e = d
      BY <1>4, <1>5, <3>1 DEF IInv, PrepareInv
    <3>4. TakeOf(handler[d].id) \in Take
      BY <3>1, PreparesAreApart
    <3> QED
      BY <1>1, <3>1, <3>2, <3>3, <3>4 DEF IInv, PrepareInv
  <2> QED
    BY <2>1
<1>10. FootageIsKept'
  <2> SUFFICES ASSUME NEW t \in Take, Kept(t)
               PROVE  \E m \in Name : TakeOf(m) = t /\ file'[m] = "whole"
    BY <1>1 DEF FootageIsKept, Kept
  <2>1. CASE t # TakeOf(n)
    BY <2>1 DEF IInv, FootageIsKept, Kept
  <2> QED
    BY <2>1
<1> QED
  BY <1>1, <1>7, <1>8, <1>9, <1>10 DEF IInv

\* The end of an export writes the rendered movie only.
LEMMA ExportEndsKeepsFootage ==
  ASSUME IInv, TypeOK', NEW c \in Connection, ExportEnds(c)
  PROVE  IInv'
<1> USE NameFacts
<1> DEFINE n == handler[c].id
<1>1. PrepPhase(c) /\ handler[c].phase = "exporting"
  BY DEF ExportEnds, PrepPhase, PreparePhase
<1>2. n \in Name /\ n = Raw(TakeOf(n)) /\ handler[c].rec.url = n /\ n # Rendered(n)
  BY <1>1, PreparesAreApart DEF IInv, PrepareInv
<1>3. /\ handler'[c].phase \in {"exported", "exportFailed"}
      /\ handler'[c].id = n /\ handler'[c].rec = handler[c].rec
      /\ \A d \in Connection \ {c} : handler'[d] = handler[d]
  BY <1>1 DEF ExportEnds, IInv, TypeOK, Handler, PreparePhase
<1>4. \A m \in Name : m # Rendered(n) => file'[m] = file[m]
  BY <1>2 DEF ExportEnds, IInv, TypeOK
<1>5. handler'[c].phase = "exported" => file'[Rendered(n)] = "whole"
  <2>1. ~ \E d \in Connection \ {c} : handler[d].phase = "exporting" /\ handler[d].id = n
    BY <1>1 DEF IInv, PrepareInv, PrepPhase, PreparePhase
  <2>2. PICK ok \in BOOLEAN, s \in {"whole", "absent", "partial"} :
          /\ ok => s = "whole"
          /\ file' = [file EXCEPT ![Rendered(n)] = s]
          /\ handler' = [handler EXCEPT ![c].phase = IF ok THEN "exported" ELSE "exportFailed"]
    BY <2>1 DEF ExportEnds
  <2>3. handler'[c].phase = IF ok THEN "exported" ELSE "exportFailed"
    BY <1>1, <2>2 DEF IInv, TypeOK, Handler, PreparePhase
  <2>4. file'[Rendered(n)] = s
    BY <1>2, <2>2 DEF IInv, TypeOK
  <2> QED
    BY <2>2, <2>3, <2>4
<1>6. PrepPhase(c)' /\ \A d \in Connection \ {c} : PrepPhase(d)' <=> PrepPhase(d)
  BY <1>3 DEF PrepPhase, PreparePhase
<1>7. fate' = fate /\ finish' = finish
  BY DEF ExportEnds
<1>8. PrepareInv!(c)!2'
  BY <1>1, <1>2, <1>3, <1>4, <1>5, <1>6, <1>7 DEF IInv, PrepareInv, Fresh, Finishing, Kept
<1>9. Kept(TakeOf(n)) => file'[n] = "whole"
  BY <1>1, <1>2, <1>4 DEF IInv, PrepareInv
<1> HIDE DEF n
<1> QED
  BY <1>1, <1>2, <1>3, <1>4, <1>6, <1>8, <1>9, OtherTakesKeepFootage DEF n

\* Only a prepare that has seen its export complete may remove the original.
LEMMA ExportResumesKeepsFootage ==
  ASSUME IInv, TypeOK', NEW c \in Connection, ExportResumes(c)
  PROVE  IInv'
<1> USE NameFacts
<1> DEFINE n == handler[c].id
           r == handler[c].rec
<1>1. PrepPhase(c) /\ handler[c].phase \in {"exported", "exportFailed"}
  BY DEF ExportResumes, PrepPhase, PreparePhase
<1>2. n \in Name /\ n = Raw(TakeOf(n)) /\ r.url = n /\ n # Rendered(n) /\ r.look = "styled"
  BY <1>1, PreparesAreApart DEF IInv, PrepareInv
<1>3. /\ handler'[c].phase = "inspecting" /\ handler'[c].id = n
      /\ handler'[c].rec = IF handler[c].phase = "exported"
                           THEN [r EXCEPT !.url = Rendered(n), !.rendered = r.look]
                           ELSE [r EXCEPT !.rendered = "natural"]
      /\ \A d \in Connection \ {c} : handler'[d] = handler[d]
  <2> DEFINE copy == IF handler[c].phase = "exported"
                     THEN [r EXCEPT !.url = Rendered(n), !.rendered = r.look]
                     ELSE [r EXCEPT !.rendered = "natural"]
  <2>1. handler[c] \in [phase : PreparePhase, take : {None}, id : Name, rec : Record]
    BY <1>1 DEF IInv, TypeOK, PrepPhase, PreparePhase, Handler
  <2>2. handler' = [handler EXCEPT ![c] = [@ EXCEPT !.phase = "inspecting", !.rec = copy]]
    BY <1>1 DEF ExportResumes
  <2>3. handler \in [Connection -> Handler]
    BY DEF IInv, TypeOK
  <2>4. handler'[c] = [handler[c] EXCEPT !.phase = "inspecting", !.rec = copy]
    BY <2>2, <2>3
  <2>5. \A d \in Connection \ {c} : handler'[d] = handler[d]
    BY <2>2, <2>3
  <2> HIDE DEF copy
  <2>6. /\ handler'[c].phase = "inspecting"
        /\ handler'[c].id = handler[c].id
        /\ handler'[c].rec = copy
    BY <2>1, <2>4
  <2> QED
    BY <2>5, <2>6 DEF copy
<1>4. /\ \A m \in Name : m # n => file'[m] = file[m]
      /\ handler[c].phase = "exportFailed" => file'[n] = file[n]
  BY <1>1, <1>2 DEF ExportResumes, IInv, TypeOK
<1>5. r \in Record
  BY <1>1, HandlerType DEF IInv
<1>6. /\ handler'[c].rec.look = "styled"
      /\ handler[c].phase = "exported" =>
           handler'[c].rec.url = Rendered(n) /\ handler'[c].rec.rendered = "styled"
      /\ handler[c].phase = "exportFailed" =>
           handler'[c].rec.url = n /\ handler'[c].rec.rendered = "natural"
  BY <1>1, <1>2, <1>3, <1>5 DEF Record
<1>7. PrepPhase(c)' /\ \A d \in Connection \ {c} : PrepPhase(d)' <=> PrepPhase(d)
  BY <1>3 DEF PrepPhase, PreparePhase
<1>8. fate' = fate /\ finish' = finish
  BY DEF ExportResumes
<1>9. Kept(TakeOf(n)) => file'[handler'[c].rec.url] = "whole"
  BY <1>1, <1>2, <1>4, <1>6 DEF IInv, PrepareInv
<1>10. PrepareInv!(c)!2'
  BY <1>1, <1>2, <1>3, <1>6, <1>7, <1>8, <1>9 DEF IInv, PrepareInv, Fresh, Finishing, Kept
<1>11. Kept(TakeOf(n)) => \E m \in Name : TakeOf(m) = TakeOf(n) /\ file'[m] = "whole"
  BY <1>1, <1>2, <1>6, <1>9
<1> HIDE DEF n, r
<1> QED
  BY <1>1, <1>2, <1>3, <1>4, <1>7, <1>10, <1>11, OtherTakesKeepFootage DEF n

\* The record that is stored serves what the prepare knows to be complete.
LEMMA PrepareStoresKeepsFootage ==
  ASSUME IInv, TypeOK', NEW c \in Connection, PrepareStores(c)
  PROVE  IInv'
<1> USE NameFacts
<1> DEFINE n == handler[c].id
           r == handler[c].rec
<1>1. PrepPhase(c) /\ handler[c].phase = "inspecting" /\ file' = file
  BY DEF PrepareStores, PrepPhase, PreparePhase
<1>2. /\ n \in Name /\ r \in Record /\ n = Raw(TakeOf(n)) /\ TakeOf(r.url) = TakeOf(n)
      /\ ~Fresh(TakeOf(n)) /\ r.look = "styled"
      /\ r.rendered # r.look => r.url = n
      /\ Kept(TakeOf(n)) => file[r.url] = "whole"
  BY <1>1, PreparesAreApart, HandlerType DEF IInv, PrepareInv
<1>3. /\ output' = output /\ activeID' = activeID /\ finish' = finish /\ fate' = fate
      /\ \A d \in Connection \ {c} : handler'[d] = handler[d]
      /\ \A t \in Take : Fresh(t)' <=> Fresh(t)
      /\ \A t \in Take : Kept(t)' <=> Kept(t)
      /\ StopWaits'
  BY PrepareFrame
<1>4. /\ ~PrepPhase(c)'
      /\ \A d \in Connection \ {c} : PrepPhase(d)' <=> PrepPhase(d)
  BY <1>3 DEF PrepareStores, IInv, TypeOK, Idle, PrepPhase, PreparePhase
<1>5. /\ store'[n].url = r.url /\ store'[n].look = r.look /\ store'[n].rendered = r.rendered
      /\ \A m \in Name : m # n => store'[m] = store[m]
  BY <1>2 DEF PrepareStores, IInv, TypeOK, Record
<1>6. \A m \in Name : m # n /\ Preparing(m) => Preparing(m)'
  <2> SUFFICES ASSUME NEW m \in Name, m # n,
                      NEW d \in Connection, PrepPhase(d), handler[d].id = m
               PROVE  PrepPhase(d)' /\ handler'[d].id = m
    BY DEF Preparing, PrepPhase
  <2> QED
    BY <1>3, <1>4
<1>7. CameraInv'
  BY <1>1, <1>3 DEF IInv, CameraInv, Finishing
<1>8. StoreInv'
  <2> SUFFICES ASSUME NEW m \in Name, Listed(m)' PROVE StoreInv!(m)!2'
    BY DEF StoreInv
  <2>1. CASE m = n
    BY <1>1, <1>2, <1>3, <1>5, <2>1 DEF NeedsExport
  <2>2. CASE m # n
    <3>1. Listed(m) /\ store'[m] = store[m]
      BY <1>5, <2>2 DEF Listed
    <3> QED
      BY <1>1, <1>3, <1>6, <2>2, <3>1 DEF IInv, StoreInv, NeedsExport
  <2> QED
    BY <2>1, <2>2
<1>9. PrepareInv'
  <2> SUFFICES ASSUME NEW d \in Connection, PrepPhase(d)' PROVE PrepareInv!(d)!2'
    BY DEF PrepareInv
  <2>1. d # c /\ PrepPhase(d) /\ handler'[d] = handler[d]
    BY <1>3, <1>4
  <2>2. \A e \in Connection : PrepPhase(e)' => PrepPhase(e) /\ handler'[e] = handler[e]
    BY <1>3, <1>4
  <2>3. TakeOf(handler[d].id) \in Take
    BY <2>1, PreparesAreApart
  <2> QED
    BY <1>1, <1>3, <2>1, <2>2, <2>3 DEF IInv, PrepareInv
<1>10. FootageIsKept'
  BY <1>1, <1>3 DEF IInv, FootageIsKept
<1> QED
  BY <1>3, <1>7, <1>8, <1>9, <1>10 DEF IInv

\* Deleting or acknowledging a record touches the file of its take only, and
\* that take's footage is no longer owed.
LEMMA ForgettingKeepsFootage ==
  ASSUME IInv, TypeOK', NEW n \in Name, TransferComplete(n) \/ DeleteRecording(n)
  PROVE  IInv'
<1> USE NameFacts
<1> DEFINE t == TakeOf(n)
<1>1. /\ Listed(n) /\ ~Fresh(t) /\ TakeOf(store[n].url) = t /\ store[n].url \in Name
      /\ store[n] \in Record /\ t \in Take
  BY RecordType DEF TransferComplete, DeleteRecording, IInv, StoreInv
<1>2. /\ output' = output /\ activeID' = activeID /\ finish' = finish
      /\ handler' = handler /\ stopWaiter' = stopWaiter
      /\ fate'[t] = "discarded"
      /\ \A u \in Take : u # t => fate'[u] = fate[u]
  BY <1>1 DEF TransferComplete, DeleteRecording, Discard, camera, IInv, TypeOK
<1>3. \A m \in Name : TakeOf(m) # t => file'[m] = file[m]
  BY <1>1 DEF TransferComplete, DeleteRecording, DeleteFileThenRecord, IInv, TypeOK
<1>4. /\ \A m \in Name : m # n => store'[m] = store[m]
      /\ Listed(n)' =>
           /\ store'[n].url = store[n].url
           /\ store'[n].look = store[n].look
           /\ store'[n].rendered = store[n].rendered
  BY <1>1 DEF TransferComplete, DeleteRecording, DeleteFileThenRecord, IInv, TypeOK, Record, Listed
<1> HIDE DEF t
<1>5. \A u \in Take : (Fresh(u)' <=> Fresh(u)) /\ (Kept(u)' => Kept(u) /\ u # t)
  BY <1>1, <1>2 DEF Fresh, Finishing, Kept
<1>6. CameraInv'
  <2>1. \A u \in Take : Finishing(u) => u # t
    BY <1>1 DEF Fresh
  <2>2. output # t
    BY <1>1, NoneAssumption DEF IInv, CameraInv, Fresh
  <2>3. \A m \in Name : file'[m] # "absent" => fate'[TakeOf(m)] # "unused"
    BY <1>2, <1>3 DEF IInv, CameraInv
  <2>4. output # None => fate'[output] = "shooting"
    BY <1>2, <2>2 DEF IInv, TypeOK, CameraInv
  <2> QED
    BY <1>2, <1>3, <2>1, <2>3, <2>4 DEF IInv, CameraInv, Finishing
<1>7. StopWaits'
  BY <1>2 DEF IInv, StopWaits, Finishing
<1>8. StoreInv'
  <2> SUFFICES ASSUME NEW m \in Name, Listed(m)' PROVE StoreInv!(m)!2'
    BY DEF StoreInv
  <2>1. /\ Listed(m) /\ store'[m].url = store[m].url
        /\ NeedsExport(store[m])' <=> NeedsExport(store[m])
    BY <1>1, <1>4 DEF Listed, NeedsExport
  <2>2. Preparing(m)' <=> Preparing(m)
    BY <1>2 DEF Preparing
  <2> QED
    BY <1>3, <1>5, <2>1, <2>2 DEF IInv, StoreInv
<1>9. PrepareInv'
  <2> SUFFICES ASSUME NEW d \in Connection, PrepPhase(d) PROVE PrepareInv!(d)!2'
    BY <1>2 DEF PrepareInv, PrepPhase
  <2>1. /\ TakeOf(handler[d].id) \in Take /\ handler[d].rec.url \in Name /\ handler[d].id \in Name
        /\ TakeOf(handler[d].rec.url) = TakeOf(handler[d].id)
    BY PreparesAreApart
  <2>2. Kept(TakeOf(handler[d].id))' =>
          /\ file'[handler[d].rec.url] = file[handler[d].rec.url]
          /\ file'[Rendered(handler[d].id)] = file[Rendered(handler[d].id)]
    BY <1>2, <1>3, <1>5, <2>1
  <2> QED
    BY <1>2, <1>5, <2>1, <2>2 DEF IInv, PrepareInv, PrepPhase
<1>10. FootageIsKept'
  <2> SUFFICES ASSUME NEW u \in Take, Kept(u)'
               PROVE  \E m \in Name : TakeOf(m) = u /\ file'[m] = "whole"
    BY DEF FootageIsKept, Kept
  <2> QED
    BY <1>3, <1>5 DEF IInv, FootageIsKept, Kept
<1> QED
  BY <1>6, <1>7, <1>8, <1>9, <1>10 DEF IInv

\* A restart keeps the files and lists them all, without a look to render.
LEMMA RestartKeepsFootage ==
  ASSUME IInv, TypeOK', Restart
  PROVE  IInv'
<1> USE NameFacts
<1>1. /\ file' = file /\ output' = None /\ stopWaiter' = None
      /\ \A t \in Take : ~Finishing(t)' /\ (Kept(t)' => Kept(t)) /\ fate'[t] # "shooting"
      /\ \A t \in Take : fate[t] # "unused" => fate'[t] # "unused"
      /\ \A c \in Connection : ~PrepPhase(c)'
  BY DEF Restart, Finishing, NoFinish, Kept, PrepPhase, PreparePhase, Idle
<1>2. CameraInv'
  BY <1>1 DEF IInv, CameraInv
<1>3. StoreInv'
  <2> SUFFICES ASSUME NEW n \in Name, Listed(n)' PROVE StoreInv!(n)!2'
    BY DEF StoreInv
  <2>1. file[n] # "absent" /\ store'[n].url = n /\ store'[n].look = "natural"
    BY DEF Restart, Listed
  <2>2. ~Fresh(TakeOf(n))'
    BY <1>1, <2>1 DEF IInv, CameraInv, Fresh
  <2> QED
    BY <2>1, <2>2 DEF NeedsExport
<1>4. PrepareInv' /\ StopWaits'
  BY <1>1 DEF PrepareInv, StopWaits
<1>5. FootageIsKept'
  BY <1>1 DEF IInv, FootageIsKept, Kept
<1> QED
  BY <1>2, <1>3, <1>4, <1>5 DEF IInv

LEMMA FootageStep ==
  ASSUME Overlap \subseteq {"stop"}, IInv, [Next]_vars
  PROVE  IInv'
<1>1. TypeOK'
  BY TypeStep DEF IInv
<1> QED
  BY <1>1, StartKeepsFootage, CameraKeepsFootage, StopAndProfileKeepFootage, FinishKeepsFootage,
     PrepareBeginsKeepsFootage, ExportEndsKeepsFootage, ExportResumesKeepsFootage,
     PrepareStoresKeepsFootage, ForgettingKeepsFootage, RestartKeepsFootage DEF Next

\* As long as clients start a take only when the previous one is listed and
\* prepare a clip one at a time, no interleaving of stops, exports, failures,
\* deletions and restarts costs the phone a complete movie it still owes.
THEOREM FootageSafe == Overlap \subseteq {"stop"} => (Spec => []FootageIsKept)
<1> SUFFICES ASSUME Overlap \subseteq {"stop"} PROVE Spec => []FootageIsKept
  OBVIOUS
<1>1. Init => IInv
  BY FootageInit
<1>2. IInv /\ [Next]_vars => IInv'
  BY FootageStep
<1>3. IInv => FootageIsKept
  BY DEF IInv
<1> QED
  BY <1>1, <1>2, <1>3, PTL DEF Spec
-----------------------------------------------------------------------------
\* Only the take being filmed or finished can answer the waiting connection.
LEMMA StopStep ==
  ASSUME IInv, StopAnswersItsTake, [Next]_vars
  PROVE  StopAnswersItsTake'
<1> USE NameFacts
<1>1. ASSUME NEW t \in Take, FinishStores(t) PROVE StopAnswersItsTake'
  <2>1. activeID = t /\ activeID # None
    BY <1>1, NoneAssumption DEF FinishStores, Finishing, IInv, CameraInv
  <2>2. stopWaiter # None => handler[stopWaiter].take = t
    BY <1>1, NoneAssumption DEF FinishStores, Finishing, IInv, CameraInv, StopWaits
  <2>3. ResumeStop("stopped", Raw(t), Raw(t))
    BY <1>1, <2>1 DEF FinishStores
  <2>4. \A c \in Connection : IF c = stopWaiter
                              THEN reply'[c] = [kind |-> "stopped", take |-> handler[c].take,
                                                id |-> Raw(t), url |-> Raw(t)]
                              ELSE reply'[c] = reply[c]
    BY <2>3 DEF ResumeStop
  <2> SUFFICES ASSUME NEW c \in Connection, reply'[c].kind = "stopped"
               PROVE  /\ reply'[c].url = Raw(reply'[c].take)
                      /\ reply'[c].id = Raw(reply'[c].take)
    BY DEF StopAnswersItsTake
  <2>5. CASE c = stopWaiter
    <3>1. handler[c].take = t
      BY <2>2, <2>5, NoneAssumption
    <3>2. reply'[c] = [kind |-> "stopped", take |-> t, id |-> Raw(t), url |-> Raw(t)]
      BY <2>4, <2>5, <3>1
    <3> QED
      BY <3>2
  <2>6. CASE c # stopWaiter
    BY <2>4, <2>6 DEF StopAnswersItsTake
  <2> QED
    BY <2>5, <2>6
<1>2. ASSUME NEW t \in Take, FinishWithError(t) PROVE StopAnswersItsTake'
  BY <1>2 DEF FinishWithError, ResumeStop, StopAnswersItsTake
<1>3. ASSUME \/ \E c \in Connection : StopRecording(c)
             \/ \E c \in Connection, n \in Name : PrepareBegins(c, n)
             \/ Restart
      PROVE  StopAnswersItsTake'
  <2>1. \A c \in Connection : reply'[c] = NoReply \/ reply'[c] = reply[c]
    BY <1>3 DEF StopRecording, PrepareBegins, Restart, IInv, TypeOK
  <2> QED
    BY <2>1 DEF StopAnswersItsTake, NoReply
<1>4. CASE reply' = reply
  BY <1>4 DEF StopAnswersItsTake
<1> QED
  BY <1>1, <1>2, <1>3, <1>4 DEF Next, vars, ConfigureSession, ApplyProfile, StartRecording,
     CameraFinishes, CameraFails, FinishBegins, ExportEnds, ExportResumes, PrepareStores,
     TransferComplete, DeleteRecording

\* However stops, deletions, prepares and restarts interleave, a stop that
\* succeeds is answered with the clip that was being filmed when it arrived.
THEOREM StopsAreAnsweredRight ==
  Overlap \subseteq {"stop"} => (Spec => []StopAnswersItsTake)
<1> SUFFICES ASSUME Overlap \subseteq {"stop"} PROVE Spec => []StopAnswersItsTake
  OBVIOUS
<1> DEFINE SInv == IInv /\ StopAnswersItsTake
<1>1. Init => SInv
  BY FootageInit DEF Init, StopAnswersItsTake, NoReply
<1>2. SInv /\ [Next]_vars => SInv'
  BY FootageStep, StopStep
<1>3. SInv => StopAnswersItsTake
  OBVIOUS
<1> HIDE DEF SInv
<1> QED
  BY <1>1, <1>2, <1>3, PTL DEF Spec
-----------------------------------------------------------------------------
(***************************************************************************)
(* The list.  That a clip is listed, and its checksum that of the file it  *)
(* serves, needs more than the footage does: a take that is being prepared *)
(* is still listed, a rendered movie that a restart put on the list of its *)
(* own has left nothing to prepare or to compare, and no record or prepare *)
(* leads to half a file.                                                   *)
(***************************************************************************)
ListedInv ==
  /\ \A t \in Take : finish[t].phase = "error" => fate[t] # "captured"
  /\ \A c \in Connection : PrepPhase(c) /\ Kept(TakeOf(handler[c].id)) => Listed(handler[c].id)

RelistInv ==
  \A n \in Name : Listed(n) /\ n # Raw(TakeOf(n)) =>
    \A m \in Name : TakeOf(m) = TakeOf(n) =>
      /\ ~Preparing(m)
      /\ Listed(m) => store[m].sum = None /\ store[m].look = "natural"

\* The file a connection's prepare will list is whole, or gone with its record.
Source(c) == IF handler[c].phase = "exported" THEN Rendered(handler[c].id)
                                              ELSE handler[c].rec.url
WholeInv ==
  /\ \A n \in Name : Listed(n) /\ NeedsExport(store[n]) => file[n] # "partial"
  /\ \A c \in Connection : PrepPhase(c) => file[Source(c)] # "partial"

\* What a step of the camera, of a stop or of the profile leaves alone.
LEMMA RecorderFrame ==
  ASSUME IInv, TypeOK', Overlap \subseteq {"stop"},
         \/ ConfigureSession
         \/ \E look \in Look : ApplyProfile(look)
         \/ \E t \in Take : StartRecording(t)
         \/ \E c \in Connection : StopRecording(c)
         \/ CameraFinishes \/ CameraFails
         \/ \E t \in Take : FinishWithError(t) \/ FinishBegins(t)
         \/ UNCHANGED vars
  PROVE  /\ store' = store
         /\ \A c \in Connection : PrepPhase(c)' <=> PrepPhase(c)
         /\ \A c \in Connection : PrepPhase(c) => handler'[c] = handler[c]
         /\ \A n \in Name : Preparing(n)' <=> Preparing(n)
         /\ \A n \in Name : ~Fresh(TakeOf(n)) => file'[n] = file[n]
         /\ \A t \in Take : ~Fresh(t) => fate'[t] = fate[t]
         /\ \A t \in Take : Finishing(t) => Finishing(t)' \/ (finish[t].phase = "error" /\ fate' = fate)
<1>1. store' = store
  BY DEF ConfigureSession, ApplyProfile, StartRecording, StopRecording, CameraFinishes, CameraFails,
     FinishWithError, FinishBegins, vars
<1>2. \A c \in Connection :
        /\ PrepPhase(c)' <=> PrepPhase(c)
        /\ PrepPhase(c) => handler'[c] = handler[c]
  <2>1. ASSUME NEW c \in Connection, StopRecording(c), NEW d \in Connection
        PROVE  (PrepPhase(d)' <=> PrepPhase(d)) /\ (PrepPhase(d) => handler'[d] = handler[d])
    <3>1. handler[c].phase = "idle" /\ handler'[c].phase = "stop"
      BY <2>1 DEF StopRecording, IInv, TypeOK, Idle
    <3>2. d # c => handler'[d] = handler[d]
      BY <2>1 DEF StopRecording, IInv, TypeOK
    <3> QED
      BY <3>1, <3>2 DEF PrepPhase, PreparePhase
  <2>2. ASSUME NEW t \in Take, FinishWithError(t), NEW d \in Connection
        PROVE  (PrepPhase(d)' <=> PrepPhase(d)) /\ (PrepPhase(d) => handler'[d] = handler[d])
    <3>1. handler'[d] = IF d = stopWaiter THEN Idle ELSE handler[d]
      BY <2>2 DEF FinishWithError, ResumeStop
    <3>2. d = stopWaiter => handler[d].phase = "stop"
      BY NoneAssumption DEF IInv, StopWaits
    <3> QED
      BY <3>1, <3>2 DEF PrepPhase, PreparePhase, Idle
  <2>3. CASE handler' = handler
    BY <2>3 DEF PrepPhase
  <2> QED
    BY <2>1, <2>2, <2>3 DEF ConfigureSession, ApplyProfile, StartRecording, CameraFinishes,
       CameraFails, FinishBegins, vars
<1>3. \A n \in Name : Preparing(n)' <=> Preparing(n)
  <2>1. \A n \in Name : Preparing(n) <=> \E c \in Connection : PrepPhase(c) /\ handler[c].id = n
    BY DEF Preparing, PrepPhase
  <2>2. \A n \in Name : Preparing(n)' <=> \E c \in Connection : PrepPhase(c)' /\ handler'[c].id = n
    BY DEF Preparing, PrepPhase
  <2> QED
    BY <1>2, <2>1, <2>2
<1>4. ASSUME NEW t \in Take, StartRecording(t) \/ (t = output /\ (CameraFinishes \/ CameraFails))
      PROVE  /\ Fresh(t)
             /\ \A n \in Name : n # Raw(t) => file'[n] = file[n]
             /\ \A u \in Take : u # t => fate'[u] = fate[u] /\ finish'[u] = finish[u]
             /\ Finishing(t) => Finishing(t)'
  BY <1>4 DEF StartRecording, CameraFinishes, CameraFails, IInv, TypeOK, CameraInv, Fresh, Finishing,
     NoFinish
<1>5. ASSUME NEW t \in Take, FinishWithError(t) \/ FinishBegins(t)
      PROVE  /\ file' = file /\ fate' = fate
             /\ \A u \in Take : u # t => finish'[u] = finish[u]
             /\ Finishing(t)' \/ finish[t].phase = "error"
  BY <1>5 DEF FinishWithError, FinishBegins, Finishing, IInv, TypeOK
<1>6. ASSUME NEW t \in Take, Fresh(t),
             \A n \in Name : n # Raw(t) => file'[n] = file[n],
             \A u \in Take : u # t => fate'[u] = fate[u] /\ finish'[u] = finish[u],
             Finishing(t) => Finishing(t)'
      PROVE  /\ \A n \in Name : ~Fresh(TakeOf(n)) => file'[n] = file[n]
             /\ \A u \in Take : ~Fresh(u) => fate'[u] = fate[u]
             /\ \A u \in Take : Finishing(u) => Finishing(u)'
  BY <1>6, NameFacts DEF Finishing
<1>7. CASE \E t \in Take : StartRecording(t)
  BY <1>1, <1>2, <1>3, <1>4, <1>6, <1>7
<1>8. CASE CameraFinishes \/ CameraFails
  <2>1. output \in Take
    BY <1>8 DEF CameraFinishes, CameraFails, IInv, TypeOK
  <2> QED
    BY <1>1, <1>2, <1>3, <1>4, <1>6, <1>8, <2>1
<1>9. CASE \E t \in Take : FinishWithError(t) \/ FinishBegins(t)
  <2>1. \A u \in Take : Finishing(u) => Finishing(u)' \/ (finish[u].phase = "error" /\ fate' = fate)
    BY <1>5, <1>9 DEF Finishing
  <2> QED
    BY <1>1, <1>2, <1>3, <1>5, <1>9, <2>1
<1>10. CASE \/ ConfigureSession
            \/ \E look \in Look : ApplyProfile(look)
            \/ \E c \in Connection : StopRecording(c)
            \/ UNCHANGED vars
  <2>1. file' = file /\ fate' = fate /\ finish' = finish
    BY <1>10 DEF ConfigureSession, ApplyProfile, StopRecording, vars
  <2> QED
    BY <1>1, <1>2, <1>3, <2>1 DEF Finishing
<1> QED
  BY <1>7, <1>8, <1>9, <1>10

\* What the four steps of a connection's prepare leave alone.
LEMMA PrepareTouches ==
  ASSUME IInv, TypeOK', NEW c \in Connection, ExportEnds(c) \/ ExportResumes(c)
  PROVE  /\ PrepPhase(c) /\ PrepPhase(c)'
         /\ handler[c].id \in Name /\ handler[c].id = Raw(TakeOf(handler[c].id))
         /\ handler'[c].id = handler[c].id
         /\ \A d \in Connection \ {c} : handler'[d] = handler[d]
         /\ \A n \in Name : Preparing(n)' <=> Preparing(n)
         /\ Preparing(handler[c].id)
         /\ \A n \in Name : TakeOf(n) # TakeOf(handler[c].id) => file'[n] = file[n]
         /\ store' = store /\ fate' = fate /\ finish' = finish
<1> USE NameFacts
<1>1. PrepPhase(c)
  BY DEF ExportEnds, ExportResumes, PrepPhase, PreparePhase
<1>2. /\ handler[c].id \in Name /\ handler[c].id = Raw(TakeOf(handler[c].id))
      /\ handler[c].rec.url \in Name /\ TakeOf(handler[c].rec.url) = TakeOf(handler[c].id)
  BY <1>1, PreparesAreApart
<1>3. /\ handler'[c].id = handler[c].id /\ PrepPhase(c)'
      /\ \A d \in Connection \ {c} : handler'[d] = handler[d]
  <2>1. handler[c] \in [phase : PreparePhase, take : {None}, id : Name, rec : Record]
    BY <1>1 DEF IInv, TypeOK, PrepPhase, PreparePhase, Handler
  <2>2. ASSUME NEW ph \in PreparePhase, NEW r, handler' = [handler EXCEPT ![c] = [@ EXCEPT !.phase = ph, !.rec = r]]
        PROVE  handler'[c].id = handler[c].id /\ handler'[c].phase = ph
    BY <2>1, <2>2 DEF IInv, TypeOK
  <2>3. ASSUME NEW ph \in PreparePhase, handler' = [handler EXCEPT ![c].phase = ph]
        PROVE  handler'[c].id = handler[c].id /\ handler'[c].phase = ph
    BY <2>1, <2>3 DEF IInv, TypeOK
  <2>4. CASE ExportEnds(c)
    <3>1. \E ph \in PreparePhase : handler' = [handler EXCEPT ![c].phase = ph]
      BY <2>4 DEF ExportEnds, PreparePhase
    <3> QED
      BY <2>3, <2>4, <3>1 DEF PrepPhase, ExportEnds, IInv, TypeOK
  <2>5. CASE ExportResumes(c)
    <3>1. \E r : handler' = [handler EXCEPT ![c] = [@ EXCEPT !.phase = "inspecting", !.rec = r]]
      BY <2>5 DEF ExportResumes
    <3>2. "inspecting" \in PreparePhase
      BY DEF PreparePhase
    <3> QED
      BY <2>2, <2>5, <3>1, <3>2 DEF PrepPhase, IInv, TypeOK
  <2> QED
    BY <2>4, <2>5
<1>4. \A n \in Name : Preparing(n)' <=> Preparing(n)
  <2>1. \A d \in Connection : (PrepPhase(d)' <=> PrepPhase(d)) /\ handler'[d].id = handler[d].id
    BY <1>1, <1>3 DEF PrepPhase
  <2> QED
    BY <2>1 DEF Preparing, PrepPhase
<1>5. \A n \in Name : TakeOf(n) # TakeOf(handler[c].id) => file'[n] = file[n]
  BY <1>2 DEF ExportEnds, ExportResumes, IInv, TypeOK
<1> QED
  BY <1>1, <1>2, <1>3, <1>4, <1>5 DEF ExportEnds, ExportResumes, Preparing, PrepPhase

\* The prepare that stores its record: the others and their takes stay apart.
LEMMA StoresTouches ==
  ASSUME IInv, TypeOK', NEW c \in Connection, PrepareStores(c)
  PROVE  LET n == handler[c].id
             r == handler[c].rec
         IN  /\ PrepPhase(c) /\ handler[c].phase = "inspecting" /\ ~PrepPhase(c)'
             /\ n \in Name /\ n = Raw(TakeOf(n)) /\ r.url \in Name /\ TakeOf(r.url) = TakeOf(n)
             /\ r.look = "styled" /\ (r.rendered # r.look => r.url = n)
             /\ Kept(TakeOf(n)) => file[r.url] = "whole"
             /\ Preparing(n)
             /\ store'[n].url = r.url /\ store'[n].look = r.look /\ store'[n].rendered = r.rendered
             /\ store'[n].sum = SumOf(r.url)
             /\ store'[n] # None
             /\ \A m \in Name : m # n => store'[m] = store[m]
             /\ \A m \in Name : m # n => (Preparing(m)' <=> Preparing(m))
             /\ \A m \in Name : Preparing(m)' => Preparing(m)
             /\ \A d \in Connection \ {c} : handler'[d] = handler[d]
             /\ file' = file /\ fate' = fate /\ finish' = finish
<1> USE NameFacts
<1> DEFINE n == handler[c].id
           r == handler[c].rec
<1>1. PrepPhase(c) /\ handler[c].phase = "inspecting" /\ file' = file /\ fate' = fate /\ finish' = finish
  BY DEF PrepareStores, PrepPhase, PreparePhase
<1>2. /\ n \in Name /\ r \in Record /\ n = Raw(TakeOf(n)) /\ TakeOf(r.url) = TakeOf(n)
      /\ r.look = "styled" /\ r.url \in Name
      /\ r.rendered # r.look => r.url = n
      /\ Kept(TakeOf(n)) => file[r.url] = "whole"
  BY <1>1, PreparesAreApart, HandlerType DEF IInv, PrepareInv
<1>3. \A d \in Connection \ {c} : handler'[d] = handler[d]
  BY PrepareFrame
<1>4. /\ ~PrepPhase(c)'
      /\ \A d \in Connection \ {c} : PrepPhase(d)' <=> PrepPhase(d)
  BY <1>3 DEF PrepareStores, IInv, TypeOK, Idle, PrepPhase, PreparePhase
<1>5. /\ store'[n].url = r.url /\ store'[n].look = r.look /\ store'[n].rendered = r.rendered
      /\ store'[n].sum = SumOf(r.url)
      /\ \A m \in Name : m # n => store'[m] = store[m]
      /\ store'[n] = [r EXCEPT !.sum = SumOf(r.url)]
  BY <1>2 DEF PrepareStores, IInv, TypeOK, Record
<1>6. store'[n] # None
  <2>1. SumOf(r.url) \in Name \cup {None}
    BY <1>2 DEF SumOf
  <2>2. [r EXCEPT !.sum = SumOf(r.url)] \in Record
    BY <1>2, <2>1 DEF Record
  <2> QED
    <3> DEFINE s == [r EXCEPT !.sum = SumOf(r.url)]
    <3>1. s # None
      BY <2>2, NoRecordAssumption
    <3>2. store'[n] = s
      BY <1>5
    <3> QED
      BY <3>1, <3>2
<1>7. \A m \in Name : (m # n => (Preparing(m)' <=> Preparing(m))) /\ (Preparing(m)' => Preparing(m))
  BY <1>3, <1>4 DEF Preparing, PrepPhase
<1>8. Preparing(n)
  BY <1>1 DEF Preparing, PrepPhase
<1> QED
  BY <1>1, <1>2, <1>3, <1>4, <1>5, <1>6, <1>7, <1>8

\* A take that is being prepared stays on the list, and one that failed was
\* never complete.
LEMMA ListedStep ==
  ASSUME IInv, ListedInv, Overlap \subseteq {"stop"}, [Next]_vars
  PROVE  ListedInv'
<1> USE NameFacts
<1>0. TypeOK'
  BY TypeStep DEF IInv
<1>1. ASSUME \/ ConfigureSession
             \/ \E look \in Look : ApplyProfile(look)
             \/ \E t \in Take : StartRecording(t)
             \/ \E c \in Connection : StopRecording(c)
             \/ CameraFinishes \/ CameraFails
             \/ \E t \in Take : FinishWithError(t) \/ FinishBegins(t)
             \/ UNCHANGED vars
      PROVE  ListedInv'
  <2>1. /\ store' = store
        /\ \A c \in Connection : PrepPhase(c)' <=> PrepPhase(c)
        /\ \A c \in Connection : PrepPhase(c) => handler'[c] = handler[c]
        /\ \A t \in Take : ~Fresh(t) => fate'[t] = fate[t]
    BY <1>0, <1>1, RecorderFrame
  <2>2. ASSUME NEW c \in Connection, PrepPhase(c)', Kept(TakeOf(handler[c].id))'
        PROVE  Listed(handler[c].id)'
    <3>1. PrepPhase(c) /\ handler'[c] = handler[c]
      BY <2>1, <2>2
    <3>2. TakeOf(handler[c].id) \in Take /\ ~Fresh(TakeOf(handler[c].id))
      BY <3>1, HandlerType DEF IInv, PrepareInv
    <3>3. Kept(TakeOf(handler[c].id))
      BY <2>1, <2>2, <3>1, <3>2 DEF Kept
    <3> QED
      BY <2>1, <3>1, <3>3 DEF ListedInv, Listed
  <2>3. ASSUME NEW t \in Take, finish'[t].phase = "error" PROVE fate'[t] # "captured"
    <3>1. CASE CameraFinishes \/ CameraFails
      <4>1. output \in Take
        BY <3>1 DEF CameraFinishes, CameraFails, IInv, TypeOK
      <4> QED
        BY <2>3, <3>1, <4>1 DEF CameraFinishes, CameraFails, IInv, TypeOK, ListedInv, NoFinish
    <3>2. CASE \E u \in Take : StartRecording(u)
      BY <2>3, <3>2 DEF StartRecording, IInv, TypeOK, ListedInv
    <3>3. CASE \E u \in Take : FinishWithError(u) \/ FinishBegins(u)
      <4>1. finish[t].phase = "error" /\ fate' = fate
        BY <2>3, <3>3 DEF FinishWithError, FinishBegins, IInv, TypeOK, NoFinish
      <4> QED
        BY <4>1 DEF ListedInv
    <3>4. CASE fate' = fate /\ finish' = finish
      BY <2>3, <3>4 DEF ListedInv
    <3> QED
      BY <1>1, <3>1, <3>2, <3>3, <3>4 DEF ConfigureSession, ApplyProfile, StopRecording, vars
  <2> QED
    BY <2>2, <2>3 DEF ListedInv
<1>2. ASSUME NEW t \in Take, FinishStores(t) PROVE ListedInv'
  <2>1. /\ \A n \in Name : Listed(n) => Listed(n)'
        /\ \A c \in Connection : PrepPhase(c)' => PrepPhase(c) /\ handler'[c] = handler[c]
        /\ fate' = fate
        /\ \A u \in Take : finish'[u].phase = "error" => finish[u].phase = "error"
    <3>1. \A c \in Connection : PrepPhase(c)' => PrepPhase(c) /\ handler'[c] = handler[c]
      BY <1>2 DEF FinishStores, ResumeStop, Idle, PrepPhase, PreparePhase
    <3>2. \A n \in Name : Listed(n) => Listed(n)'
      <4>1. Raw(IF activeID # None THEN activeID ELSE t) \in Name
        BY DEF IInv, TypeOK
      <4>2. [url |-> Raw(t), state |-> "pending", sum |-> SumOf(Raw(t)),
             look |-> finish[t].look, rendered |-> "natural"] \in Record
        BY DEF Record, IInv, TypeOK, Finish, SumOf, TransferState, Look
      <4> QED
        BY <1>2, <4>1, <4>2, NoRecordAssumption DEF FinishStores, Listed, IInv, TypeOK
    <3> QED
      BY <1>2, <3>1, <3>2 DEF FinishStores, IInv, TypeOK, NoFinish
  <2> QED
    BY <2>1, HandlerType DEF ListedInv, Kept, IInv
<1>3. ASSUME NEW c \in Connection, NEW n \in Name, PrepareBegins(c, n) PROVE ListedInv'
  <2>1. /\ store' = store /\ fate' = fate /\ finish' = finish /\ Listed(n)
        /\ \A d \in Connection \ {c} : handler'[d] = handler[d]
        /\ handler'[c].id = n
    BY <1>3 DEF PrepareBegins, IInv, TypeOK
  <2>2. \A d \in Connection : PrepPhase(d)' /\ d # c => PrepPhase(d)
    BY <2>1 DEF PrepPhase
  <2> QED
    BY <2>1, <2>2 DEF ListedInv, Listed, Kept
<1>4. ASSUME NEW c \in Connection, ExportEnds(c) \/ ExportResumes(c) PROVE ListedInv'
  <2>1. /\ store' = store /\ fate' = fate /\ finish' = finish /\ PrepPhase(c)
        /\ \A d \in Connection \ {c} : handler'[d] = handler[d]
        /\ handler'[c].id = handler[c].id
    BY <1>0, <1>4, PrepareTouches
  <2>2. \A d \in Connection : (PrepPhase(d)' => PrepPhase(d)) /\ handler'[d].id = handler[d].id
    BY <2>1 DEF PrepPhase
  <2> QED
    BY <2>1, <2>2 DEF ListedInv, Listed, Kept
<1>5. ASSUME NEW c \in Connection, PrepareStores(c) PROVE ListedInv'
  <2>1. /\ ~PrepPhase(c)' /\ fate' = fate /\ finish' = finish
        /\ store'[handler[c].id] # None
        /\ \A m \in Name : m # handler[c].id => store'[m] = store[m]
        /\ \A d \in Connection \ {c} : handler'[d] = handler[d]
    BY <1>0, <1>5, StoresTouches
  <2>2. \A m \in Name : Listed(m) => Listed(m)'
    BY <2>1 DEF Listed
  <2>3. \A d \in Connection : PrepPhase(d)' => PrepPhase(d) /\ handler'[d] = handler[d]
    BY <2>1 DEF PrepPhase
  <2> QED
    BY <2>1, <2>2, <2>3, HandlerType DEF ListedInv, Kept, IInv
<1>6. ASSUME NEW n \in Name, TransferComplete(n) \/ DeleteRecording(n) PROVE ListedInv'
  <2>1. Listed(n) /\ TakeOf(store[n].url) = TakeOf(n) /\ TakeOf(n) \in Take
    BY <1>6 DEF TransferComplete, DeleteRecording, IInv, StoreInv
  <2>2. /\ fate' = [fate EXCEPT ![TakeOf(n)] = "discarded"]
        /\ \A m \in Name : m # n => store'[m] = store[m]
        /\ finish' = finish /\ handler' = handler
    BY <1>6, <2>1 DEF TransferComplete, DeleteRecording, Discard, DeleteFileThenRecord, IInv, TypeOK
  <2>3. \A t \in Take : fate'[t] = IF t = TakeOf(n) THEN "discarded" ELSE fate[t]
    BY <2>1, <2>2 DEF IInv, TypeOK
  <2>4. ASSUME NEW c \in Connection, PrepPhase(c), Kept(TakeOf(handler[c].id))'
        PROVE  Listed(handler[c].id)'
    <3>1. handler[c].id \in Name
      BY <2>4, HandlerType DEF IInv
    <3>2. TakeOf(handler[c].id) # TakeOf(n) /\ Kept(TakeOf(handler[c].id))
      BY <2>2, <2>3, <2>4, <3>1 DEF Kept
    <3> QED
      BY <2>2, <2>4, <3>1, <3>2 DEF ListedInv, Listed
  <2>5. \A t \in Take : finish'[t].phase = "error" => fate'[t] # "captured"
    BY <2>2, <2>3 DEF ListedInv
  <2> QED
    BY <2>2, <2>4, <2>5 DEF ListedInv, PrepPhase
<1>7. CASE Restart
  BY <1>7 DEF Restart, ListedInv, NoFinish, PrepPhase, PreparePhase, Idle
<1> QED
  BY <1>1, <1>2, <1>3, <1>4, <1>5, <1>6, <1>7 DEF Next

Leads(n, t) == Listed(n) /\ TakeOf(store[n].url) = t

\* The record through which a take is listed outlives every step that leaves
\* the take in the phone's keeping, or hands it to another one.
LEMMA TakeListedStep ==
  ASSUME IInv, ListedInv, TakeIsListed, Overlap \subseteq {"stop"}, [Next]_vars
  PROVE  TakeIsListed'
<1> USE NameFacts
<1>0. TypeOK'
  BY TypeStep DEF IInv
<1> SUFFICES ASSUME NEW t \in Take, fate'[t] = "captured"
             PROVE  \/ Finishing(t)'
                    \/ \E n \in Name : Leads(n, t)' /\ (file'[store'[n].url] = "whole" \/ Preparing(n)')
  BY DEF TakeIsListed, Leads
<1>1. CASE \/ ConfigureSession
           \/ \E look \in Look : ApplyProfile(look)
           \/ \E u \in Take : StartRecording(u)
           \/ \E c \in Connection : StopRecording(c)
           \/ CameraFinishes \/ CameraFails
           \/ \E u \in Take : FinishWithError(u) \/ FinishBegins(u)
           \/ UNCHANGED vars
  <2>1. /\ store' = store
        /\ \A n \in Name : Preparing(n)' <=> Preparing(n)
        /\ \A n \in Name : ~Fresh(TakeOf(n)) => file'[n] = file[n]
        /\ ~Fresh(t) => fate'[t] = fate[t]
        /\ Finishing(t) => Finishing(t)' \/ (finish[t].phase = "error" /\ fate' = fate)
    BY <1>0, <1>1, RecorderFrame
  <2>2. CASE Finishing(t)
    BY <1>1, <2>1, <2>2 DEF ListedInv
  <2>3. CASE fate[t] \in {"unused", "shooting"}
    <3>1. CASE (CameraFinishes \/ CameraFails) /\ t = output
      BY <3>1 DEF CameraFinishes, CameraFails, Finishing, NoFinish, IInv, TypeOK
    <3>2. CASE ~((CameraFinishes \/ CameraFails) /\ t = output)
      <4>1. fate'[t] = fate[t] \/ fate'[t] = "shooting"
        BY <1>1, <3>2 DEF ConfigureSession, ApplyProfile, StartRecording, StopRecording,
           CameraFinishes, CameraFails, FinishWithError, FinishBegins, vars, IInv, TypeOK
      <4> QED
        BY <2>3, <4>1
    <3> QED
      BY <3>1, <3>2
  <2>4. CASE ~Fresh(t)
    <3>1. PICK n \in Name : Leads(n, t) /\ (file[store[n].url] = "whole" \/ Preparing(n))
      BY <2>1, <2>4 DEF TakeIsListed, Fresh, Leads
    <3>2. file'[store[n].url] = file[store[n].url]
      BY <2>1, <2>4, <3>1, RecordType DEF IInv, Leads
    <3> QED
      BY <2>1, <3>1, <3>2 DEF Leads, Listed
  <2> QED
    BY <2>2, <2>3, <2>4 DEF Fresh
<1>2. ASSUME NEW u \in Take, FinishStores(u)
      PROVE  \/ Finishing(t)'
             \/ \E n \in Name : Leads(n, t)' /\ (file'[store'[n].url] = "whole" \/ Preparing(n)')
  <2>1. activeID = u /\ u # None /\ file[Raw(u)] = "whole" /\ Finishing(u)
    BY <1>2, NoneAssumption DEF FinishStores, Finishing, IInv, CameraInv
  <2>2. /\ file' = file /\ fate' = fate
        /\ \A n \in Name : n # Raw(u) => store'[n] = store[n]
        /\ \A v \in Take : v # u => finish'[v] = finish[v]
    BY <1>2, <2>1 DEF FinishStores, IInv, TypeOK
  <2>3. store'[Raw(u)].url = Raw(u) /\ store'[Raw(u)] # None
    <3> DEFINE s == [url |-> Raw(u), state |-> "pending", sum |-> SumOf(Raw(u)),
                     look |-> finish[u].look, rendered |-> "natural"]
    <3>1. s \in Record
      BY DEF Record, IInv, TypeOK, Finish, SumOf, TransferState, Look
    <3>2. store'[Raw(u)] = s
      BY <1>2, <2>1 DEF FinishStores, IInv, TypeOK
    <3>3. s.url = Raw(u)
      OBVIOUS
    <3> HIDE DEF s
    <3> QED
      BY <3>1, <3>2, <3>3, NoRecordAssumption
  <2>4. CASE t = u
    BY <2>1, <2>2, <2>3, <2>4 DEF Leads, Listed
  <2>5. CASE t # u
    <3>1. CASE Finishing(t)
      BY <2>2, <2>5, <3>1 DEF Finishing
    <3>2. CASE ~Finishing(t)
      <4>1. PICK n \in Name : Leads(n, t) /\ (file[store[n].url] = "whole" \/ Preparing(n))
        BY <2>2, <3>2 DEF TakeIsListed, Leads
      <4>2. n # Raw(u)
        BY <2>1, <4>1 DEF IInv, StoreInv, Leads, Fresh
      <4>3. Preparing(n) => Preparing(n)'
        <5>1. \A c \in Connection : handler'[c] = IF c = stopWaiter THEN Idle ELSE handler[c]
          BY <1>2 DEF FinishStores, ResumeStop
        <5>2. stopWaiter # None => handler[stopWaiter].phase = "stop"
          BY DEF IInv, StopWaits
        <5>3. ASSUME NEW c \in Connection, handler[c].phase \in PreparePhase
              PROVE  handler'[c] = handler[c]
          BY <5>1, <5>2, <5>3, NoneAssumption DEF PreparePhase
        <5> QED
          BY <5>3 DEF Preparing
      <4> QED
        BY <2>2, <4>1, <4>2, <4>3 DEF Leads, Listed
    <3> QED
      BY <3>1, <3>2
  <2> QED
    BY <2>4, <2>5
<1>3. ASSUME NEW c \in Connection, NEW n \in Name, PrepareBegins(c, n)
      PROVE  \/ Finishing(t)'
             \/ \E m \in Name : Leads(m, t)' /\ (file'[store'[m].url] = "whole" \/ Preparing(m)')
  <2>1. /\ store' = store /\ fate' = fate /\ finish' = finish /\ Listed(n)
        /\ \A d \in Connection \ {c} : handler'[d] = handler[d]
        /\ handler[c].phase = "idle"
        /\ handler'[c].id = n /\ handler'[c].phase \in PreparePhase
        /\ \A m \in Name : m # Rendered(n) => file'[m] = file[m]
    BY <1>3 DEF PrepareBegins, IInv, TypeOK, PreparePhase
  <2>2. Preparing(n)' /\ \A m \in Name : Preparing(m) => Preparing(m)'
    BY <2>1 DEF Preparing, PreparePhase
  <2>3. CASE Finishing(t)
    BY <2>1, <2>3 DEF Finishing
  <2>4. CASE ~Finishing(t)
    <3>1. PICK m \in Name : Leads(m, t) /\ (file[store[m].url] = "whole" \/ Preparing(m))
      BY <2>1, <2>4 DEF TakeIsListed, Leads
    <3>2. CASE t = TakeOf(n)
      BY <2>1, <2>2, <3>2 DEF Leads, Listed, IInv, StoreInv
    <3>3. CASE t # TakeOf(n)
      <4>1. store[m].url \in Name /\ store[m].url # Rendered(n)
        BY <3>1, <3>3, RecordType DEF Leads, IInv
      <4> QED
        BY <2>1, <2>2, <3>1, <4>1 DEF Leads, Listed
    <3> QED
      BY <3>2, <3>3
  <2> QED
    BY <2>3, <2>4
<1>4. ASSUME NEW c \in Connection, ExportEnds(c) \/ ExportResumes(c)
      PROVE  \/ Finishing(t)'
             \/ \E m \in Name : Leads(m, t)' /\ (file'[store'[m].url] = "whole" \/ Preparing(m)')
  <2> DEFINE n == handler[c].id
  <2>1. /\ PrepPhase(c) /\ n \in Name /\ Preparing(n)
        /\ \A m \in Name : Preparing(m)' <=> Preparing(m)
        /\ \A m \in Name : TakeOf(m) # TakeOf(n) => file'[m] = file[m]
        /\ store' = store /\ fate' = fate /\ finish' = finish
    BY <1>0, <1>4, PrepareTouches
  <2>2. PICK k \in Name : k = n
    BY <2>1
  <2> HIDE DEF n
  <2>3. CASE Finishing(t)
    BY <2>1, <2>3 DEF Finishing
  <2>4. CASE ~Finishing(t)
    <3>1. PICK m \in Name : Leads(m, t) /\ (file[store[m].url] = "whole" \/ Preparing(m))
      BY <2>1, <2>4 DEF TakeIsListed, Leads
    <3>2. CASE t = TakeOf(k)
      <4>1. Listed(k)
        BY <2>1, <2>2, <3>2 DEF ListedInv, Kept, n
      <4>2. TakeOf(store[k].url) = t
        BY <3>2, <4>1 DEF IInv, StoreInv
      <4> QED
        BY <2>1, <2>2, <4>1, <4>2 DEF Leads, Listed
    <3>3. CASE t # TakeOf(k)
      <4>1. store[m].url \in Name /\ file'[store[m].url] = file[store[m].url]
        BY <2>1, <2>2, <3>1, <3>3, RecordType DEF Leads, IInv
      <4> QED
        BY <2>1, <3>1, <4>1 DEF Leads, Listed
    <3> QED
      BY <3>2, <3>3
  <2> QED
    BY <2>3, <2>4
<1>5. ASSUME NEW c \in Connection, PrepareStores(c)
      PROVE  \/ Finishing(t)'
             \/ \E m \in Name : Leads(m, t)' /\ (file'[store'[m].url] = "whole" \/ Preparing(m)')
  <2> DEFINE n == handler[c].id
             r == handler[c].rec
  <2>1. /\ n \in Name /\ TakeOf(r.url) = TakeOf(n)
        /\ Kept(TakeOf(n)) => file[r.url] = "whole"
        /\ store'[n].url = r.url /\ store'[n] # None
        /\ \A m \in Name : m # n => store'[m] = store[m]
        /\ \A m \in Name : m # n => (Preparing(m)' <=> Preparing(m))
        /\ file' = file /\ fate' = fate /\ finish' = finish
    BY <1>0, <1>5, StoresTouches
  <2>2. PICK k \in Name : k = n
    BY <2>1
  <2>3. PICK url : url = r.url
    OBVIOUS
  <2> HIDE DEF n, r
  <2>4. CASE Finishing(t)
    BY <2>1, <2>4 DEF Finishing
  <2>5. CASE ~Finishing(t)
    <3>1. PICK m \in Name : Leads(m, t) /\ (file[store[m].url] = "whole" \/ Preparing(m))
      BY <2>1, <2>5 DEF TakeIsListed, Leads
    <3>2. CASE t = TakeOf(k)
      BY <2>1, <2>2, <2>3, <3>2 DEF Leads, Listed, Kept
    <3>3. CASE t # TakeOf(k)
      <4>1. m # k
        BY <3>1, <3>3 DEF Leads, IInv, StoreInv
      <4> QED
        BY <2>1, <2>2, <3>1, <4>1 DEF Leads, Listed
    <3> QED
      BY <3>2, <3>3
  <2> QED
    BY <2>4, <2>5
<1>6. ASSUME NEW n \in Name, TransferComplete(n) \/ DeleteRecording(n)
      PROVE  \/ Finishing(t)'
             \/ \E m \in Name : Leads(m, t)' /\ (file'[store'[m].url] = "whole" \/ Preparing(m)')
  <2>1. Listed(n) /\ TakeOf(store[n].url) = TakeOf(n) /\ TakeOf(n) \in Take /\ store[n].url \in Name
    BY <1>6, RecordType DEF TransferComplete, DeleteRecording, IInv, StoreInv
  <2>2. /\ fate' = [fate EXCEPT ![TakeOf(n)] = "discarded"]
        /\ \A m \in Name : m # n => store'[m] = store[m]
        /\ \A m \in Name : m # store[n].url => file'[m] = file[m]
        /\ finish' = finish /\ handler' = handler
    BY <1>6, <2>1 DEF TransferComplete, DeleteRecording, Discard, DeleteFileThenRecord, IInv, TypeOK
  <2>3. t # TakeOf(n) /\ fate[t] = "captured"
    BY <2>1, <2>2 DEF IInv, TypeOK
  <2>4. CASE Finishing(t)
    BY <2>2, <2>4 DEF Finishing
  <2>5. CASE ~Finishing(t)
    <3>1. PICK m \in Name : Leads(m, t) /\ (file[store[m].url] = "whole" \/ Preparing(m))
      BY <2>3, <2>5 DEF TakeIsListed, Leads
    <3>2. m # n /\ store[m].url # store[n].url /\ store[m].url \in Name
      BY <2>1, <2>3, <3>1, RecordType DEF Leads, IInv
    <3> QED
      BY <2>2, <3>1, <3>2 DEF Leads, Listed, Preparing
  <2> QED
    BY <2>4, <2>5
<1>7. CASE Restart
  <2>1. fate[t] = "captured" /\ file' = file
    BY <1>7 DEF Restart
  <2>2. PICK n \in Name : TakeOf(n) = t /\ file[n] = "whole"
    BY <2>1 DEF IInv, FootageIsKept
  <2> DEFINE s == [url |-> n, state |-> "pending", sum |-> None,
                   look |-> "natural", rendered |-> None]
  <2>3. store'[n] = s
    BY <1>7, <2>2 DEF Restart
  <2>4. s \in Record /\ s.url = n
    BY DEF Record, TransferState, Look
  <2> HIDE DEF s
  <2> QED
    BY <2>1, <2>2, <2>3, <2>4, NoRecordAssumption DEF Leads, Listed
<1> QED
  BY <1>1, <1>2, <1>3, <1>4, <1>5, <1>6, <1>7 DEF Next

\* As long as clients start a take only when the previous one is listed and
\* prepare a clip one at a time, a take that ended well stays on the list, or is
\* on its way to it, until somebody gives it up: a failed export, a restart or
\* a prepare that runs while others come and go never loses it there.
THEOREM TakesStayListed == Overlap \subseteq {"stop"} => (Spec => []TakeIsListed)
<1> SUFFICES ASSUME Overlap \subseteq {"stop"} PROVE Spec => []TakeIsListed
  OBVIOUS
<1> DEFINE Inv == IInv /\ ListedInv /\ TakeIsListed
<1>1. Init => Inv
  BY FootageInit DEF Init, ListedInv, TakeIsListed, NoFinish, PrepPhase, PreparePhase, Idle
<1>2. Inv /\ [Next]_vars => Inv'
  BY FootageStep, ListedStep, TakeListedStep
<1>3. Inv => TakeIsListed
  OBVIOUS
<1> HIDE DEF Inv
<1> QED
  BY <1>1, <1>2, <1>3, PTL DEF Spec

\* What a restart lists beside the original stays as the restart listed it.
LEMMA RelistStep ==
  ASSUME IInv, RelistInv, Overlap \subseteq {"stop"}, [Next]_vars
  PROVE  RelistInv'
<1> USE NameFacts
<1>0. TypeOK'
  BY TypeStep DEF IInv
<1>1. CASE \/ ConfigureSession
           \/ \E look \in Look : ApplyProfile(look)
           \/ \E u \in Take : StartRecording(u)
           \/ \E c \in Connection : StopRecording(c)
           \/ CameraFinishes \/ CameraFails
           \/ \E u \in Take : FinishWithError(u) \/ FinishBegins(u)
           \/ UNCHANGED vars
  <2>1. store' = store /\ \A n \in Name : Preparing(n)' <=> Preparing(n)
    BY <1>0, <1>1, RecorderFrame
  <2> QED
    BY <2>1 DEF RelistInv, Listed
<1>2. ASSUME NEW u \in Take, FinishStores(u) PROVE RelistInv'
  <2>1. activeID = u /\ u # None /\ Finishing(u)
    BY <1>2, NoneAssumption DEF FinishStores, Finishing, IInv, CameraInv
  <2>2. \A n \in Name : n # Raw(u) => store'[n] = store[n]
    BY <1>2, <2>1 DEF FinishStores, IInv, TypeOK
  <2>3. \A n \in Name : Preparing(n)' => Preparing(n)
    BY <1>2 DEF FinishStores, ResumeStop, Preparing, PreparePhase, Idle
  <2> SUFFICES ASSUME NEW n \in Name, Listed(n)', n # Raw(TakeOf(n)),
                      NEW m \in Name, TakeOf(m) = TakeOf(n)
               PROVE  ~Preparing(m)' /\ (Listed(m)' => (store'[m].sum = None /\ store'[m].look = "natural"))
    BY DEF RelistInv
  <2>4. n # Raw(u) /\ Listed(n) /\ TakeOf(n) # u
    BY <2>1, <2>2 DEF Listed, IInv, StoreInv, Fresh
  <2>5. store'[m] = store[m]
    BY <2>2, <2>4
  <2> QED
    BY <2>3, <2>4, <2>5 DEF RelistInv, Listed
<1>3. ASSUME NEW c \in Connection, NEW n \in Name, PrepareBegins(c, n) PROVE RelistInv'
  <2>1. /\ store' = store /\ Listed(n) /\ NeedsExport(store[n])
        /\ \A d \in Connection \ {c} : handler'[d] = handler[d]
        /\ handler'[c].id = n
    BY <1>3 DEF PrepareBegins, IInv, TypeOK
  <2>2. \A m \in Name : Preparing(m)' => Preparing(m) \/ m = n
    BY <2>1 DEF Preparing
  <2>3. ~ \E m \in Name : Listed(m) /\ m # Raw(TakeOf(m)) /\ TakeOf(m) = TakeOf(n)
    BY <2>1 DEF RelistInv, NeedsExport
  <2> QED
    BY <2>1, <2>2, <2>3 DEF RelistInv, Listed
<1>4. ASSUME NEW c \in Connection, ExportEnds(c) \/ ExportResumes(c) PROVE RelistInv'
  <2>1. store' = store /\ \A n \in Name : Preparing(n)' <=> Preparing(n)
    BY <1>0, <1>4, PrepareTouches
  <2> QED
    BY <2>1 DEF RelistInv, Listed
<1>5. ASSUME NEW c \in Connection, PrepareStores(c) PROVE RelistInv'
  <2>1. PICK n \in Name : n = handler[c].id
    BY <1>0, <1>5, StoresTouches
  <2>2. /\ Preparing(n) /\ n = Raw(TakeOf(n))
        /\ \A m \in Name : m # n => store'[m] = store[m]
        /\ \A m \in Name : Preparing(m)' => Preparing(m)
    BY <1>0, <1>5, <2>1, StoresTouches
  <2>3. ~ \E m \in Name : Listed(m) /\ m # Raw(TakeOf(m)) /\ TakeOf(m) = TakeOf(n)
    BY <2>2 DEF RelistInv
  <2> SUFFICES ASSUME NEW k \in Name, Listed(k)', k # Raw(TakeOf(k)),
                      NEW m \in Name, TakeOf(m) = TakeOf(k)
               PROVE  ~Preparing(m)' /\ (Listed(m)' => (store'[m].sum = None /\ store'[m].look = "natural"))
    BY DEF RelistInv
  <2>4. Listed(k) /\ store'[m] = store[m]
    BY <2>2, <2>3 DEF Listed
  <2> QED
    BY <2>2, <2>4 DEF RelistInv, Listed
<1>6. ASSUME NEW n \in Name, TransferComplete(n) \/ DeleteRecording(n) PROVE RelistInv'
  <2>1. Listed(n) /\ store[n] \in Record
    BY <1>6, RecordType DEF TransferComplete, DeleteRecording, IInv
  <2>2. /\ handler' = handler
        /\ \A m \in Name : m # n => store'[m] = store[m]
        /\ Listed(n)' => store'[n].sum = store[n].sum /\ store'[n].look = store[n].look
    BY <1>6, <2>1 DEF TransferComplete, DeleteRecording, DeleteFileThenRecord, IInv, TypeOK, Record, Listed
  <2>3. \A m \in Name : Listed(m)' => Listed(m) /\ store'[m].sum = store[m].sum /\ store'[m].look = store[m].look
    BY <2>1, <2>2 DEF Listed
  <2>4. \A m \in Name : Preparing(m)' <=> Preparing(m)
    BY <2>2 DEF Preparing
  <2> QED
    BY <2>3, <2>4 DEF RelistInv
<1>7. CASE Restart
  <2>1. \A n \in Name : ~Preparing(n)'
    BY <1>7 DEF Restart, Preparing, PreparePhase, Idle
  <2>2. \A n \in Name : Listed(n)' => store'[n].sum = None /\ store'[n].look = "natural"
    BY <1>7 DEF Restart, Listed
  <2> QED
    BY <2>1, <2>2 DEF RelistInv
<1> QED
  BY <1>1, <1>2, <1>3, <1>4, <1>5, <1>6, <1>7 DEF Next

\* The file that a prepare is to list is never left half written.
LEMMA WholeStep ==
  ASSUME IInv, RelistInv, WholeInv, Overlap \subseteq {"stop"}, [Next]_vars
  PROVE  WholeInv'
<1> USE NameFacts
<1>0. TypeOK'
  BY TypeStep DEF IInv
<1>a. \A c \in Connection : PrepPhase(c) => /\ Source(c) \in Name
                                          /\ TakeOf(Source(c)) = TakeOf(handler[c].id)
                                          /\ TakeOf(handler[c].id) \in Take
                                          /\ ~Fresh(TakeOf(handler[c].id))
  BY PreparesAreApart DEF Source, IInv, PrepareInv
<1>b. \A n \in Name : Listed(n) /\ NeedsExport(store[n]) =>
        n = Raw(TakeOf(n)) /\ store[n].url = n /\ ~Fresh(TakeOf(n))
  BY DEF IInv, StoreInv
<1>1. CASE \/ ConfigureSession
           \/ \E look \in Look : ApplyProfile(look)
           \/ \E u \in Take : StartRecording(u)
           \/ \E c \in Connection : StopRecording(c)
           \/ CameraFinishes \/ CameraFails
           \/ \E u \in Take : FinishWithError(u) \/ FinishBegins(u)
           \/ UNCHANGED vars
  <2>1. /\ store' = store
        /\ \A c \in Connection : PrepPhase(c)' <=> PrepPhase(c)
        /\ \A c \in Connection : PrepPhase(c) => handler'[c] = handler[c]
        /\ \A n \in Name : ~Fresh(TakeOf(n)) => file'[n] = file[n]
    BY <1>0, <1>1, RecorderFrame
  <2>2. \A c \in Connection : PrepPhase(c)' => file'[Source(c)'] # "partial"
    <3> SUFFICES ASSUME NEW c \in Connection, PrepPhase(c)' PROVE file'[Source(c)'] # "partial"
      OBVIOUS
    <3>1. PrepPhase(c) /\ Source(c)' = Source(c)
      BY <2>1 DEF Source
    <3> QED
      BY <1>a, <2>1, <3>1 DEF WholeInv
  <2>3. \A n \in Name : Listed(n)' /\ NeedsExport(store[n])' => file'[n] # "partial"
    BY <1>b, <2>1 DEF WholeInv, Listed, NeedsExport
  <2> QED
    BY <2>2, <2>3 DEF WholeInv
<1>2. ASSUME NEW u \in Take, FinishStores(u) PROVE WholeInv'
  <2>1. activeID = u /\ u # None /\ file[Raw(u)] = "whole"
    BY <1>2, NoneAssumption DEF FinishStores, Finishing, IInv, CameraInv
  <2>2. file' = file /\ \A n \in Name : n # Raw(u) => store'[n] = store[n]
    BY <1>2, <2>1 DEF FinishStores, IInv, TypeOK
  <2>3. \A c \in Connection : PrepPhase(c)' => PrepPhase(c) /\ handler'[c] = handler[c]
    BY <1>2 DEF FinishStores, ResumeStop, PrepPhase, PreparePhase, Idle
  <2>4. \A c \in Connection : PrepPhase(c)' => PrepPhase(c) /\ Source(c)' = Source(c)
    BY <2>3 DEF Source
  <2>5. \A n \in Name : Listed(n)' /\ NeedsExport(store[n])' => file'[n] # "partial"
    BY <2>1, <2>2 DEF WholeInv, Listed, NeedsExport
  <2> QED
    BY <2>2, <2>4, <2>5 DEF WholeInv
<1>3. ASSUME NEW c \in Connection, NEW n \in Name, PrepareBegins(c, n) PROVE WholeInv'
  <2>1. /\ store' = store /\ Listed(n) /\ NeedsExport(store[n]) /\ ~Preparing(n)
        /\ \A d \in Connection \ {c} : handler'[d] = handler[d]
        /\ handler'[c].rec = store[n] /\ handler'[c].phase # "exported"
        /\ \A m \in Name : m # Rendered(n) => file'[m] = file[m]
    BY <1>3 DEF PrepareBegins, IInv, TypeOK
  <2>2. \A m \in Name : Listed(m)' /\ NeedsExport(store[m])' => file'[m] # "partial"
    BY <1>b, <2>1 DEF WholeInv, Listed, NeedsExport
  <2>3. file'[Source(c)'] # "partial"
    <3>1. Source(c)' = n /\ n # Rendered(n)
      BY <1>b, <2>1 DEF Source
    <3> QED
      BY <2>1, <3>1 DEF WholeInv
  <2>4. ASSUME NEW d \in Connection \ {c}, PrepPhase(d)' PROVE file'[Source(d)'] # "partial"
    <3>1. PrepPhase(d) /\ Source(d)' = Source(d) /\ handler[d].id # n
      BY <2>1, <2>4 DEF PrepPhase, Source, Preparing
    <3>2. handler[d].id \in Name /\ handler[d].id = Raw(TakeOf(handler[d].id))
      BY <3>1, PreparesAreApart
    <3>3. TakeOf(handler[d].id) # TakeOf(n)
      BY <1>b, <2>1, <3>1, <3>2
    <3> QED
      BY <1>a, <2>1, <3>1, <3>3 DEF WholeInv
  <2> QED
    BY <2>2, <2>3, <2>4 DEF WholeInv
<1>4. ASSUME NEW c \in Connection, ExportEnds(c) \/ ExportResumes(c) PROVE WholeInv'
  <2>1. PICK n \in Name : n = handler[c].id
    BY <1>0, <1>4, PrepareTouches
  <2>2. /\ PrepPhase(c) /\ n = Raw(TakeOf(n)) /\ handler'[c].id = n /\ n # Rendered(n)
        /\ \A d \in Connection \ {c} : handler'[d] = handler[d]
        /\ \A m \in Name : TakeOf(m) # TakeOf(n) => file'[m] = file[m]
        /\ store' = store /\ Preparing(n)
    BY <1>0, <1>4, <2>1, PrepareTouches
  <2>3. file'[n] = file[n] \/ file'[n] = "absent"
    BY <1>4, <2>1, <2>2 DEF ExportEnds, ExportResumes, IInv, TypeOK
  <2>4. ASSUME NEW d \in Connection \ {c}, PrepPhase(d)' PROVE file'[Source(d)'] # "partial"
    <3>1. PrepPhase(d) /\ Source(d)' = Source(d)
      BY <2>2, <2>4 DEF PrepPhase, Source
    <3>2. TakeOf(handler[d].id) # TakeOf(n)
      BY <2>1, <2>2, <3>1, PreparesAreApart
    <3> QED
      BY <1>a, <2>2, <3>1, <3>2 DEF WholeInv
  <2>5. file'[Source(c)'] # "partial"
    <3>1. CASE ExportEnds(c)
      <4>1. /\ handler'[c].phase \in {"exported", "exportFailed"}
            /\ handler'[c].rec = handler[c].rec /\ handler[c].rec.url = n
            /\ \A m \in Name : m # Rendered(n) => file'[m] = file[m]
            /\ handler[c].phase = "exporting"
        BY <2>1, <2>2, <3>1 DEF ExportEnds, IInv, TypeOK, Handler, PreparePhase, PrepareInv
      <4>2. handler'[c].phase = "exported" => file'[Rendered(n)] = "whole"
        <5>1. ~ \E d \in Connection \ {c} : handler[d].phase = "exporting" /\ handler[d].id = n
          BY <2>1, <2>2 DEF IInv, PrepareInv, PrepPhase, PreparePhase
        <5>2. PICK ok \in BOOLEAN, s \in {"whole", "absent", "partial"} :
                /\ ok => s = "whole"
                /\ file' = [file EXCEPT ![Rendered(n)] = s]
                /\ handler' = [handler EXCEPT ![c].phase = IF ok THEN "exported" ELSE "exportFailed"]
          BY <2>1, <3>1, <5>1 DEF ExportEnds
        <5>3. handler'[c].phase = IF ok THEN "exported" ELSE "exportFailed"
          BY <2>2, <5>2 DEF IInv, TypeOK, Handler, PreparePhase, PrepPhase
        <5>4. file'[Rendered(n)] = s
          BY <5>2 DEF IInv, TypeOK
        <5> QED
          BY <5>2, <5>3, <5>4
      <4>3. file[n] # "partial"
        BY <2>2, <4>1 DEF WholeInv, Source
      <4> QED
        BY <2>2, <4>1, <4>2, <4>3 DEF Source
    <3>2. CASE ExportResumes(c)
      <4> DEFINE r == handler[c].rec
                 copy == IF handler[c].phase = "exported"
                         THEN [r EXCEPT !.url = Rendered(n), !.rendered = r.look]
                         ELSE [r EXCEPT !.rendered = "natural"]
      <4>1. handler[c] \in [phase : PreparePhase, take : {None}, id : Name, rec : Record] /\ r \in Record
        BY <2>2, HandlerType DEF IInv, TypeOK, PrepPhase, PreparePhase, Handler
      <4>2. handler' = [handler EXCEPT ![c] = [@ EXCEPT !.phase = "inspecting", !.rec = copy]]
        BY <2>1, <3>2 DEF ExportResumes
      <4>3. /\ handler[c].phase \in {"exported", "exportFailed"} /\ r.url = n
            /\ \A m \in Name : m # n => file'[m] = file[m]
            /\ handler[c].phase = "exportFailed" => file'[n] = file[n]
        BY <2>1, <2>2, <3>2 DEF ExportResumes, IInv, TypeOK, PrepareInv
      <4>4. copy.url = IF handler[c].phase = "exported" THEN Rendered(n) ELSE n
        BY <4>1, <4>3 DEF Record
      <4> HIDE DEF copy
      <4>5. handler'[c].phase = "inspecting" /\ handler'[c].rec = copy
        BY <4>1, <4>2 DEF IInv, TypeOK
      <4>6. Source(c)' = Source(c)
        BY <2>1, <4>3, <4>4, <4>5 DEF Source
      <4>7. file'[Source(c)] = file[Source(c)]
        BY <2>1, <2>2, <4>3 DEF Source
      <4> QED
        BY <2>2, <4>6, <4>7 DEF WholeInv
    <3> QED
      BY <1>4, <3>1, <3>2
  <2>6. \A m \in Name : Listed(m)' /\ NeedsExport(store[m])' => file'[m] # "partial"
    BY <1>b, <2>2, <2>3 DEF WholeInv, Listed, NeedsExport
  <2> QED
    BY <2>4, <2>5, <2>6 DEF WholeInv
<1>5. ASSUME NEW c \in Connection, PrepareStores(c) PROVE WholeInv'
  <2>1. PICK n \in Name, r \in Record : n = handler[c].id /\ r = handler[c].rec
    BY <1>0, <1>5, StoresTouches, HandlerType DEF IInv
  <2>2. /\ PrepPhase(c) /\ handler[c].phase = "inspecting" /\ ~PrepPhase(c)'
        /\ (r.rendered # r.look => r.url = n)
        /\ store'[n].url = r.url /\ store'[n].look = r.look /\ store'[n].rendered = r.rendered
        /\ \A m \in Name : m # n => store'[m] = store[m]
        /\ \A d \in Connection \ {c} : handler'[d] = handler[d]
        /\ file' = file
    BY <1>0, <1>5, <2>1, StoresTouches
  <2>3. file[r.url] # "partial"
    BY <2>1, <2>2 DEF WholeInv, Source
  <2>4. \A d \in Connection : PrepPhase(d)' => PrepPhase(d) /\ Source(d)' = Source(d)
    BY <2>2 DEF PrepPhase, Source
  <2>5. \A m \in Name : Listed(m)' /\ NeedsExport(store[m])' => file'[m] # "partial"
    BY <2>2, <2>3 DEF WholeInv, Listed, NeedsExport
  <2> QED
    BY <2>2, <2>4, <2>5 DEF WholeInv
<1>6. ASSUME NEW n \in Name, TransferComplete(n) \/ DeleteRecording(n) PROVE WholeInv'
  <2>1. Listed(n) /\ store[n] \in Record /\ store[n].url \in Name
    BY <1>6, RecordType DEF TransferComplete, DeleteRecording, IInv
  <2>2. /\ handler' = handler
        /\ \A m \in Name : m # n => store'[m] = store[m]
        /\ Listed(n)' => store'[n].rendered = store[n].rendered /\ store'[n].look = store[n].look
        /\ \A m \in Name : file'[m] = file[m] \/ file'[m] = "absent"
    BY <1>6, <2>1 DEF TransferComplete, DeleteRecording, DeleteFileThenRecord, IInv, TypeOK, Record, Listed
  <2>3. \A m \in Name : Listed(m)' /\ NeedsExport(store[m])' => file'[m] # "partial"
    BY <2>1, <2>2 DEF WholeInv, Listed, NeedsExport
  <2>4. \A d \in Connection : (PrepPhase(d)' <=> PrepPhase(d)) /\ Source(d)' = Source(d)
    BY <2>2 DEF PrepPhase, Source
  <2> QED
    BY <1>a, <2>2, <2>3, <2>4 DEF WholeInv
<1>7. CASE Restart
  <2>1. \A c \in Connection : ~PrepPhase(c)'
    BY <1>7 DEF Restart, PrepPhase, PreparePhase, Idle
  <2>2. \A n \in Name : Listed(n)' => store'[n].look = "natural"
    BY <1>7 DEF Restart, Listed
  <2> QED
    BY <2>1, <2>2 DEF WholeInv, NeedsExport
<1> QED
  BY <1>1, <1>2, <1>3, <1>4, <1>5, <1>6, <1>7 DEF Next

Vouched(n) == store[n].sum = store[n].url /\ file[store[n].url] = "whole"

\* A record's checksum is that of the complete file it serves, or its clip is
\* being replaced: nothing else can touch the file of a record with a checksum.
LEMMA SumStep ==
  ASSUME IInv, RelistInv, WholeInv, SumIsOfServedFile, Overlap \subseteq {"stop"}, [Next]_vars
  PROVE  SumIsOfServedFile'
<1> USE NameFacts
<1>0. TypeOK'
  BY TypeStep DEF IInv
<1> SUFFICES ASSUME NEW n \in Name, Listed(n)', store'[n].sum # None, ~Preparing(n)'
             PROVE  Vouched(n)'
  BY DEF SumIsOfServedFile, Vouched
\* A record that keeps its file and its checksum, and whose prepare goes on.
<1>k. ASSUME Listed(n), store'[n].sum = store[n].sum, store'[n].url = store[n].url,
             file'[store[n].url] = file[store[n].url], Preparing(n) => Preparing(n)'
      PROVE  Vouched(n)'
  BY <1>k DEF SumIsOfServedFile, Vouched
\* Two records of one take: a restart listed the second, and both lost their sums.
<1>u. ASSUME Listed(n), store[n].sum # None, NEW m \in Name, Listed(m), TakeOf(m) = TakeOf(n)
      PROVE  m = n
  BY <1>u DEF RelistInv
<1>1. CASE \/ ConfigureSession
           \/ \E look \in Look : ApplyProfile(look)
           \/ \E u \in Take : StartRecording(u)
           \/ \E c \in Connection : StopRecording(c)
           \/ CameraFinishes \/ CameraFails
           \/ \E u \in Take : FinishWithError(u) \/ FinishBegins(u)
           \/ UNCHANGED vars
  <2>1. /\ store' = store
        /\ \A m \in Name : Preparing(m)' <=> Preparing(m)
        /\ \A m \in Name : ~Fresh(TakeOf(m)) => file'[m] = file[m]
    BY <1>0, <1>1, RecorderFrame
  <2>2. Listed(n)
    BY <2>1 DEF Listed
  <2>3. file'[store[n].url] = file[store[n].url]
    BY <2>1, <2>2, RecordType DEF IInv, StoreInv
  <2> QED
    BY <1>k, <2>1, <2>2, <2>3
<1>2. ASSUME NEW u \in Take, FinishStores(u) PROVE Vouched(n)'
  <2>1. activeID = u /\ u # None /\ file[Raw(u)] = "whole"
    BY <1>2, NoneAssumption DEF FinishStores, Finishing, IInv, CameraInv
  <2>2. /\ file' = file /\ \A m \in Name : m # Raw(u) => store'[m] = store[m]
        /\ store'[Raw(u)].url = Raw(u) /\ store'[Raw(u)].sum = SumOf(Raw(u))
    BY <1>2, <2>1 DEF FinishStores, IInv, TypeOK
  <2>3. CASE n = Raw(u)
    BY <2>1, <2>2, <2>3 DEF Vouched, SumOf
  <2>4. CASE n # Raw(u)
    <3>1. Preparing(n) => Preparing(n)'
      <4>1. \A c \in Connection : handler'[c] = IF c = stopWaiter THEN Idle ELSE handler[c]
        BY <1>2 DEF FinishStores, ResumeStop
      <4>2. stopWaiter # None => handler[stopWaiter].phase = "stop"
        BY DEF IInv, StopWaits
      <4>3. ASSUME NEW c \in Connection, handler[c].phase \in PreparePhase
            PROVE  handler'[c] = handler[c]
        BY <4>1, <4>2, <4>3, NoneAssumption DEF PreparePhase
      <4> QED
        BY <4>3 DEF Preparing
    <3> QED
      BY <1>k, <2>2, <2>4, <3>1 DEF Listed
  <2> QED
    BY <2>3, <2>4
<1>3. ASSUME NEW c \in Connection, NEW k \in Name, PrepareBegins(c, k) PROVE Vouched(n)'
  <2>1. /\ store' = store /\ Listed(k)
        /\ \A d \in Connection \ {c} : handler'[d] = handler[d]
        /\ handler[c].phase = "idle"
        /\ handler'[c].id = k /\ handler'[c].phase \in PreparePhase
        /\ \A m \in Name : m # Rendered(k) => file'[m] = file[m]
    BY <1>3 DEF PrepareBegins, IInv, TypeOK, PreparePhase
  <2>2. Preparing(k)' /\ \A m \in Name : Preparing(m) => Preparing(m)'
    BY <2>1 DEF Preparing, PreparePhase
  <2>3. Listed(n) /\ n # k
    BY <2>1, <2>2 DEF Listed
  <2>4. TakeOf(n) # TakeOf(k)
    BY <1>u, <2>1, <2>3
  <2>5. store[n].url \in Name /\ TakeOf(store[n].url) = TakeOf(n)
    BY <2>3, RecordType DEF IInv, StoreInv
  <2> QED
    BY <1>k, <2>1, <2>2, <2>3, <2>4, <2>5
<1>4. ASSUME NEW c \in Connection, ExportEnds(c) \/ ExportResumes(c) PROVE Vouched(n)'
  <2>1. PICK k \in Name : k = handler[c].id
    BY <1>0, <1>4, PrepareTouches
  <2>2. /\ store' = store /\ Preparing(k) /\ k = Raw(TakeOf(k))
        /\ \A m \in Name : Preparing(m)' <=> Preparing(m)
        /\ \A m \in Name : TakeOf(m) # TakeOf(k) => file'[m] = file[m]
    BY <1>0, <1>4, <2>1, PrepareTouches
  <2>3. Listed(n) /\ n # k /\ ~Preparing(n)
    BY <2>2 DEF Listed
  <2>4. TakeOf(n) # TakeOf(k)
    <3>1. n = Raw(TakeOf(n))
      BY <2>2, <2>3 DEF RelistInv
    <3> QED
      BY <2>2, <2>3, <3>1
  <2>5. store[n].url \in Name /\ TakeOf(store[n].url) = TakeOf(n)
    BY <2>3, RecordType DEF IInv, StoreInv
  <2> QED
    BY <1>k, <2>2, <2>3, <2>4, <2>5
<1>5. ASSUME NEW c \in Connection, PrepareStores(c) PROVE Vouched(n)'
  <2>1. PICK k \in Name, r \in Record : k = handler[c].id /\ r = handler[c].rec
    BY <1>0, <1>5, StoresTouches, HandlerType DEF IInv
  <2>2. /\ PrepPhase(c) /\ handler[c].phase = "inspecting"
        /\ store'[k].url = r.url /\ store'[k].sum = SumOf(r.url) /\ r.url \in Name
        /\ \A m \in Name : m # k => store'[m] = store[m]
        /\ \A m \in Name : m # k => (Preparing(m)' <=> Preparing(m))
        /\ file' = file
    BY <1>0, <1>5, <2>1, StoresTouches
  <2>3. CASE n = k
    <3>1. file[r.url] # "partial" /\ file[r.url] \in FileState
      BY <2>1, <2>2 DEF WholeInv, Source, IInv, TypeOK
    <3> QED
      BY <2>2, <2>3, <3>1 DEF Vouched, SumOf, FileState
  <2>4. CASE n # k
    BY <1>k, <2>2, <2>4 DEF Listed
  <2> QED
    BY <2>3, <2>4
<1>6. ASSUME NEW k \in Name, TransferComplete(k) \/ DeleteRecording(k) PROVE Vouched(n)'
  <2>1. Listed(k) /\ store[k] \in Record /\ store[k].url \in Name /\ TakeOf(store[k].url) = TakeOf(k)
    BY <1>6, RecordType DEF TransferComplete, DeleteRecording, IInv, StoreInv
  <2>2. /\ handler' = handler
        /\ \A m \in Name : m # k => store'[m] = store[m]
        /\ Listed(k)' => store'[k].sum = store[k].sum /\ store'[k].url = store[k].url
                         /\ file' = file
        /\ \A m \in Name : m # store[k].url => file'[m] = file[m]
    BY <1>6, <2>1 DEF TransferComplete, DeleteRecording, DeleteFileThenRecord, IInv, TypeOK, Record, Listed
  <2>3. Listed(n) /\ store'[n].sum = store[n].sum /\ store'[n].url = store[n].url
    BY <2>1, <2>2 DEF Listed
  <2>4. file'[store[n].url] = file[store[n].url]
    <3>1. CASE n = k
      BY <2>2, <3>1
    <3>2. CASE n # k
      <4>1. TakeOf(n) # TakeOf(k)
        BY <1>u, <2>1, <2>3, <3>2
      <4>2. store[n].url \in Name /\ TakeOf(store[n].url) = TakeOf(n)
        BY <2>3, RecordType DEF IInv, StoreInv
      <4> QED
        BY <2>1, <2>2, <4>1, <4>2
    <3> QED
      BY <3>1, <3>2
  <2>5. Preparing(n) => Preparing(n)'
    BY <2>2 DEF Preparing
  <2> QED
    BY <1>k, <2>3, <2>4, <2>5
<1>7. CASE Restart
  BY <1>7 DEF Restart, Listed
<1> QED
  BY <1>1, <1>2, <1>3, <1>4, <1>5, <1>6, <1>7 DEF Next

\* Under the same conditions on its clients the phone never hands out the
\* checksum of another file than the one the record serves, nor that of half a
\* file, except while a prepare is replacing it: exports that end, fail or are
\* cut off, files that cannot be removed and restarts included.
THEOREM SumsAreOfServedFiles == Overlap \subseteq {"stop"} => (Spec => []SumIsOfServedFile)
<1> SUFFICES ASSUME Overlap \subseteq {"stop"} PROVE Spec => []SumIsOfServedFile
  OBVIOUS
<1> DEFINE Inv == IInv /\ RelistInv /\ WholeInv /\ SumIsOfServedFile
<1>1. Init => Inv
  BY FootageInit DEF Init, RelistInv, WholeInv, SumIsOfServedFile, Listed, PrepPhase, PreparePhase, Idle
<1>2. Inv /\ [Next]_vars => Inv'
  BY FootageStep, RelistStep, WholeStep, SumStep
<1>3. Inv => SumIsOfServedFile
  OBVIOUS
<1> HIDE DEF Inv
<1> QED
  BY <1>1, <1>2, <1>3, PTL DEF Spec
=============================================================================
