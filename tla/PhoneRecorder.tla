---------------------------- MODULE PhoneRecorder ----------------------------
(***************************************************************************)
(* The iPhone side of ReaShoot: the recording store, the capture engine    *)
(* and the control commands that act on them.                              *)
(*                                                                         *)
(* Everything here runs on the Swift main actor, so an action is what the  *)
(* code does between two suspension points (await): other commands, the    *)
(* camera's callbacks and the user run in between.  A take is one shot of  *)
(* the camera; its clip is first the raw file <<take, "raw">> and, once    *)
(* its look has been exported, the file <<take, "look">>.                  *)
(***************************************************************************)
EXTENDS Naturals, FiniteSets

CONSTANTS
  Take,         \* the takes that may be shot: one id and one file name each
  Connection,   \* control connections, each running one command at a time
  Overlap,      \* which commands clients may overlap with unfinished work
  None          \* no take, no connection, no record, no checksum

Commands == {"start", "stop", "prepare"}

ASSUME NoneAssumption == None \notin Take \cup Connection \cup (Take \X {"raw", "look"})
ASSUME OverlapAssumption == Overlap \subseteq Commands

VARIABLES
  file,          \* what is on disk under each name
  store,         \* RecordingStore.recordings, by id
  configured,    \* CaptureRecordingEngine.isConfigured
  profileLook,   \* currentProfile.look
  output,        \* the take movieOutput is recording, or None
  stopping,      \* movieOutput.stopRecording() has been called
  finish,        \* progress of each take's didFinishRecording callback
  activeID,      \* activeRecordingID
  activeLook,    \* activeRecordingLook
  stopWaiter,    \* stopContinuation: the connection it will answer
  handler,       \* the command each connection is suspended in
  reply,         \* the last answer to a stop, per connection
  fate           \* history: what has become of each take

camera == <<configured, profileLook, output, stopping, activeID, activeLook>>
vars == <<file, store, camera, finish, stopWaiter, handler, reply, fate>>
-----------------------------------------------------------------------------
Name == Take \X {"raw", "look"}
TakeOf(n) == n[1]
Raw(t) == <<t, "raw">>
Rendered(n) == <<TakeOf(n), "look">>   \* "<recordingID>-<look>.mov"

Look == {"natural", "styled"}
FileState == {"absent", "partial", "whole"}
TransferState == {"pending", "transferring", "transferred", "failed"}
Record == [url : Name, state : TransferState, sum : Name \cup {None},
           look : Look, rendered : Look \cup {None}]
ASSUME NoRecordAssumption == None \notin Record

FinishPhase == {"none", "delivered", "error", "inspecting"}
Finish == [phase : FinishPhase, look : Look]
PreparePhase == {"exporting", "exported", "exportFailed", "inspecting"}
Handler == [phase : {"idle", "stop"}, take : Take \cup {None}, id : {None}, rec : {None}]
             \cup [phase : PreparePhase, take : {None}, id : Name, rec : Record]
Reply == [kind : {"none", "stopped", "error"}, take : Take \cup {None},
          id : Name \cup {None}, url : Name \cup {None}]
Fate == {"unused", "shooting", "captured", "interrupted", "lost", "discarded"}

Idle == [phase |-> "idle", take |-> None, id |-> None, rec |-> None]
NoReply == [kind |-> "none", take |-> None, id |-> None, url |-> None]
NoFinish == [phase |-> "none", look |-> "natural"]

TypeOK ==
  /\ file \in [Name -> FileState]
  /\ store \in [Name -> Record \cup {None}]
  /\ configured \in BOOLEAN
  /\ profileLook \in Look
  /\ output \in Take \cup {None}
  /\ stopping \in BOOLEAN
  /\ finish \in [Take -> Finish]
  /\ activeID \in Take \cup {None}
  /\ activeLook \in Look
  /\ stopWaiter \in Connection \cup {None}
  /\ handler \in [Connection -> Handler]
  /\ reply \in [Connection -> Reply]
  /\ fate \in [Take -> Fate]

Listed(n) == store[n] # None
Preparing(n) == \E c \in Connection :
                  /\ handler[c].phase \in PreparePhase
                  /\ handler[c].id = n
\* RecordingFileInspector.fileInfo: the checksum identifies the bytes it is of.
SumOf(n) == IF file[n] = "absent" THEN None ELSE n
Finishing(t) == finish[t].phase # "none"

Init ==
  /\ file = [n \in Name |-> "absent"]
  /\ store = [n \in Name |-> None]
  /\ configured = FALSE
  /\ profileLook = "natural"
  /\ output = None
  /\ stopping = FALSE
  /\ finish = [t \in Take |-> NoFinish]
  /\ activeID = None
  /\ activeLook = "natural"
  /\ stopWaiter = None
  /\ handler = [c \in Connection |-> Idle]
  /\ reply = [c \in Connection |-> NoReply]
  /\ fate = [t \in Take |-> "unused"]
-----------------------------------------------------------------------------
(* The camera session and its profile.                                     *)

\* ReaShootService.prepare: permissions granted, the capture session is built.
ConfigureSession ==
  /\ ~configured
  /\ configured' = TRUE
  /\ UNCHANGED <<file, store, profileLook, output, stopping, activeID, activeLook,
                 finish, stopWaiter, handler, reply, fate>>

\* configureCapture: the profile cannot change while a movie is recorded.
ApplyProfile(look) ==
  /\ output = None
  /\ profileLook' = look
  /\ UNCHANGED <<file, store, configured, output, stopping, activeID, activeLook,
                 finish, stopWaiter, handler, reply, fate>>

\* Mutant: the active id of an earlier take is kept.
StartRecording_KeepsOldID(t) ==
  /\ configured
  /\ output = None
  /\ \A u \in Take : ~Finishing(u)
  /\ fate[t] = "unused"
  /\ activeID' = IF activeID = None THEN t ELSE activeID
  /\ activeLook' = profileLook
  /\ output' = t
  /\ stopping' = FALSE
  /\ file' = [file EXCEPT ![Raw(t)] = "partial"]
  /\ fate' = [fate EXCEPT ![t] = "shooting"]
  /\ UNCHANGED <<store, configured, profileLook, finish, stopWaiter, handler, reply>>

\* startRecording.  The id carries a time stamp, so a take is started once.
StartRecording(t) ==
  /\ configured
  /\ output = None
  /\ "start" \in Overlap \/ \A u \in Take : ~Finishing(u)
  /\ fate[t] = "unused"
  /\ activeID' = t
  /\ activeLook' = profileLook
  /\ output' = t
  /\ stopping' = FALSE
  /\ file' = [file EXCEPT ![Raw(t)] = "partial"]
  /\ fate' = [fate EXCEPT ![t] = "shooting"]
  /\ UNCHANGED <<store, configured, profileLook, finish, stopWaiter, handler, reply>>

\* stopRecording: the connection suspends on stopContinuation.  isRecording
\* stays true until the camera has closed the file.
StopRecording(c) ==
  /\ handler[c].phase = "idle"
  /\ output # None
  /\ "stop" \in Overlap \/ stopWaiter = None
  /\ stopWaiter' = c
  /\ stopping' = TRUE
  /\ handler' = [handler EXCEPT ![c] = [Idle EXCEPT !.phase = "stop", !.take = output]]
  /\ reply' = [reply EXCEPT ![c] = NoReply]
  /\ UNCHANGED <<file, store, configured, profileLook, output, activeID, activeLook,
                 finish, fate>>
-----------------------------------------------------------------------------
(* The camera closes the file and calls the recording delegate.            *)

\* AVFoundation wrote the movie after stopRecording().
CameraFinishes ==
  /\ output # None
  /\ stopping
  /\ file' = [file EXCEPT ![Raw(output)] = "whole"]
  /\ finish' = [finish EXCEPT ![output] = [NoFinish EXCEPT !.phase = "delivered"]]
  /\ fate' = [fate EXCEPT ![output] = "captured"]
  /\ output' = None
  /\ UNCHANGED <<store, configured, profileLook, stopping, activeID, activeLook,
                 stopWaiter, handler, reply>>

\* The recording ends with an error (interruption, disk full, ...), asked to
\* stop or not; the movie on disk may nevertheless be complete.
CameraFails ==
  /\ output # None
  /\ \E s \in {"partial", "whole"} :
       /\ file' = [file EXCEPT ![Raw(output)] = s]
       /\ fate' = [fate EXCEPT ![output] = IF s = "whole" THEN "interrupted" ELSE "lost"]
  /\ finish' = [finish EXCEPT ![output] = [NoFinish EXCEPT !.phase = "error"]]
  /\ output' = None
  /\ UNCHANGED <<store, configured, profileLook, stopping, activeID, activeLook,
                 stopWaiter, handler, reply>>

\* Resume stopContinuation, if there is one.
ResumeStop(kind, id, url) ==
  /\ stopWaiter' = None
  /\ handler' = [c \in Connection |-> IF c = stopWaiter THEN Idle ELSE handler[c]]
  /\ reply' = [c \in Connection |->
                 IF c = stopWaiter
                 THEN [kind |-> kind, take |-> handler[c].take, id |-> id, url |-> url]
                 ELSE reply[c]]

\* Mutant: the error path returns without resuming the stop.
FinishWithError_NoResume(t) ==
  /\ finish[t].phase = "error"
  /\ finish' = [finish EXCEPT ![t] = NoFinish]
  /\ UNCHANGED <<file, store, camera, stopWaiter, handler, reply, fate>>

\* didFinishRecording with an error: the stop fails and nothing is listed.
FinishWithError(t) ==
  /\ finish[t].phase = "error"
  /\ finish' = [finish EXCEPT ![t] = NoFinish]
  /\ ResumeStop("error", None, None)
  /\ UNCHANGED <<file, store, camera, fate>>

\* didFinishRecording up to the await: the look is read, the file is hashed.
FinishBegins(t) ==
  /\ finish[t].phase = "delivered"
  /\ finish' = [finish EXCEPT ![t] = [phase |-> "inspecting", look |-> activeLook]]
  /\ UNCHANGED <<file, store, camera, stopWaiter, handler, reply, fate>>

\* didFinishRecording after the await: the clip is listed under the active id.
FinishStores(t) ==
  /\ finish[t].phase = "inspecting"
  /\ LET id == Raw(IF activeID # None THEN activeID ELSE t)
     IN  /\ store' = [store EXCEPT ![id] =
              [url |-> Raw(t), state |-> "pending", sum |-> SumOf(Raw(t)),
               look |-> finish[t].look, rendered |-> "natural"]]
         /\ ResumeStop("stopped", id, Raw(t))
  /\ activeID' = None
  /\ activeLook' = "natural"
  /\ finish' = [finish EXCEPT ![t] = NoFinish]
  /\ UNCHANGED <<file, configured, profileLook, output, stopping, fate>>
-----------------------------------------------------------------------------
(* prepareRecording: render the look before the clip is downloaded.        *)

NeedsExport(r) == r.look # "natural" /\ r.rendered # r.look

\* Up to the export's await: a leftover output file is removed first, and an
\* input that is gone makes the export fail.
PrepareBegins(c, n) ==
  /\ handler[c].phase = "idle"
  /\ Listed(n)
  /\ NeedsExport(store[n])
  /\ "prepare" \in Overlap \/ ~Preparing(n)
  /\ LET readable == file[store[n].url] # "absent"
     IN  /\ handler' = [handler EXCEPT ![c] =
              [phase |-> IF readable THEN "exporting" ELSE "exportFailed",
               take |-> None, id |-> n, rec |-> store[n]]]
         /\ file' = [file EXCEPT ![Rendered(n)] = IF readable THEN "partial" ELSE "absent"]
  /\ reply' = [reply EXCEPT ![c] = NoReply]
  /\ UNCHANGED <<store, camera, finish, stopWaiter, fate>>

\* AVAssetExportSession is done.  Another export that began later has removed
\* the file this one was writing, and a failure may leave a piece of it.
ExportEnds(c) ==
  /\ handler[c].phase = "exporting"
  /\ LET n == handler[c].id
         superseded == \E d \in Connection \ {c} :
                         handler[d].phase = "exporting" /\ handler[d].id = n
     IN  \E ok \in BOOLEAN :
           /\ handler' = [handler EXCEPT ![c].phase = IF ok THEN "exported" ELSE "exportFailed"]
           /\ \E s \in IF ok THEN {"whole"} ELSE {"absent", "partial"} :
                file' = [file EXCEPT ![Rendered(n)] = IF superseded THEN @ ELSE s]
  /\ UNCHANGED <<store, camera, finish, stopWaiter, reply, fate>>

\* Mutant: the original is removed whether or not the export worked.
ExportResumes_AlwaysRemoves(c) ==
  /\ handler[c].phase \in {"exported", "exportFailed"}
  /\ LET r == handler[c].rec
     IN  /\ file' = [file EXCEPT ![r.url] = "absent"]
         /\ handler' = [handler EXCEPT ![c] = [@ EXCEPT !.phase = "inspecting",
              !.rec = [r EXCEPT !.url = Rendered(handler[c].id), !.rendered = r.look]]]
  /\ UNCHANGED <<store, camera, finish, stopWaiter, reply, fate>>

\* Mutant: the record is pointed at the rendered movie that does not exist.
ExportResumes_MovesOnFailure(c) ==
  /\ handler[c].phase \in {"exported", "exportFailed"}
  /\ LET r == handler[c].rec
     IN  handler' = [handler EXCEPT ![c] = [@ EXCEPT !.phase = "inspecting",
              !.rec = [r EXCEPT !.url = Rendered(handler[c].id), !.rendered = r.look]]]
  /\ UNCHANGED <<file, store, camera, finish, stopWaiter, reply, fate>>

\* Mutant: a failed export is not resumed.
ExportResumes_SuccessOnly(c) ==
  /\ handler[c].phase = "exported"
  /\ LET r == handler[c].rec
     IN  handler' = [handler EXCEPT ![c] = [@ EXCEPT !.phase = "inspecting",
              !.rec = [r EXCEPT !.url = Rendered(handler[c].id), !.rendered = r.look]]]
  /\ UNCHANGED <<file, store, camera, finish, stopWaiter, reply, fate>>

\* After the export, up to the await on its checksum: the original is removed
\* (try?, so it may stay) once the rendered movie is there.
ExportResumes(c) ==
  /\ LET r == handler[c].rec
         resumeWith(copy) == handler' =
           [handler EXCEPT ![c] = [@ EXCEPT !.phase = "inspecting", !.rec = copy]]
     IN  \/ /\ handler[c].phase = "exported"
            /\ resumeWith([r EXCEPT !.url = Rendered(handler[c].id), !.rendered = r.look])
            /\ \/ file' = [file EXCEPT ![r.url] = "absent"]
               \/ file' = file
         \/ /\ handler[c].phase = "exportFailed"
            /\ resumeWith([r EXCEPT !.rendered = "natural"])
            /\ UNCHANGED file
  /\ UNCHANGED <<store, camera, finish, stopWaiter, reply, fate>>

\* Mutant: the checksum of the original is kept for the rendered movie.
PrepareStores_OldSum(c) ==
  /\ handler[c].phase = "inspecting"
  /\ store' = [store EXCEPT ![handler[c].id] = handler[c].rec]
  /\ handler' = [handler EXCEPT ![c] = Idle]
  /\ UNCHANGED <<file, camera, finish, stopWaiter, reply, fate>>

\* After the checksum's await: the copy taken before the export is stored.
PrepareStores(c) ==
  /\ handler[c].phase = "inspecting"
  /\ LET r == handler[c].rec
     IN  store' = [store EXCEPT ![handler[c].id] = [r EXCEPT !.sum = SumOf(r.url)]]
  /\ handler' = [handler EXCEPT ![c] = Idle]
  /\ UNCHANGED <<file, camera, finish, stopWaiter, reply, fate>>
-----------------------------------------------------------------------------
(* Forgetting a clip: transferComplete, deleteRecording, the phone's user. *)

CanTransition(current, next) ==
  \/ current = next
  \/ current = "pending" /\ next \in {"transferring", "transferred", "failed"}
  \/ current = "transferring" /\ next \in {"transferred", "failed"}
  \/ current = "failed" /\ next = "transferring"

\* History: the clip that goes is the one in the record's file.
Discard(r) == fate' = [fate EXCEPT ![TakeOf(r.url)] = "discarded"]

\* RecordingStore.deleteRecording: the file goes first; if it cannot be removed
\* the record r stays.
DeleteFileThenRecord(n, r) ==
  \/ /\ file' = [file EXCEPT ![r.url] = "absent"]
     /\ store' = [store EXCEPT ![n] = None]
  \/ /\ file[r.url] # "absent"
     /\ store' = [store EXCEPT ![n] = r]
     /\ UNCHANGED file

\* transferComplete: mark the clip transferred, then delete it.
TransferComplete(n) ==
  /\ Listed(n)
  /\ CanTransition(store[n].state, "transferred")
  /\ DeleteFileThenRecord(n, [store[n] EXCEPT !.state = "transferred"])
  /\ Discard(store[n])
  /\ UNCHANGED <<camera, finish, stopWaiter, handler, reply>>

\* deleteRecording from REAPER or deletePendingRecording from the phone's list.
DeleteRecording(n) ==
  /\ Listed(n)
  /\ DeleteFileThenRecord(n, store[n])
  /\ Discard(store[n])
  /\ UNCHANGED <<camera, finish, stopWaiter, handler, reply>>
-----------------------------------------------------------------------------
\* The app dies and is opened again: only the files survive, and every movie
\* file found is listed as pending, under its own name and with no checksum.
Restart ==
  /\ store' = [n \in Name |->
                 IF file[n] = "absent" THEN None
                 ELSE [url |-> n, state |-> "pending", sum |-> None,
                       look |-> "natural", rendered |-> None]]
  /\ configured' = FALSE
  /\ profileLook' = "natural"
  /\ output' = None
  /\ stopping' = FALSE
  /\ finish' = [t \in Take |-> NoFinish]
  /\ activeID' = None
  /\ activeLook' = "natural"
  /\ stopWaiter' = None
  /\ handler' = [c \in Connection |-> Idle]
  /\ reply' = [c \in Connection |-> NoReply]
  /\ fate' = [t \in Take |-> IF fate[t] = "shooting" THEN "lost" ELSE fate[t]]
  /\ UNCHANGED file

Next ==
  \/ ConfigureSession
  \/ \E look \in Look : ApplyProfile(look)
  \/ \E t \in Take : StartRecording(t)
  \/ \E c \in Connection : StopRecording(c)
  \/ CameraFinishes
  \/ CameraFails
  \/ \E t \in Take : FinishWithError(t)
  \/ \E t \in Take : FinishBegins(t)
  \/ \E t \in Take : FinishStores(t)
  \/ \E c \in Connection, n \in Name : PrepareBegins(c, n)
  \/ \E c \in Connection : ExportEnds(c)
  \/ \E c \in Connection : ExportResumes(c)
  \/ \E c \in Connection : PrepareStores(c)
  \/ \E n \in Name : TransferComplete(n)
  \/ \E n \in Name : DeleteRecording(n)
  \/ Restart

Spec == Init /\ [][Next]_vars

\* The main actor runs what is ready, AVFoundation answers a stop, and a look
\* export ends (a stalled one is cancelled after 120 seconds).
Fairness ==
  /\ WF_vars(CameraFinishes)
  /\ \A t \in Take : WF_vars(FinishWithError(t) \/ FinishBegins(t) \/ FinishStores(t))
  /\ \A c \in Connection : WF_vars(ExportEnds(c) \/ ExportResumes(c) \/ PrepareStores(c))

FairSpec == Spec /\ Fairness
-----------------------------------------------------------------------------
(* What the phone must guarantee.                                          *)

\* A take whose movie was complete on the phone keeps a complete movie file
\* until somebody deletes or acknowledges it, whatever is being exported,
\* retried, interrupted or restarted (prepareRecordingForDownload removes the
\* original, filteredRecordingURL a leftover output).
FootageIsKept ==
  \A t \in Take : fate[t] \in {"captured", "interrupted"} =>
    \E n \in Name : TakeOf(n) = t /\ file[n] = "whole"

\* A take that ended well is on its way to the list or can be restored from it:
\* a record leads to a complete file of that take, or is being re-written by
\* the prepare that is moving it.
TakeIsListed ==
  \A t \in Take : fate[t] = "captured" =>
    \/ Finishing(t)
    \/ \E n \in Name : /\ Listed(n)
                       /\ TakeOf(store[n].url) = t
                       /\ file[store[n].url] = "whole" \/ Preparing(n)

\* A checksum handed to the helper is that of the file the record serves,
\* except while a prepare is replacing that file.
SumIsOfServedFile ==
  \A n \in Name : Listed(n) /\ store[n].sum # None =>
    Preparing(n) \/ (store[n].sum = store[n].url /\ file[store[n].url] = "whole")

\* A successful stop is answered with the clip that was being recorded when the
\* stop arrived, under that clip's own id.
StopAnswersItsTake ==
  \A c \in Connection : reply[c].kind = "stopped" =>
    /\ reply[c].url = Raw(reply[c].take)
    /\ reply[c].id = Raw(reply[c].take)

\* A deleted or acknowledged take does not come back to the list of a running
\* app (store.upsert after an await re-inserts what was deleted meanwhile).
DeletedStaysDeleted ==
  [][\A n \in Name : store[n] = None /\ store'[n] # None =>
       fate[TakeOf(store'[n].url)] # "discarded" \/ Restart]_vars

\* Every stopRecording command whose continuation is kept is answered, unless that of
\* another stop overwrites it (stopContinuation is one slot).
StopIsAnswered ==
  \A c \in Connection :
    stopWaiter = c ~> handler[c].phase # "stop" \/ stopWaiter \notin {None, c}

\* Every prepareRecording command ends, whether its export works or not.
PrepareIsAnswered ==
  \A c \in Connection :
    handler[c].phase \in PreparePhase ~> handler[c].phase \notin PreparePhase
=============================================================================
