---------------------------- MODULE TransportFollow ----------------------------
(***************************************************************************)
(* The REAPER extension on macOS: it follows REAPER's transport with the   *)
(* iPhone's camera, asks what to do with each take, downloads it and puts  *)
(* it on the ReaShoot track.                                               *)
(*                                                                         *)
(* All of it runs on REAPER's main thread: timerPoll about thirty times a  *)
(* second, the user's commands, and the completion blocks of the helper    *)
(* processes.  configure and start block that thread; every other helper   *)
(* runs beside it and its completion is queued.  While a prompt is open    *)
(* the queue stands still but the timer goes on.                           *)
(*                                                                         *)
(* A position on a time line is known by the clip whose filming began      *)
(* there, an edit cursor by the project it belongs to.                     *)
(***************************************************************************)
EXTENDS Naturals, FiniteSets

CONSTANTS
  Clip,        \* the clips the phone may film
  Project,     \* REAPER's open projects
  Helper,      \* helper processes that may run at a time
  RetryLimit,  \* attempts to align an item (kAlignmentRetryLimit, 15)
  Patient,     \* the user gives no command while a take is being dealt with
  Reliable,    \* no answer of the phone is lost or late
  None

ASSUME RetryAssumption == RetryLimit \in Nat \ {0}
ASSUME HabitAssumption == Patient \in BOOLEAN /\ Reliable \in BOOLEAN
ASSUME NoneAssumption ==
  None \notin Clip \cup Project \cup Helper \cup [clip : Clip, at : Clip]
ASSUME ClipAssumption == Clip \cap (Project \cup {"none", "error"}) = {}

VARIABLES
  open,             \* REAPER: the current project
  play,             \* REAPER: the play state of each project
  wasRecording,     \* the record bit of g_previousPlayState
  videoEnabled,     \* g_videoEnabled
  followEnabled,    \* g_followEnabled
  active,           \* g_activeTransportRecording
  recordProject,    \* g_recordProject
  recordAt,         \* g_recordStartPosition
  remoteRecording,  \* the recorder's remoteRecording
  stopCompletion,   \* the insert position its block has captured, or None
  pendingInsert,    \* g_pendingInsertPath and g_pendingInsertPosition
  alignment,        \* g_pendingAlignmentItem
  tries,            \* g_pendingAlignmentAttempts
  prompt,           \* the clip the Download / Delete prompt asks about
  task,             \* the helper processes
  film,             \* phone: the clip being filmed
  waiter,           \* phone: the stop command that will be answered
  pending,          \* phone: the clips it keeps
  shot,             \* history: the project each clip was filmed for
  told,             \* history: clips of which an error was shown while they were filmed
  owed              \* history: clips reported as downloaded after a stop whose
                    \* insertion was not attempted yet

reaper == <<open, play>>
enabled == <<videoEnabled, followEnabled>>
recording == <<active, recordProject, recordAt, remoteRecording, stopCompletion>>
phone == <<film, waiter, pending, shot, told>>
track == <<alignment, tries>>
vars == <<reaper, wasRecording, enabled, recording, pendingInsert, track, prompt,
          task, phone, owed>>
-----------------------------------------------------------------------------
PlayState == {"stopped", "playing", "recording"}
Item == [clip : Clip, project : Project, at : Clip \cup Project]
Insert == [clip : Clip, at : Clip]
Kind == {"stop", "download", "restore", "delete"}
Task == [kind : Kind \cup {"none"}, clip : Clip \cup {None},
         phase : {"sent", "waiting", "fetched", "succeeded", "failed"}]
NoTask == [kind |-> "none", clip |-> None, phase |-> "failed"]

TypeOK ==
  /\ open \in Project
  /\ play \in [Project -> PlayState]
  /\ wasRecording \in BOOLEAN
  /\ videoEnabled \in BOOLEAN /\ followEnabled \in BOOLEAN
  /\ active \in BOOLEAN
  /\ recordProject \in Project \cup {None}
  /\ recordAt \in Clip \cup {None}
  /\ remoteRecording \in BOOLEAN
  /\ stopCompletion \in Clip \cup {None}
  /\ pendingInsert \in Insert \cup {None}
  /\ alignment \in Item \cup {None}
  /\ tries \in 0..(RetryLimit - 1)
  /\ prompt \in Clip \cup {None}
  /\ task \in [Helper -> Task]
  /\ film \in Clip \cup {None}
  /\ waiter \in Helper \cup {None}
  /\ pending \subseteq Clip
  /\ shot \in [Clip -> Project \cup {None}]
  /\ owed \cup told \subseteq Clip

Init ==
  /\ open \in Project
  /\ play = [p \in Project |-> "stopped"]
  /\ wasRecording = FALSE
  /\ videoEnabled = FALSE
  /\ followEnabled \in BOOLEAN
  /\ active = FALSE
  /\ recordProject = None
  /\ recordAt = None
  /\ remoteRecording = FALSE
  /\ stopCompletion = None
  /\ pendingInsert = None
  /\ alignment = None
  /\ tries = 0
  /\ prompt = None
  /\ task = [h \in Helper |-> NoTask]
  /\ film = None
  /\ waiter = None
  /\ pending = {}
  /\ shot = [c \in Clip |-> None]
  /\ owed = {} /\ told = {}

Recording == \E p \in Project : play[p] = "recording"
Free(h) == task[h].kind = "none"
Finished(h) == task[h].phase \in {"succeeded", "failed"}
Quiet == prompt = None /\ \A h \in Helper : Free(h)
\* A prompt is modal, and a patient user waits for the work in hand.
UserMayAct == prompt = None /\ (Patient => Quiet)

Launch(h, kind, clip) ==
  /\ Free(h)
  /\ task' = [task EXCEPT ![h] = [kind |-> kind, clip |-> clip, phase |-> "sent"]]
Ends(h) == task' = [task EXCEPT ![h] = NoTask]
Advance(h, phase) == task' = [task EXCEPT ![h].phase = phase]
-----------------------------------------------------------------------------
(* Following the transport.                                                *)

\* startIPhoneRecording.  The phone films a new clip, or it refuses or is not
\* reached and an error is shown; its answer may also get lost.
StartIPhoneRecording(project) ==
  \/ /\ recordAt' = None
     /\ UNCHANGED <<active, remoteRecording, phone>>
  \/ \E c \in Clip :
       /\ film = None
       /\ shot[c] = None
       /\ film' = c
       /\ shot' = [shot EXCEPT ![c] = project]
       /\ \/ /\ active' = TRUE
             /\ remoteRecording' = TRUE
             /\ recordAt' = c
             /\ UNCHANGED told
          \/ /\ ~Reliable
             /\ recordAt' = None
             /\ told' = told \cup {c}
             /\ UNCHANGED <<active, remoteRecording>>
       /\ UNCHANGED <<waiter, pending>>

\* startTransportRecording does nothing while a take is being dealt with.
StartTransportRecording(project) ==
  \/ /\ active \/ remoteRecording
     /\ UNCHANGED <<recording, phone>>
  \/ /\ ~active /\ ~remoteRecording
     /\ recordProject' = project
     /\ StartIPhoneRecording(project)
     /\ UNCHANGED stopCompletion

\* Mutant: the recorder stops counting as recording when stop-only is launched.
StopRecordingWithCompletion_ForgetsAtOnce ==
  \/ /\ ~remoteRecording
     /\ stopCompletion' = None
     /\ active' = FALSE
     /\ UNCHANGED <<remoteRecording, task>>
  \/ /\ remoteRecording
     /\ stopCompletion' = recordAt
     /\ remoteRecording' = FALSE
     /\ \E h \in Helper : Launch(h, "stop", None)
     /\ UNCHANGED active

\* The new block replaces an earlier one.  With no clip on the phone it is
\* called at once, with neither a path nor an error.
StopRecordingWithCompletion ==
  \/ /\ ~remoteRecording
     /\ stopCompletion' = None
     /\ active' = FALSE
     /\ UNCHANGED <<remoteRecording, task>>
  \/ /\ remoteRecording
     /\ stopCompletion' = recordAt
     /\ \E h \in Helper : Launch(h, "stop", None)
     /\ UNCHANGED <<active, remoteRecording>>

StopTransportRecording ==
  \/ /\ ~active /\ ~remoteRecording
     /\ UNCHANGED <<recording, task>>
  \/ /\ active \/ remoteRecording
     /\ StopRecordingWithCompletion
     /\ UNCHANGED <<recordProject, recordAt>>

ClearPendingAlignment == alignment' = None /\ tries' = 0
QueuePendingAlignment(item) == alignment' = item /\ tries' = 0

\* insertRecordedMedia into project and queuePendingAlignment, or an error is
\* shown and nothing is inserted.
InsertRecordedMedia(clip, project, at) ==
  \/ QueuePendingAlignment([clip |-> clip, project |-> project, at |-> at])
  \/ UNCHANGED track

RecordingProject == IF recordProject # None THEN recordProject ELSE open

\* Mutant: one attempt too many.
ProcessPendingAlignment_OneMore ==
  \/ UNCHANGED track
  \/ /\ alignment # None
     /\ play[alignment.project] = "stopped"
     /\ \/ ClearPendingAlignment
        \/ /\ tries + 1 <= RetryLimit
           /\ tries' = tries + 1
           /\ UNCHANGED alignment

\* processPendingAlignment: about once a second while the item's project is
\* at rest; an item that was removed from the track is forgotten.
ProcessPendingAlignment ==
  \/ UNCHANGED track
  \/ /\ alignment # None
     /\ play[alignment.project] = "stopped"
     /\ \/ ClearPendingAlignment
        \/ /\ tries + 1 < RetryLimit
           /\ tries' = tries + 1
           /\ UNCHANGED alignment

\* processPendingInsert; an item just inserted is not aligned for a second.
ProcessPendingInsert ==
  /\ InsertRecordedMedia(pendingInsert.clip, RecordingProject, pendingInsert.at)
  /\ owed' = owed \ {pendingInsert.clip}

\* The record bit of the current project has changed since the last poll.
FollowTransport ==
  LET now == play[open] = "recording"
  IN  /\ wasRecording' = now
      /\ \/ /\ followEnabled /\ now /\ ~wasRecording
            /\ StartTransportRecording(open)
            /\ UNCHANGED task
         \/ /\ followEnabled /\ ~now /\ wasRecording
            /\ StopTransportRecording
            /\ UNCHANGED phone
         \/ /\ followEnabled => now = wasRecording
            /\ UNCHANGED <<recording, phone, task>>

\* Mutant: the transport is followed before the pending insertion.
TimerPoll_FollowsFirst ==
  /\ \/ /\ videoEnabled
        /\ FollowTransport
     \/ /\ ~videoEnabled
        /\ wasRecording' = FALSE
        /\ UNCHANGED <<recording, phone, task>>
  /\ \/ /\ pendingInsert # None
        /\ InsertRecordedMedia(pendingInsert.clip,
             IF recordProject' # None THEN recordProject' ELSE open, pendingInsert.at)
        /\ owed' = owed \ {pendingInsert.clip}
     \/ /\ pendingInsert = None
        /\ ProcessPendingAlignment
        /\ UNCHANGED owed
  /\ pendingInsert' = None
  /\ UNCHANGED <<reaper, enabled, prompt>>

\* timerPoll, with its work on the preview left out.
TimerPoll ==
  /\ \/ pendingInsert # None /\ ProcessPendingInsert
     \/ pendingInsert = None /\ ProcessPendingAlignment /\ UNCHANGED owed
  /\ pendingInsert' = None
  /\ \/ /\ videoEnabled
        /\ FollowTransport
     \/ /\ ~videoEnabled
        /\ wasRecording' = FALSE
        /\ UNCHANGED <<recording, phone, task>>
  /\ UNCHANGED <<reaper, enabled, prompt>>
-----------------------------------------------------------------------------
(* What the user does in REAPER.                                           *)

\* Play, record, punch out, stop.  Only one project records at a time.
TransportMoves(p, state) ==
  /\ state # play[p]
  /\ state = "recording" => p = open /\ ~Recording /\ UserMayAct
  /\ play' = [play EXCEPT ![p] = state]
  /\ UNCHANGED <<open, wasRecording, enabled, recording, pendingInsert, track, prompt,
                 task, phone, owed>>

SwitchProject(p) ==
  /\ UserMayAct
  /\ p # open
  /\ open' = p
  /\ UNCHANGED <<play, wasRecording, enabled, recording, pendingInsert, track, prompt,
                 task, phone, owed>>

\* Both commands that end a recording do so only for one the phone confirmed.
StopIfRecording ==
  \/ remoteRecording /\ StopTransportRecording
  \/ ~remoteRecording /\ UNCHANGED <<recording, task>>

\* setVideoEnabled, which also sets the follow flag.
ToggleVideo ==
  /\ UserMayAct
  /\ videoEnabled' = ~videoEnabled
  /\ followEnabled' = ~videoEnabled
  /\ IF videoEnabled THEN StopIfRecording ELSE UNCHANGED <<recording, task>>
  /\ UNCHANGED <<reaper, wasRecording, pendingInsert, track, prompt, phone, owed>>

\* Mutant: turning the follow flag off leaves the phone alone.
ToggleFollow_NoStop ==
  /\ UserMayAct
  /\ followEnabled' = ~followEnabled
  /\ UNCHANGED <<reaper, wasRecording, videoEnabled, recording, pendingInsert, track, prompt,
                 task, phone, owed>>

\* The Toggle Transport Follow action.
ToggleFollow ==
  /\ UserMayAct
  /\ followEnabled' = ~followEnabled
  /\ IF followEnabled THEN StopIfRecording ELSE UNCHANGED <<recording, task>>
  /\ UNCHANGED <<reaper, wasRecording, videoEnabled, pendingInsert, track, prompt, phone, owed>>

\* Restore Pending iPhone Recording, up to the choice of a clip from the list.
Restore(c) ==
  /\ UserMayAct
  /\ c \in pending
  /\ \E h \in Helper : Launch(h, "restore", c)
  /\ UNCHANGED <<reaper, wasRecording, enabled, recording, pendingInsert, track, prompt,
                 phone, owed>>

\* Align Selected Video Item, which drops the alignment that is pending.
AlignSelected ==
  /\ UserMayAct
  /\ alignment # None
  /\ ClearPendingAlignment
  /\ UNCHANGED <<reaper, wasRecording, enabled, recording, pendingInsert, prompt,
                 task, phone, owed>>
-----------------------------------------------------------------------------
(* The phone, as the helpers see it.                                       *)

\* stopRecording arrives; a second one takes the place of the first.
PhoneStops(h) ==
  /\ task[h].kind = "stop" /\ task[h].phase = "sent"
  /\ IF film = None
     THEN Advance(h, "failed") /\ UNCHANGED waiter
     ELSE Advance(h, "waiting") /\ waiter' = h
  /\ UNCHANGED <<reaper, wasRecording, enabled, recording, pendingInsert, track, prompt,
                 film, pending, shot, told, owed>>

\* The camera has closed the file: the clip is listed and the stop answered.
PhoneFinishes ==
  /\ film # None
  /\ waiter # None
  /\ film' = None
  /\ waiter' = None
  /\ pending' = pending \cup {film}
  /\ task' = IF task[waiter].kind = "stop" /\ task[waiter].phase = "waiting"
             THEN [task EXCEPT ![waiter].phase = "succeeded", ![waiter].clip = film]
             ELSE task
  /\ UNCHANGED <<reaper, wasRecording, enabled, recording, pendingInsert, track, prompt,
                 shot, told, owed>>

\* The camera gives up, asked to stop or not.
PhoneFails ==
  /\ film # None
  /\ film' = None
  /\ waiter' = None
  /\ task' = IF /\ waiter # None
                /\ task[waiter].kind = "stop" /\ task[waiter].phase = "waiting"
             THEN [task EXCEPT ![waiter].phase = "failed"]
             ELSE task
  /\ UNCHANGED <<reaper, wasRecording, enabled, recording, pendingInsert, track, prompt,
                 pending, shot, told, owed>>

\* The helper gives up after 20 seconds: a superseded stop is never answered,
\* another one may be late or lost.
StopTimesOut(h) ==
  /\ task[h].kind = "stop" /\ task[h].phase \in {"sent", "waiting"}
  /\ Reliable => task[h].phase = "waiting" /\ waiter # h
  /\ Advance(h, "failed")
  /\ UNCHANGED <<reaper, wasRecording, enabled, recording, pendingInsert, track, prompt,
                 phone, owed>>

\* download-recording has a verified movie on disk, or fails.
DownloadFetches(h) ==
  /\ task[h].kind \in {"download", "restore"} /\ task[h].phase = "sent"
  /\ \/ task[h].clip \in pending /\ Advance(h, "fetched")
     \/ Advance(h, "failed")
  /\ UNCHANGED <<reaper, wasRecording, enabled, recording, pendingInsert, track, prompt,
                 phone, owed>>

\* transferComplete: the phone deletes the clip, or cannot and answers with an
\* error event, which the helper fails on; a broken connection is only a warning.
\* A helper that is killed once the clip is gone never tells where the movie is.
DownloadAcknowledges(h) ==
  /\ task[h].kind \in {"download", "restore"} /\ task[h].phase = "fetched"
  /\ \/ /\ pending' = pending \ {task[h].clip}
        /\ Advance(h, "succeeded")
     \/ /\ Advance(h, "failed")
        /\ UNCHANGED pending
     \/ /\ ~Reliable
        /\ Advance(h, "succeeded")
        /\ UNCHANGED pending
     \/ /\ ~Reliable
        /\ pending' = pending \ {task[h].clip}
        /\ Advance(h, "failed")
  /\ UNCHANGED <<reaper, wasRecording, enabled, recording, pendingInsert, track, prompt,
                 film, waiter, shot, told, owed>>

\* The phone's user, Delete or Delete All on REAPER's list of pending clips.
PendingDeleted(c) ==
  /\ c \in pending
  /\ pending' = pending \ {c}
  /\ UNCHANGED <<reaper, wasRecording, enabled, recording, pendingInsert, track, prompt,
                 task, film, waiter, shot, told, owed>>

\* delete-recording, for the take that was just stopped.
PhoneDeletes(h) ==
  /\ task[h].kind = "delete" /\ task[h].phase = "sent"
  /\ \/ /\ pending' = pending \ {task[h].clip}
        /\ Advance(h, "succeeded")
     \/ /\ Advance(h, "failed")
        /\ UNCHANGED pending
  /\ UNCHANGED <<reaper, wasRecording, enabled, recording, pendingInsert, track, prompt,
                 film, waiter, shot, told, owed>>
-----------------------------------------------------------------------------
(* Completion blocks on the main queue.                                    *)

\* Mutant: the block is dropped before it is called.
FinishStop_ClearsFirst(result) ==
  /\ stopCompletion' = None
  /\ UNCHANGED <<active, pendingInsert>>

\* finishIPhoneStopWithPath: call the block once.  result is the clip of a
\* path, "none" for no path, "error" for an error.
FinishStop(result) ==
  \/ /\ stopCompletion = None
     /\ UNCHANGED <<active, stopCompletion, pendingInsert>>
  \/ /\ stopCompletion # None
     /\ stopCompletion' = None
     /\ active' = FALSE
     /\ pendingInsert' = IF result \in Clip THEN [clip |-> result, at |-> stopCompletion]
                         ELSE IF result = "none" THEN None ELSE pendingInsert

\* stop-only has ended: the recorder no longer counts as recording.  The block
\* shows an error that it is given.
StopCompletes(h) ==
  /\ task[h].kind = "stop" /\ Finished(h)
  /\ prompt = None
  /\ remoteRecording' = FALSE
  /\ Ends(h)
  /\ \/ /\ task[h].phase = "succeeded"
        /\ prompt' = task[h].clip
        /\ UNCHANGED <<active, stopCompletion, pendingInsert, told>>
     \/ /\ task[h].phase = "failed"
        /\ FinishStop("error")
        /\ told' = IF stopCompletion = None THEN told ELSE told \cup ({film} \ {None})
        /\ UNCHANGED prompt
  /\ UNCHANGED <<reaper, wasRecording, enabled, recordProject, recordAt, track,
                 film, waiter, pending, shot, owed>>

\* promptForStoppedIPhoneRecording: Download or Delete.
PromptIsAnswered ==
  /\ prompt # None
  /\ \E h \in Helper, kind \in {"download", "delete"} : Launch(h, kind, prompt)
  /\ prompt' = None
  /\ UNCHANGED <<reaper, wasRecording, enabled, recording, pendingInsert, track, phone, owed>>

\* downloadStoppedIPhoneRecording's completion.
DownloadCompletes(h) ==
  /\ task[h].kind = "download" /\ Finished(h)
  /\ prompt = None
  /\ Ends(h)
  /\ \/ /\ task[h].phase = "succeeded"
        /\ owed' = owed \cup {task[h].clip}
        /\ FinishStop(task[h].clip)
     \/ /\ task[h].phase = "failed"
        /\ FinishStop("error")
        /\ UNCHANGED owed
  /\ UNCHANGED <<reaper, wasRecording, enabled, recordProject, recordAt, remoteRecording,
                 track, prompt, phone>>

\* Mutant: a failed delete is not passed on.
DeleteCompletes_SuccessOnly(h) ==
  /\ task[h].kind = "delete" /\ Finished(h)
  /\ prompt = None
  /\ Ends(h)
  /\ \/ task[h].phase = "succeeded" /\ FinishStop("none")
     \/ task[h].phase = "failed" /\ UNCHANGED <<active, stopCompletion, pendingInsert>>
  /\ UNCHANGED <<reaper, wasRecording, enabled, recordProject, recordAt, remoteRecording,
                 track, prompt, phone, owed>>

\* deleteStoppedIPhoneRecording's completion.
DeleteCompletes(h) ==
  /\ task[h].kind = "delete" /\ Finished(h)
  /\ prompt = None
  /\ Ends(h)
  /\ FinishStop(IF task[h].phase = "succeeded" THEN "none" ELSE "error")
  /\ UNCHANGED <<reaper, wasRecording, enabled, recordProject, recordAt, remoteRecording,
                 track, prompt, phone, owed>>

\* restoreIPhoneRecording's completion inserts at the current project's cursor.
RestoreCompletes(h) ==
  /\ task[h].kind = "restore" /\ Finished(h)
  /\ prompt = None
  /\ Ends(h)
  /\ \/ /\ task[h].phase = "succeeded"
        /\ InsertRecordedMedia(task[h].clip, RecordingProject, open)
     \/ /\ task[h].phase = "failed"
        /\ UNCHANGED track
  /\ UNCHANGED <<reaper, wasRecording, enabled, recording, pendingInsert, prompt, phone, owed>>

Complete(h) ==
  StopCompletes(h) \/ DownloadCompletes(h) \/ DeleteCompletes(h) \/ RestoreCompletes(h)
PhoneWorks(h) ==
  \/ PhoneStops(h) \/ StopTimesOut(h)
  \/ DownloadFetches(h) \/ DownloadAcknowledges(h) \/ PhoneDeletes(h)

Next ==
  \/ TimerPoll
  \/ \E p \in Project, state \in PlayState : TransportMoves(p, state)
  \/ \E p \in Project : SwitchProject(p)
  \/ ToggleVideo
  \/ ToggleFollow
  \/ \E c \in Clip : Restore(c)
  \/ AlignSelected
  \/ \E c \in Clip : PendingDeleted(c)
  \/ PhoneFinishes
  \/ PhoneFails
  \/ PromptIsAnswered
  \/ \E h \in Helper : PhoneWorks(h) \/ Complete(h)

Spec == Init /\ [][Next]_vars

\* The timer fires, the phone and the helpers make progress (their time-outs
\* see to it) and the main queue is served.  The user owes nothing.
Fairness ==
  /\ WF_vars(TimerPoll)
  /\ WF_vars(PhoneFinishes)
  /\ \A h \in Helper : WF_vars(PhoneWorks(h)) /\ WF_vars(Complete(h))

FairSpec == Spec /\ Fairness
-----------------------------------------------------------------------------
(* What following the transport must guarantee.                            *)

\* A take that was downloaded after a stop is put at its own record-start
\* position in the project it was recorded for: insertPosition is captured at
\* the stop, g_recordProject is read at the insertion.  (Every item is queued
\* for alignment as it is inserted.)
InsertedWhereRecorded ==
  alignment # None /\ alignment.at \in Clip =>
    alignment.at = alignment.clip /\ alignment.project = shot[alignment.clip]

\* A take the helper reported as downloaded is about to be put on the track
\* until that was attempted.
DownloadedIsInserted ==
  \A c \in owed : pendingInsert # None /\ pendingInsert.clip = c

\* The phone films nothing the extension has silently forgotten about: leaving
\* record mode will still stop it, or the user was shown that starting or
\* stopping it failed.
FilmIsKnown == film # None => remoteRecording \/ film \in told

\* A restored clip goes to the cursor of the project it is inserted into.
RestoredIntoOpenProject ==
  alignment # None /\ alignment.at \in Project => alignment.project = alignment.at

\* An inserted item is not displaced by the next one before its alignment was
\* attempted.
AlignmentIsTried ==
  [][alignment # None /\ alignment' \notin {None, alignment} => tries > 0]_vars

\* Once REAPER has left record mode, the phone stops filming.
FilmStops == film # None /\ ~Recording ~> film = None \/ Recording

\* A take never blocks the next one for good: its active flag is cleared unless
\* REAPER records on or the user is being asked.
FollowRecovers ==
  active /\ ~Recording /\ prompt = None ~> ~active \/ Recording \/ prompt # None
=============================================================================
