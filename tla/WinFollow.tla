------------------------------ MODULE WinFollow ------------------------------
(***************************************************************************)
(* Takes in the Windows extension (reaper_reashoot_win32.cpp): following   *)
(* the transport, dealing with a finished take, restoring and deleting     *)
(* recordings.  Unlike the macOS one it starts helpers side by side, never *)
(* waits for one before the next, and asks its questions in message boxes: *)
(* a message box runs its own message loop, so the timer fires inside it   *)
(* and drains the queue again while the rest of the outer batch waits.     *)
(*                                                                         *)
(* A film is named by the REAPER pass whose start command began it; the    *)
(* place of a pass is its project and record-start position; Cursor is the *)
(* place a restored clip goes to.  The place a film is to go to is read    *)
(* from the two globals when the question about it is answered; from then  *)
(* on it is carried by the command.                                        *)
(***************************************************************************)
EXTENDS Integers, Sequences, FiniteSets, SequencesExt

CONSTANTS
  MaxPasses,   \* bound: how often the user enters record
  MaxBoxes,    \* bound: nested message boxes
  MaxRequests, \* bound: commands of the user and changes of the pairing
  Unhurried,   \* the user lets the timer tick between two acts
  Patient,     \* and lets work in hand end before beginning anything
  OneDownload  \* the user asks for a download only when none is under way

ASSUME WinFollowAssumption ==
  /\ MaxPasses \in Nat /\ MaxBoxes \in Nat \ {0} /\ MaxRequests \in Nat
  /\ Unhurried \in BOOLEAN /\ Patient \in BOOLEAN /\ OneDownload \in BOOLEAN

Passes == 1..MaxPasses
Cursor == 0

VARIABLES
  video, follow,  \* ReaShootController
  paired,         \* g_iPhoneHost and g_iPhoneToken are set
  rolling, pass,  \* REAPER's transport, and how many passes it began
  prev,           \* g_previousPlayState
  showing,        \* showingPlayback()
  active,         \* g_activeTransportRecording
  recordPlace,    \* g_recordProject, g_recordStartPosition
  filming, kept,  \* the phone: the film being shot (0: none), its recordings
  disk,           \* files of the announced size in the capture directory
  helpers,        \* helper processes at work
  queue,          \* g_mainQueue
  ticks,          \* running timerPoll calls, the innermost last
  slot,           \* g_pendingInsert...
  inserted,       \* items on the ReaShoot track
  requests,       \* commands and changes of the pairing so far
  fetched, told, agreed, steady, ticked  \* history

transport == <<rolling, pass, steady>>
phone     == <<filming, kept, disk>>
history   == <<fetched, told, agreed>>
vars == <<video, follow, paired, transport, prev, showing, active, recordPlace, phone,
          helpers, queue, ticks, slot, inserted, requests, history, ticked>>

NoFilm == [film |-> 0, place |-> Cursor, restored |-> FALSE]
Film(f, p, r) == [film |-> f, place |-> p, restored |-> r]
Job(c, f, ids) == [cmd |-> c, for |-> f, ids |-> ids]

TypeOK ==
  /\ {video, follow, paired, showing, active, ticked} \subseteq BOOLEAN
  /\ steady \in {"no", "followed", "seen"}
  /\ rolling \in {"stopped", "playing", "recording"}
  /\ prev \in {"stopped", "playing", "recording"}
  /\ {pass, recordPlace, filming} \subseteq 0..MaxPasses
  /\ kept \cup disk \cup fetched \cup told \cup agreed \subseteq Passes
  /\ kept \cap fetched = {} /\ filming \notin kept
  /\ \A j \in helpers :
       j.cmd \in {"start", "stop", "download", "delete", "restore", "deleteAll"}
  /\ Len(ticks) <= MaxBoxes + 1
  /\ \A i \in 1..Len(ticks) : i < Len(ticks) => ticks[i].ask # "none"
  /\ slot = NoFilm \/ slot.film \in Passes
  /\ requests \in 0..MaxRequests

Init ==
  /\ video = FALSE /\ follow = FALSE /\ paired \in BOOLEAN
  /\ rolling = "stopped" /\ pass = 0 /\ prev = "stopped"
  /\ showing = FALSE /\ active = FALSE /\ recordPlace = 0
  /\ filming = 0 /\ kept = {} /\ disk = {} /\ helpers = {} /\ queue = <<>>
  /\ ticks = <<>> /\ slot = NoFilm /\ inserted = {} /\ requests = 0
  /\ fetched = {} /\ told = {} /\ agreed = {} /\ steady = "no" /\ ticked = TRUE

(***************************************************************************)
(* The user.  The main thread takes input between timer ticks and inside   *)
(* message boxes.                                                          *)
(***************************************************************************)
Top == Last(ticks)
AtRest_Always == TRUE
AtRest == ticks # <<>> => Top.ask # "none"
Quiet == helpers = {} /\ queue = <<>> /\ ticks = <<>> /\ slot = NoFilm
MayAct == AtRest /\ (Patient \/ Unhurried => ticked)
MayBegin == MayAct /\ (Patient => Quiet)
Request == requests < MaxRequests /\ requests' = requests + 1
StartAnswered == \A j \in helpers : j.cmd # "start"

\* What a pass may count on (history): followed when ReaShoot follows and is
\* paired, seen when besides the last poll has seen REAPER stopped, or playing a
\* take whose video is shown.
PressRecord ==
  /\ MayBegin /\ pass < MaxPasses
  /\ rolling # "recording"
  /\ rolling' = "recording" /\ pass' = pass + 1 /\ ticked' = FALSE
  /\ steady' = IF ~(video /\ follow /\ paired) THEN "no"
               ELSE IF ticked /\ (rolling = "stopped" \/ showing) THEN "seen" ELSE "followed"
  /\ UNCHANGED <<video, follow, paired, prev, showing, active, recordPlace, phone, helpers,
                 queue, ticks, slot, inserted, requests, history>>

\* Leaving record, or starting and stopping playback.
MoveTransport(to) ==
  /\ MayAct /\ to # rolling
  /\ Patient /\ rolling = "recording" => StartAnswered
  /\ rolling' = to /\ ticked' = FALSE /\ steady' = "no"
  /\ UNCHANGED <<video, follow, paired, pass, prev, showing, active, recordPlace,
                 phone, helpers, queue, ticks, slot, inserted, requests, history>>

FinishRecording_NoStop == active' = FALSE /\ UNCHANGED helpers
\* finishRecording, up to the start of the helper
FinishRecording ==
  /\ active' = FALSE
  /\ helpers' = IF active THEN helpers \cup {Job("stop", NoFilm, <<>>)} ELSE helpers

StopPlaybackAndShowLive == showing' = FALSE

SetVideoEnabled(on) ==
  /\ MayBegin /\ video # on
  /\ IF on THEN UNCHANGED requests ELSE Request
  /\ video' = on /\ follow' = on /\ steady' = "no"
  /\ IF on THEN UNCHANGED <<active, helpers, showing>>
           ELSE FinishRecording /\ StopPlaybackAndShowLive
  /\ ticked' = FALSE
  /\ UNCHANGED <<paired, rolling, pass, prev, recordPlace, phone, queue, ticks, slot,
                 inserted, history>>

ToggleFollow ==
  /\ MayAct /\ Request
  /\ follow' = ~follow /\ steady' = "no" /\ ticked' = FALSE
  /\ UNCHANGED <<video, paired, rolling, pass, prev, showing, active, recordPlace, phone,
                 helpers, queue, ticks, slot, inserted, history>>

\* The phone is paired, or its token is given up or its host cleared: by the
\* answer to a command of the Setup window or of the preview, at any time.
Pairing ==
  /\ Request
  /\ paired' = ~paired /\ steady' = "no"
  /\ UNCHANGED <<video, follow, rolling, pass, prev, showing, active, recordPlace, phone,
                 helpers, queue, ticks, slot, inserted, history, ticked>>

\* restorePendingRecording and deleteAllPendingRecordings both list first.
ListRecordings(purpose) ==
  /\ MayBegin /\ paired /\ Request
  /\ Patient => ~active /\ rolling # "recording"
  /\ helpers' = helpers \cup {Job(purpose, NoFilm, <<>>)}
  /\ UNCHANGED <<video, follow, paired, transport, prev, showing, active, recordPlace,
                 phone, queue, ticks, slot, inserted, history, ticked>>

(***************************************************************************)
(* Helper processes and the phone: a helper ends, with or without its      *)
(* effect on the phone, and posts its result to the main thread.           *)
(***************************************************************************)
Post(j, ids, ok) ==
  /\ queue' = Append(queue, [job |-> [j EXCEPT !.ids = ids], ok |-> ok])
  /\ helpers' = helpers \ {j}

\* An exit code other than 0 with the effect done is a lost answer.
StartEnds(j, arrives, ok) ==
  /\ ok => arrives /\ filming = 0
  /\ filming' = IF arrives /\ filming = 0 THEN j.for.film ELSE filming
  /\ Post(j, <<>>, ok)
  /\ UNCHANGED <<kept, disk, fetched>>

StopEnds(j, arrives, ok) ==
  /\ ok => arrives /\ filming # 0
  /\ filming' = IF arrives THEN 0 ELSE filming
  /\ kept' = IF arrives /\ filming # 0 THEN kept \cup {filming} ELSE kept
  /\ Post(j, IF ok THEN <<filming>> ELSE <<>>, ok)
  /\ UNCHANGED <<disk, fetched>>

\* complete: all announced bytes are on disk; acknowledged: they match the
\* checksum too and the phone has removed its copy; ok: the helper has said so.
\* It may fail or be killed after the acknowledgement.
DownloadEnds(j, complete, ok, acknowledged) ==
  /\ complete => j.for.film \in kept
  /\ ok \/ acknowledged => complete
  /\ disk' = IF complete THEN disk \cup {j.for.film} ELSE disk
  /\ kept' = IF acknowledged THEN kept \ {j.for.film} ELSE kept
  /\ fetched' = IF acknowledged THEN fetched \cup {j.for.film} ELSE fetched
  /\ Post(j, j.ids, ok)
  /\ UNCHANGED filming

DeleteEnds(j, arrives, ok) ==
  /\ ok => arrives /\ j.for.film \in kept
  /\ kept' = IF arrives THEN kept \ {j.for.film} ELSE kept
  /\ Post(j, j.ids, ok)
  /\ UNCHANGED <<filming, disk, fetched>>

ListEnds(j, ok) ==
  /\ Post(j, IF ok THEN SetToSeq(kept) ELSE <<>>, ok)
  /\ UNCHANGED <<filming, kept, disk, fetched>>

HelperEnds ==
  /\ \E j \in helpers, a, b, c \in BOOLEAN :
       \/ j.cmd = "start" /\ ~c /\ StartEnds(j, a, b)
       \/ j.cmd = "stop" /\ ~c /\ StopEnds(j, a, b)
       \/ j.cmd = "download" /\ DownloadEnds(j, a, b, c)
       \/ j.cmd = "delete" /\ ~c /\ DeleteEnds(j, a, b)
       \/ j.cmd \in {"restore", "deleteAll"} /\ ~a /\ ~c /\ ListEnds(j, b)
  /\ UNCHANGED <<video, follow, paired, transport, prev, showing, active, recordPlace,
                 ticks, slot, inserted, requests, told, agreed, ticked>>

(***************************************************************************)
(* The main thread: timerPoll drains a batch of callbacks, inserts, polls. *)
(***************************************************************************)
TimerPoll ==
  /\ AtRest /\ Len(ticks) < MaxBoxes
  /\ ticks' = Append(ticks, [ask |-> "none", ids |-> <<>>, rest |-> queue, done |-> FALSE])
  /\ queue' = <<>>
  /\ UNCHANGED <<video, follow, paired, transport, prev, showing, active, recordPlace, phone,
                 helpers, slot, inserted, requests, history, ticked>>

Ask(what, ids) == [ask |-> what, ids |-> ids]
Proceed == Ask("none", <<>>)
SetTop(box, rest) ==
  ticks' = [ticks EXCEPT ![Len(ticks)] =
              [@ EXCEPT !.ask = box.ask, !.ids = box.ids, !.rest = rest]]

Launch(jobs) == helpers' = helpers \cup jobs
\* deletePendingRecordingsSequentially: one delete, the others when it has succeeded
DeleteSequentially(ids) ==
  IF ids = <<>> THEN {} ELSE {Job("delete", Film(Head(ids), Cursor, FALSE), Tail(ids))}

SlotAfter(j, good) == IF good /\ j.cmd = "download" THEN j.for ELSE slot

Recovered_Never(j) == FALSE
\* A download that failed has a file of the announced size all the same.
Recovered(j) == j.cmd = "download" /\ j.for.film \in disk

\* the completion of start, stop, download, delete or list
RunCallback ==
  /\ ticks # <<>> /\ Top.ask = "none" /\ Top.rest # <<>>
  /\ LET m == Head(Top.rest)  j == m.job
         good == m.ok \/ Recovered(j)
     IN /\ SetTop(CASE ~good -> Ask("error", <<>>)
                    [] good /\ j.cmd = "stop" -> Ask("download", j.ids)
                    [] good /\ j.cmd \in {"restore", "deleteAll"} ->
                         IF j.ids = <<>> THEN Ask("error", <<>>) ELSE Ask(j.cmd, j.ids)
                    [] OTHER -> Proceed,
                 Tail(Top.rest))
        /\ slot' = SlotAfter(j, good)
        /\ Launch(IF good /\ j.cmd = "delete" THEN DeleteSequentially(j.ids) ELSE {})
        /\ told' = IF ~good /\ j.cmd = "stop" THEN (told \cup {filming}) \ {0} ELSE told
  /\ UNCHANGED <<video, follow, paired, transport, prev, showing, active, recordPlace, phone,
                 queue, inserted, requests, fetched, agreed, ticked>>

Messages == ToSet(queue) \cup UNION {ToSet(ticks[i].rest) : i \in 1..Len(ticks)}
NoDownload ==
  /\ slot = NoFilm
  /\ \A j \in helpers \cup {m.job : m \in Messages} : j.cmd # "download"

\* downloadRecordingAt, from the stop prompt (where the record globals are read
\* now, not when the take ended) or from restore
Download(f, restored) ==
  /\ OneDownload => NoDownload
  /\ Launch({Job("download", Film(f, IF restored THEN Cursor ELSE recordPlace, restored), <<>>)})

AskNext(ids) == IF Tail(ids) = <<>> THEN Proceed ELSE Ask("restore", Tail(ids))

AnswerError ==
  /\ Top.ask = "error"
  /\ SetTop(Proceed, Top.rest)
  /\ UNCHANGED <<helpers, agreed>>

AnswerDownload ==
  /\ Top.ask = "download"
  /\ SetTop(Proceed, Top.rest)
  /\ Download(Head(Top.ids), FALSE) \/ UNCHANGED helpers
  /\ UNCHANGED agreed

AnswerRestore_NoConfirm ==
  /\ Top.ask = "restore"
  /\ SetTop(Proceed, Top.rest)
  /\ \/ Download(Head(Top.ids), TRUE)
     \/ Launch(DeleteSequentially(<<Head(Top.ids)>>))
  /\ UNCHANGED agreed
AnswerRestore ==
  /\ Top.ask = "restore"
  /\ \/ SetTop(Proceed, Top.rest) /\ Download(Head(Top.ids), TRUE)
     \/ SetTop(Ask("confirm", Top.ids), Top.rest) /\ UNCHANGED helpers
     \/ SetTop(AskNext(Top.ids), Top.rest) /\ UNCHANGED helpers
  /\ UNCHANGED agreed

AnswerConfirm ==
  /\ Top.ask = "confirm"
  /\ \/ /\ SetTop(Proceed, Top.rest)
        /\ Launch(DeleteSequentially(<<Head(Top.ids)>>))
        /\ agreed' = agreed \cup {Head(Top.ids)}
     \/ SetTop(AskNext(Top.ids), Top.rest) /\ UNCHANGED <<helpers, agreed>>

AnswerDeleteAll ==
  /\ Top.ask = "deleteAll"
  /\ SetTop(Proceed, Top.rest)
  /\ \/ Launch(DeleteSequentially(Top.ids)) /\ agreed' = agreed \cup ToSet(Top.ids)
     \/ UNCHANGED <<helpers, agreed>>

Answer ==
  /\ ticks # <<>>
  /\ AnswerError \/ AnswerDownload \/ AnswerRestore \/ AnswerConfirm \/ AnswerDeleteAll
  /\ UNCHANGED <<video, follow, paired, transport, prev, showing, active, recordPlace, phone,
                 queue, slot, inserted, requests, fetched, told, ticked>>

Drained == ticks # <<>> /\ Top.ask = "none" /\ Top.rest = <<>>

\* opens: whether the track can be made and the file opened
ProcessPendingInsert(opens) ==
  /\ Drained /\ ~Top.done /\ slot # NoFilm
  /\ slot' = NoFilm
  /\ inserted' = IF opens THEN inserted \cup {slot} ELSE inserted
  /\ told' = IF opens THEN told ELSE told \cup {slot.film}
  /\ ticks' = [ticks EXCEPT ![Len(ticks)] =
                 [@ EXCEPT !.done = TRUE, !.ask = IF opens THEN "none" ELSE "error"]]
  /\ UNCHANGED <<video, follow, paired, transport, prev, showing, active, recordPlace, phone,
                 helpers, queue, requests, fetched, agreed, ticked>>

BeginRecording_FirstPlace ==
  IF active \/ ~paired THEN UNCHANGED <<active, recordPlace, helpers>>
  ELSE /\ active' = TRUE /\ recordPlace' = IF recordPlace = 0 THEN pass ELSE recordPlace
       /\ Launch({Job("start", Film(pass, Cursor, FALSE), <<>>)})
BeginRecording ==
  IF active \/ ~paired THEN UNCHANGED <<active, recordPlace, helpers>>
  ELSE /\ active' = TRUE /\ recordPlace' = pass
       /\ Launch({Job("start", Film(pass, Cursor, FALSE), <<>>)})

\* The poll returns early, keeping the old state, while it does not follow and
\* while playback has no video to show.
PrevAfter_Early(found) ==
  IF ~(video /\ follow) \/ (rolling # "recording" /\ ~found /\ ~showing) THEN prev ELSE rolling
PrevAfter(found) ==
  IF ~(video /\ follow) \/ (rolling = "playing" /\ ~found /\ ~showing) THEN prev ELSE rolling

\* found: a video item lies under the play position; grace: the last one was
\* seen less than kPlaybackMissGrace ago
PollTransport(found, grace) ==
  /\ Drained /\ (Top.done \/ slot = NoFilm)
  /\ ticks' = Front(ticks)
  /\ ticked' = TRUE
  /\ LET follows == video /\ follow
         wasRecording == prev = "recording"
         isRecording  == rolling = "recording"
         playing      == rolling = "playing"
     IN /\ IF follows /\ ~wasRecording /\ isRecording THEN BeginRecording
           ELSE IF follows /\ wasRecording /\ ~isRecording
                THEN FinishRecording /\ UNCHANGED recordPlace
                ELSE UNCHANGED <<active, recordPlace, helpers>>
        /\ showing' = IF ~follows \/ isRecording THEN showing
                      ELSE IF playing THEN showing \/ found
                      ELSE showing /\ grace
        /\ prev' = PrevAfter(found)
  /\ UNCHANGED <<video, follow, paired, transport, phone, queue, slot, inserted, requests, history>>

Next ==
  \/ PressRecord \/ \E to \in {"stopped", "playing"} : MoveTransport(to)
  \/ \E on \in BOOLEAN : SetVideoEnabled(on)
  \/ ToggleFollow \/ Pairing
  \/ \E purpose \in {"restore", "deleteAll"} : ListRecordings(purpose)
  \/ HelperEnds
  \/ TimerPoll \/ RunCallback \/ Answer
  \/ \E opens \in BOOLEAN : ProcessPendingInsert(opens)
  \/ \E found, grace \in BOOLEAN : PollTransport(found, grace)

Spec == Init /\ [][Next]_vars

(***************************************************************************)
(* Properties.                                                             *)
(***************************************************************************)
\* A movie whose copy the phone has removed after a download is an item of the
\* project, is on its way there, or the user was told that it could not be
\* inserted (downloadRecordingAt, processPendingInsert: one slot).
DownloadedIsInserted ==
  \A f \in fetched :
    \/ f \in told \/ slot.film = f
    \/ \E item \in inserted : item.film = f
    \/ \E m \in Messages : m.job.cmd = "download" /\ m.job.for.film = f

\* No take is inserted at the place of a pass before its own, and a restored one
\* only at the edit cursor.  It is inserted at the place of a later pass only if
\* that pass had begun when the question about the take was answered.
InsertedWhereRecorded ==
  \A item \in inserted : IF item.restored THEN item.place = Cursor
                                           ELSE item.place \in item.film..pass

\* src/README.md:62: "at the original record-start position".
InsertedAtRecordStart ==
  \A item \in inserted :
    item.film \in told \/ item.place = IF item.restored THEN Cursor ELSE item.film

\* The phone never films unknown to the extension: the take is active, its start
\* or stop is under way, or the user was told that stopping it failed.
FilmIsOwned ==
  filming # 0 =>
    \/ active \/ filming \in told
    \/ \E j \in helpers : j.cmd \in {"start", "stop"}
    \/ \E m \in Messages : m.job.cmd = "stop" /\ ~m.ok

\* Nothing leaves the phone unless it was downloaded or the user agreed to
\* delete it, also while recordings are deleted one after the other.
OnlyAgreedDeletes ==
  [][\A f \in kept \ kept' : f \in fetched' \/ f \in agreed]_vars

\* A poll that sees REAPER record leaves the take active, if ReaShoot followed and was
\* paired when the pass began and the last poll had seen REAPER stopped or playing a
\* take whose video is shown (pollTransport's edge detection).
RecordingIsFilmed ==
  [][\A found, grace \in BOOLEAN :
       PollTransport(found, grace) /\ rolling = "recording" /\ steady = "seen" => active']_vars

\* src/README.md:60: ReaShoot starts the phone for each record pass.
EveryPassIsFilmed ==
  [][\A found, grace \in BOOLEAN :
       PollTransport(found, grace) /\ rolling = "recording" /\ steady # "no" => active']_vars
=============================================================================
