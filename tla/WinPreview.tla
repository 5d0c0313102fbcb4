----------------------------- MODULE WinPreview -----------------------------
(***************************************************************************)
(* Live preview and playback preview of the Windows extension: the main    *)
(* thread's panel modes and preview commands (reaper_reashoot_win32.cpp),  *)
(* the thread that receives the stream (win32_preview_stream_client.cpp),  *)
(* helper processes and the phone.  Threads and helpers only post to the   *)
(* main queue, which the timer drains in batches; a message box runs the   *)
(* timer again while the rest of a batch waits.  Stopping the stream joins *)
(* its thread, and the main thread does nothing else meanwhile.            *)
(***************************************************************************)
EXTENDS Integers, Sequences, FiniteSets, SequencesExt

CONSTANTS
  MaxActs,      \* bound: commands of the user
  MaxFailures,  \* bound: failing helpers and broken streams
  MaxBoxes,     \* bound: nested message boxes
  Patient       \* the user acts when no preview command is at work, and asks for
                \* a profile or a pairing when no stream is starting

ASSUME WinPreviewAssumption ==
  {MaxActs, MaxFailures, MaxBoxes} \subseteq Nat /\ Patient \in BOOLEAN

VARIABLES
  video, follow, paired,     \* ReaShootController; g_iPhoneToken is set
  transport,                 \* REAPER
  mode, picture,             \* g_previewMode; what the panel shows
  told,                      \* since the last configure command its status line
                             \* reported a failure or asked for a command
  playing, hit,              \* g_transportPlaybackActive; g_lastPlaybackVideoHit:
                             \* 2 within the grace, 1 within two seconds, 0 none
  starting, active,          \* g_previewStreamStarting, g_previewStreamActive
  decoding,                  \* g_previewReceivedAccessUnit
  inFlight, stopping, again, \* g_previewCommandInFlight, g_stoppingRemotePreview,
                             \* g_restartPreviewAfterStop
  renderer,                  \* g_previewRenderer: none, idle or busy
  running, thread,           \* running_, and where receiveLoop is
  closed,                    \* the flags tell of a stream that the server closed in good
                             \* order, which receiveLoop reports to nobody
  joins,                     \* what the main thread does once that thread ended
  queue, ticks,              \* g_mainQueue; batches at work, the innermost last
  jobs,                      \* how many helpers are at work on a command
  encoding,                  \* the phone's preview encoder
  acts, failures, stopLost, missed, ticked  \* bounds and history

user    == <<video, follow, transport, acts>>
flags   == <<starting, active, decoding>>
launch  == <<again, inFlight, jobs>>
view    == <<mode, picture, told>>
hits    == <<playing, hit>>
phone   == <<encoding, failures, stopLost>>
vars == <<user, paired, view, hits, flags, stopping, launch, renderer, running, closed,
          thread, joins, queue, ticks, phone, missed, ticked>>

Commands == {"configure", "start", "stop", "profile", "pair"}
Results  == {"ok", "unauthorized", "failed"}
Msg(of, res) == [of |-> of, res |-> res]
Pictures == {"frame", "unit", "playback"}

TypeOK ==
  /\ {video, follow, paired, told, playing, starting, active, decoding, inFlight,
      stopping, again, running, closed, encoding, stopLost, missed, ticked} \subseteq BOOLEAN
  /\ transport \in {"stopped", "playing", "recording"}
  /\ mode \in {"idle", "live", "playback"} /\ hit \in 0..2
  /\ picture \in {"blank", "pending", "trouble", "stopped", "live", "playback"}
  /\ renderer \in {"none", "idle", "busy"}
  /\ thread \in {"none", "handshake", "open", "live", "feeding", "ended"}
  /\ joins \in {"no", "disable", "dock", "start"}
  /\ jobs \in [Commands -> Nat]
  /\ acts \in 0..MaxActs /\ failures \in 0..MaxFailures
  /\ Len(ticks) <= MaxBoxes + 1
  /\ \A i \in 1..Len(ticks) : i < Len(ticks) => ticks[i].box
  /\ ~(starting /\ active)
  /\ running => thread \notin {"none", "ended"}

Init ==
  /\ video = FALSE /\ follow = FALSE /\ paired = TRUE /\ transport = "stopped"
  /\ mode = "idle" /\ picture = "blank" /\ told = FALSE /\ playing = FALSE /\ hit = 0
  /\ starting = FALSE /\ active = FALSE /\ decoding = FALSE
  /\ inFlight = FALSE /\ stopping = FALSE /\ again = FALSE /\ renderer = "none"
  /\ running = FALSE /\ closed = FALSE /\ thread = "none" /\ joins = "no"
  /\ queue = <<>> /\ ticks = <<>> /\ jobs = [c \in Commands |-> 0]
  /\ encoding = FALSE /\ acts = 0 /\ failures = 0 /\ stopLost = FALSE
  /\ missed = FALSE /\ ticked = TRUE

(***************************************************************************)
(* What the handlers of the main thread share.  pic, note: picture and     *)
(* status as the caller leaves them.                                       *)
(***************************************************************************)
Showing == mode = "playback"
\* playbackOwnsPreview
Owns == Showing \/ playing \/ transport = "playing" \/ hit > 0
Launch(c) == jobs' = [jobs EXCEPT ![c] = @ + 1]
NoLaunch == UNCHANGED <<inFlight, jobs>>

\* startRemotePreview after its checks of the mode: no command while a stream or
\* another command is there
Configure(pic, note) ==
  /\ picture' = IF paired THEN pic ELSE "trouble"
  /\ IF ~paired \/ starting \/ active \/ inFlight THEN told' = note /\ NoLaunch
     ELSE told' = FALSE /\ inFlight' = TRUE /\ Launch("configure")

StartLive(pic, note) ==
  /\ mode' = "live"
  /\ IF stopping THEN again' = TRUE /\ picture' = pic /\ told' = note /\ NoLaunch
                 ELSE Configure(pic, note) /\ UNCHANGED again

StartRemotePreview(m, pic, note) ==
  IF ~Owns THEN StartLive(pic, note)
  ELSE mode' = m /\ picture' = pic /\ told' = note /\ UNCHANGED launch

\* stopPreviewStream up to the join of the stream's thread, and what follows it
StopStream(then) ==
  /\ starting' = FALSE /\ active' = FALSE /\ decoding' = FALSE
  /\ running' = FALSE /\ closed' = FALSE /\ joins' = then
ModeWithout == IF Showing THEN mode ELSE "idle"

(***************************************************************************)
(* The user.                                                               *)
(***************************************************************************)
Top == Last(ticks)
AtRest == joins = "no" /\ (ticks # <<>> => Top.box)
Messages == ToSet(queue) \cup UNION {ToSet(ticks[i].rest) : i \in 1..Len(ticks)}
Quiet ==
  /\ \A c \in Commands : jobs[c] = 0
  /\ \A m \in Messages : m.of \in Pictures
  /\ ticks = <<>> /\ joins = "no" /\ thread # "handshake"
Act ==
  /\ AtRest /\ acts < MaxActs
  /\ Patient => Quiet /\ ticked
  /\ acts' = acts + 1 /\ ticked' = FALSE
  /\ UNCHANGED <<missed, ticks, queue, phone>>
OutOfPlayback == Patient => ~Owns

EnableVideo ==
  /\ Act /\ ~video /\ OutOfPlayback
  /\ video' = TRUE /\ follow' = TRUE
  /\ StartRemotePreview(mode, picture, FALSE)
  /\ UNCHANGED <<paired, transport, hits, flags, stopping, renderer, running, closed, thread,
                 joins>>

DisableVideo ==
  /\ Act /\ video
  /\ video' = FALSE /\ follow' = FALSE
  /\ IF Showing THEN mode' = "idle" /\ playing' = FALSE /\ hit' = 0
                ELSE UNCHANGED <<mode, hits>>
  /\ told' = FALSE /\ StopStream("disable")
  /\ UNCHANGED <<paired, transport, picture, stopping, launch, renderer, thread>>

ToggleFollow ==
  /\ Act /\ OutOfPlayback
  /\ follow' = ~follow
  /\ UNCHANGED <<video, paired, transport, view, hits, flags, stopping, launch,
                 renderer, running, closed, thread, joins>>

\* togglePreviewDockMode stops the stream and makes a new panel.
ToggleDock ==
  /\ Act /\ OutOfPlayback
  /\ StopStream("dock")
  /\ UNCHANGED <<video, follow, paired, transport, view, hits, stopping, launch, renderer,
                 thread>>

\* Reconnect, another profile or look (configureOnWorker); Pair
Request(c) ==
  /\ Act /\ OutOfPlayback /\ (c = "profile" => paired) /\ (Patient => ~starting)
  /\ Launch(c)
  /\ UNCHANGED <<video, follow, paired, transport, view, hits, flags, stopping, again,
                 inFlight, renderer, running, closed, thread, joins>>

MoveTransport(to) ==
  /\ Act /\ to # transport /\ transport' = to
  /\ UNCHANGED <<video, follow, paired, view, hits, flags, stopping, launch, renderer,
                 running, closed, thread, joins>>

(***************************************************************************)
(* Helpers, the phone, the stream's thread and the renderers' threads.     *)
(***************************************************************************)
Post(ms) == queue' = queue \o ms
Fails(bad) ==
  /\ bad => failures < MaxFailures
  /\ failures' = IF bad THEN failures + 1 ELSE failures
OffMain == UNCHANGED <<user, paired, view, hits, flags, stopping, again, inFlight, joins,
                       ticks, missed, ticked>>

\* arrives: the phone carried the command out, whatever the helper reports
JobEnds(c, arrives, res) ==
  /\ jobs[c] > 0
  /\ (res = "ok" => arrives) /\ (res = "unauthorized" => ~arrives)
  /\ Fails(res # "ok")
  /\ jobs' = [jobs EXCEPT ![c] = @ - 1] /\ Post(<<Msg(c, res)>>)
  /\ encoding' = IF arrives /\ c \in {"start", "stop"} THEN c = "start" ELSE encoding
  /\ stopLost' = IF c = "stop" THEN ~arrives ELSE stopLost
  /\ UNCHANGED <<renderer, running, closed, thread>> /\ OffMain

\* A stop that finds no published handle waits for the handshake.
HandshakeEnds(ok) ==
  /\ thread = "handshake"
  /\ thread' = IF ok /\ running THEN "open" ELSE "ended"
  /\ running' = (running /\ ok) /\ Post(IF ok THEN <<>> ELSE <<Msg("lost", "failed")>>)
  /\ Fails(~ok)
  /\ UNCHANGED <<renderer, closed, jobs, encoding, stopLost>> /\ OffMain

\* The first message makes the stream active; bound: one decoded frame waits.
FeedBegins ==
  /\ thread \in {"open", "live"} /\ running /\ encoding
  /\ Msg("frame", "ok") \notin Messages /\ renderer # "busy"
  /\ thread' = "feeding" /\ Post(IF thread = "open" THEN <<Msg("active", "ok")>> ELSE <<>>)
  /\ UNCHANGED <<renderer, running, closed, jobs, phone>> /\ OffMain

FeedEnds ==
  /\ thread = "feeding" /\ thread' = "live"
  /\ renderer' = IF renderer = "none" THEN renderer ELSE "busy"
  /\ Post(IF Msg("unit", "ok") \in Messages \/ decoding THEN <<>> ELSE <<Msg("unit", "ok")>>)
  /\ UNCHANGED <<running, closed, jobs, phone>> /\ OffMain

\* The renderer's own thread; a unit need not give a frame.
Decodes(frame) ==
  /\ renderer = "busy" /\ renderer' = "idle"
  /\ Post(IF frame THEN <<Msg("frame", "ok")>> ELSE <<>>)
  /\ UNCHANGED <<running, closed, thread, jobs, phone>> /\ OffMain

\* After stop() has closed the handles a pending receive fails, or the loop ends
\* at its test; otherwise the connection breaks or, with no report, the server
\* closes it in good order.
StreamEnds(reports) ==
  /\ thread \in {"open", "live"}
  /\ thread' = "ended" /\ running' = FALSE /\ closed' = (running /\ ~reports)
  /\ Post(IF reports THEN <<Msg("lost", "failed")>> ELSE <<>>)
  /\ Fails(running)
  /\ UNCHANGED <<renderer, jobs, encoding, stopLost>> /\ OffMain

\* The playback renderer's frames; bound: one waits.
PlaybackFrame ==
  /\ Showing /\ Msg("playback", "ok") \notin Messages
  /\ Post(<<Msg("playback", "ok")>>)
  /\ UNCHANGED <<renderer, running, closed, thread, jobs, phone>> /\ OffMain

Age ==
  /\ hit > 0 /\ hit' = hit - 1
  /\ UNCHANGED <<user, paired, view, playing, flags, stopping, launch, renderer, running, closed,
                 thread, joins, queue, ticks, phone, missed, ticked>>

(***************************************************************************)
(* The main thread: joins, batches, callbacks, polls.                      *)
(***************************************************************************)
ThreadEnded_NoWait == TRUE
ThreadEnded == thread \in {"none", "ended"}
Join(then) ==
  /\ joins = then /\ ThreadEnded /\ joins' = "no"
  /\ UNCHANGED <<user, paired, hits, flags, queue, ticks, encoding, failures, missed, ticked>>

JoinDisable_NoStop ==
  /\ Join("disable")
  /\ renderer' = "none" /\ mode' = ModeWithout
  /\ picture' = IF Showing THEN picture ELSE "stopped"
  /\ UNCHANGED <<stopping, jobs, stopLost, told, again, inFlight, running, closed, thread>>
JoinDisable ==
  /\ Join("disable")
  /\ renderer' = "none" /\ mode' = ModeWithout
  /\ picture' = IF Showing THEN picture ELSE "stopped"
  /\ IF paired /\ ~stopping THEN stopping' = TRUE /\ Launch("stop")
                            ELSE UNCHANGED <<stopping, jobs>>
  /\ stopLost' = (stopLost \/ ~paired)
  /\ UNCHANGED <<told, again, inFlight, running, closed, thread>>

JoinDock ==
  /\ Join("dock")
  /\ renderer' = "none"
  /\ IF video THEN StartRemotePreview(ModeWithout, "blank", FALSE)
     ELSE mode' = ModeWithout /\ picture' = "blank" /\ told' = FALSE /\ UNCHANGED launch
  /\ UNCHANGED <<stopping, stopLost, running, closed, thread>>

\* Win32PreviewStreamClient::start stops the previous thread first.
JoinStart ==
  /\ Join("start")
  /\ running' = TRUE /\ thread' = "handshake"
  /\ UNCHANGED <<closed, view, stopping, launch, renderer, stopLost>>

OnlyTicks == UNCHANGED <<user, paired, view, hits, flags, stopping, launch, renderer,
                         running, closed, thread, joins, phone, missed, ticked>>
TimerPoll ==
  /\ AtRest /\ Len(ticks) <= MaxBoxes
  /\ ticks' = Append(ticks, [box |-> FALSE, rest |-> queue]) /\ queue' = <<>>
  /\ OnlyTicks

CloseBox ==
  /\ AtRest /\ ticks # <<>>
  /\ ticks' = [ticks EXCEPT ![Len(ticks)].box = FALSE]
  /\ OnlyTicks /\ UNCHANGED queue

\* The callback of the next message of the innermost batch, which may end in a box.
Run(of, res, box) ==
  /\ joins = "no" /\ ticks # <<>> /\ ~Top.box /\ Top.rest # <<>>
  /\ Head(Top.rest) = Msg(of, res)
  /\ ticks' = [ticks EXCEPT ![Len(ticks)] = [box |-> box, rest |-> Tail(Top.rest)]]
  /\ UNCHANGED <<user, hits, thread, queue, phone, ticked>>

\* A failed command of startRemotePreview; an unauthorized answer clears the token.
Refused(res, speaks) ==
  /\ paired' = (paired /\ ~(res = "unauthorized" /\ speaks))
  /\ picture' = IF speaks THEN "trouble" ELSE picture
  /\ told' = (told \/ speaks)

OnConfigured(res) ==
  /\ Run("configure", res, res = "failed" /\ ~Showing)
  /\ IF res # "ok" THEN Refused(res, ~Showing) ELSE UNCHANGED <<paired, picture, told>>
  /\ IF res = "ok" /\ ~Owns /\ video THEN Launch("start") /\ UNCHANGED inFlight
                                     ELSE inFlight' = FALSE /\ UNCHANGED jobs
  /\ UNCHANGED <<mode, flags, stopping, again, renderer, running, closed, joins, missed>>

StartStream_KeepFlags ==
  /\ renderer' = IF renderer = "none" THEN "idle" ELSE renderer
  /\ running' = FALSE /\ closed' = FALSE /\ joins' = "start"
  /\ decoding' = FALSE /\ picture' = "pending" /\ UNCHANGED <<starting, active>>
\* startPreviewStreamWithFields, up to the join in start()
StartStream ==
  /\ renderer' = IF renderer = "none" THEN "idle" ELSE renderer
  /\ running' = FALSE /\ closed' = FALSE /\ joins' = "start"
  /\ decoding' = FALSE /\ picture' = "pending" /\ starting' = TRUE /\ active' = FALSE

OnStarted(res) ==
  /\ Run("start", res, res = "failed" /\ ~Owns)
  /\ inFlight' = FALSE
  /\ IF res = "ok" /\ ~Owns /\ ~starting /\ ~active /\ paired
     THEN StartStream /\ UNCHANGED <<paired, told>>
     ELSE /\ IF res # "ok" THEN Refused(res, ~Owns) ELSE UNCHANGED <<paired, picture, told>>
          /\ UNCHANGED <<renderer, running, closed, joins, flags>>
  /\ UNCHANGED <<mode, stopping, again, jobs, missed>>

OnStopped(res) ==
  /\ Run("stop", res, FALSE)
  /\ stopping' = FALSE /\ again' = FALSE
  /\ IF again /\ ~Owns /\ video THEN mode' = "live" /\ Configure(picture, told)
                                ELSE NoLaunch /\ UNCHANGED view
  /\ UNCHANGED <<paired, flags, renderer, running, closed, joins, missed>>

OnProfile(res, reports) ==
  /\ Run("profile", res, res # "ok" /\ reports)
  /\ paired' = (paired /\ res # "unauthorized")
  /\ IF res = "ok" /\ video THEN StartRemotePreview(mode, picture, told)
     ELSE told' = (told \/ res # "ok") /\ UNCHANGED <<mode, picture, launch>>
  /\ UNCHANGED <<flags, stopping, renderer, running, closed, joins, missed>>

OnPaired(res) ==
  /\ Run("pair", res, res # "ok")
  /\ paired' = (paired \/ res = "ok") /\ told' = (told \/ res = "ok")
  /\ UNCHANGED <<mode, picture, flags, stopping, launch, renderer, running, closed, joins, missed>>

OnActive_KeepsStarting ==
  /\ Run("active", "ok", FALSE)
  /\ active' = TRUE
  /\ UNCHANGED <<starting, paired, view, decoding, stopping, launch, renderer, running, closed,
                 joins,
                 missed>>
OnActive ==
  /\ Run("active", "ok", FALSE)
  /\ starting' = FALSE /\ active' = TRUE
  /\ UNCHANGED <<paired, view, decoding, stopping, launch, renderer, running, closed, joins,
                 missed>>

OnLost_Paints ==
  /\ Run("lost", "failed", FALSE)
  /\ starting' = FALSE /\ active' = FALSE /\ closed' = FALSE /\ renderer' = "none"
  /\ picture' = "trouble" /\ told' = TRUE /\ missed' = (missed \/ (Owns /\ ~Showing))
  /\ UNCHANGED <<paired, mode, decoding, stopping, launch, running, joins>>
\* The flags and the renderer are cleared whichever stream was lost.
OnLost ==
  /\ Run("lost", "failed", FALSE)
  /\ starting' = FALSE /\ active' = FALSE /\ closed' = FALSE /\ renderer' = "none"
  /\ picture' = IF Owns THEN picture ELSE "trouble"
  /\ told' = (told \/ ~Owns) /\ missed' = (missed \/ (Owns /\ ~Showing))
  /\ UNCHANGED <<paired, mode, decoding, stopping, launch, running, joins>>

OnUnit ==
  /\ Run("unit", "ok", FALSE)
  /\ IF ~decoding /\ mode = "live" THEN decoding' = TRUE /\ picture' = "pending"
                                   ELSE UNCHANGED <<decoding, picture>>
  /\ UNCHANGED <<paired, mode, told, starting, active, stopping, launch, renderer, running, closed,
                 joins, missed>>

OnFrame(of, owner, shows) ==
  /\ Run(of, "ok", FALSE)
  /\ picture' = IF mode = owner THEN shows ELSE picture
  /\ UNCHANGED <<paired, mode, told, flags, stopping, launch, renderer, running, closed, joins,
                 missed>>

RunCallback ==
  \/ \E res \in Results :
       \/ OnConfigured(res) \/ OnStarted(res) \/ OnStopped(res) \/ OnPaired(res)
       \/ \E reports \in BOOLEAN : OnProfile(res, reports)
  \/ OnActive \/ OnLost \/ OnUnit
  \/ OnFrame("frame", "live", "live") \/ OnFrame("playback", "playback", "playback")

\* updatePlaybackWithVideo
ShowPlayback ==
  /\ playing' = TRUE /\ hit' = 2
  /\ IF Showing THEN UNCHANGED <<mode, again, inFlight>>
                ELSE mode' = "playback" /\ again' = FALSE /\ inFlight' = FALSE
  /\ UNCHANGED <<picture, told, jobs>>

StopPlaybackAndShowLive_NoRestart == mode' = "live" /\ UNCHANGED <<picture, told, launch>>
\* stopPlaybackAndShowLive, with video enabled: the stream was left running
StopPlaybackAndShowLive ==
  IF starting \/ active
  THEN mode' = "live" /\ UNCHANGED <<picture, told, launch>>
  ELSE StartLive(picture, told)

\* found: a video item lies under the play position
PollTransport(found) ==
  /\ joins = "no" /\ ticks # <<>> /\ ~Top.box /\ Top.rest = <<>>
  /\ ticks' = Front(ticks) /\ ticked' = TRUE
  /\ CASE video /\ follow /\ transport = "playing" /\ found -> ShowPlayback
       [] video /\ follow /\ transport = "stopped" /\ (Showing => hit < 2) ->
            /\ playing' = FALSE
            /\ IF Showing THEN hit' = 0 /\ StopPlaybackAndShowLive
                          ELSE UNCHANGED <<hit, view, launch>>
       [] OTHER -> UNCHANGED <<hits, view, launch>>
  /\ UNCHANGED <<user, paired, flags, stopping, renderer, running, closed, thread, joins, queue,
                 phone, missed>>

User ==
  \/ EnableVideo \/ DisableVideo \/ ToggleFollow \/ ToggleDock
  \/ \E c \in {"profile", "pair"} : Request(c)
  \/ \E to \in {"stopped", "playing", "recording"} : MoveTransport(to)
ReceiveLoop ==
  \/ \E ok \in BOOLEAN : HandshakeEnds(ok) \/ StreamEnds(ok) \/ Decodes(ok)
  \/ FeedBegins \/ FeedEnds
MainThread ==
  \/ JoinDisable \/ JoinDock \/ JoinStart \/ TimerPoll \/ RunCallback
  \/ \E found \in BOOLEAN : PollTransport(found)
HelperEnds == \E c \in Commands, arrives \in BOOLEAN, res \in Results : JobEnds(c, arrives, res)

Next == User \/ ReceiveLoop \/ MainThread \/ CloseBox \/ HelperEnds \/ PlaybackFrame \/ Age

Spec == Init /\ [][Next]_vars

\* Each thread goes on, a helper ends and the user answers a message box, though the
\* timer fires in it; nothing makes the user give a command, a connection
\* break or a handshake fail.
StreamProceeds == FeedBegins \/ FeedEnds \/ HandshakeEnds(TRUE) \/ (~running /\ StreamEnds(TRUE))
FairSpec ==
  /\ Spec /\ WF_vars(MainThread) /\ SF_vars(CloseBox) /\ WF_vars(StreamProceeds) /\ WF_vars(Age)
  /\ \A c \in Commands : WF_vars(JobEnds(c, TRUE, "ok"))

(***************************************************************************)
(* Properties.                                                             *)
(***************************************************************************)
\* The renderer is never destroyed while the stream's thread is inside it
\* (stopPreviewStream joins that thread first; onData reads the bare pointer).
RendererOutlivesFeed ==
  [][renderer # "none" /\ renderer' = "none" => thread # "feeding"]_vars

\* Once every notice of the stream's thread has been handled, the flags that keep
\* a second stream from starting tell whether one runs, or ended without a notice
\* because the server closed it in good order.
FlagsFollowStream ==
  joins = "no" /\ (\A m \in Messages : m.of \notin {"lost", "active"}) =>
    (running \/ closed <=> starting \/ active)

\* With video disabled and nothing under way no stream is received, and the phone
\* encodes none unless it could not be told to stop.
DisabledMeansStopped == Quiet /\ ~video => ~running /\ (encoding => stopLost)

\* While playback owns the panel nothing but playback's frames is painted
\* (PreviewMode: the single owner of the panel).
PlaybackIsNotPaintedOver ==
  [][Showing /\ mode' = "playback" /\ joins # "dock" => picture' \in {picture, "playback"}]_vars

\* When video stays enabled and the transport stopped, a live stream comes back, or
\* the panel says why not.  Two ends of a stream bring no message: missed, while
\* playback does not own the panel but keeps OnLost from speaking; closed, above.
Wanted == video /\ follow /\ paired /\ transport = "stopped"
Informed == (active /\ running) \/ told \/ picture = "trouble"
LiveReturns == <>[](Wanted /\ ~missed /\ ~closed) => <>[]Informed

\* The same of a stream lost during playback, as the comment of the error callback
\* says: "so live preview is restarted when playback ends".
LiveRestarted == <>[](Wanted /\ ~closed) => <>[]Informed
=============================================================================
