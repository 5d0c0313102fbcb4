-------------------------- MODULE WinPreviewProofs --------------------------
(***************************************************************************)
(* Proofs about WinPreview, for any number of commands, failures and       *)
(* nested message boxes.                                                   *)
(*                                                                         *)
(* For any user: the types, and that only playback's frames are painted    *)
(* while playback owns the panel.  For a user who waits for the command in *)
(* hand (Patient): the flags follow the stream, disabling ends it, and no  *)
(* renderer is destroyed while the stream's thread is in it.  These rest   *)
(* on WorkInv: one command is in hand at a time, and none while the main   *)
(* thread joins or shows a box (OneCommand, WaitInv); the notices wait in  *)
(* an order a single stream allows (Queued); what flags, thread and        *)
(* notices tell of the stream (StreamInv); who tells the phone to stop     *)
(* (OffInv).                                                               *)
(***************************************************************************)
EXTENDS WinPreview, TLAPS

Senders == Commands \cup Pictures \cup {"lost", "active"}
Mail == [of : Senders, res : Results]
Batches == [box : BOOLEAN, rest : Seq(Mail)]

DataInv ==
  /\ jobs \in [Commands -> Nat] /\ queue \in Seq(Mail) /\ ticks \in Seq(Batches)
FlagsTyped ==
  /\ {video, follow, paired, told, playing, starting, active, decoding, inFlight,
      stopping, again, running, closed, encoding, stopLost, missed, ticked} \subseteq BOOLEAN
  /\ transport \in {"stopped", "playing", "recording"}
PanelTyped ==
  /\ mode \in {"idle", "live", "playback"} /\ hit \in 0..2
  /\ picture \in {"blank", "pending", "trouble", "stopped", "live", "playback"}
BoundsTyped == acts \in 0..MaxActs /\ failures \in 0..MaxFailures
StreamTyped ==
  /\ renderer \in {"none", "idle", "busy"}
  /\ thread \in {"none", "handshake", "open", "live", "feeding", "ended"}
  /\ joins \in {"no", "disable", "dock", "start"}
  /\ ~(starting /\ active)
  /\ running => thread \notin {"none", "ended"}
BoxesNest ==
  /\ Len(ticks) <= MaxBoxes + 1
  /\ \A i \in 1..Len(ticks) : i < Len(ticks) => ticks[i].box
TypeInv ==
  DataInv /\ FlagsTyped /\ PanelTyped /\ BoundsTyped /\ StreamTyped /\ BoxesNest

LEMMA TypeInit == Init => TypeInv
<1> SUFFICES ASSUME Init PROVE TypeInv
  OBVIOUS
<1>1. DataInv
  BY DEF Init, DataInv
<1>2. FlagsTyped
  <2>1. /\ video \in BOOLEAN /\ follow \in BOOLEAN /\ paired \in BOOLEAN /\ told \in BOOLEAN
        /\ playing \in BOOLEAN /\ starting \in BOOLEAN /\ active \in BOOLEAN
        /\ decoding \in BOOLEAN /\ inFlight \in BOOLEAN /\ stopping \in BOOLEAN
    BY DEF Init
  <2>2. /\ again \in BOOLEAN /\ running \in BOOLEAN /\ closed \in BOOLEAN /\ encoding \in BOOLEAN
        /\ stopLost \in BOOLEAN /\ missed \in BOOLEAN /\ ticked \in BOOLEAN
    BY DEF Init
  <2>3. transport = "stopped"
    BY DEF Init
  <2> QED BY <2>1, <2>2, <2>3 DEF FlagsTyped
<1>3. PanelTyped /\ StreamTyped
  BY DEF Init, PanelTyped, StreamTyped
<1>4. BoundsTyped
  BY WinPreviewAssumption DEF Init, BoundsTyped
<1>5. BoxesNest
  BY WinPreviewAssumption DEF Init, BoxesNest
<1> QED BY <1>1, <1>2, <1>3, <1>4, <1>5 DEF TypeInv

(***************************************************************************)
(* What steps do to the queue and the batches.                             *)
(***************************************************************************)
Posts(m) == queue' = Append(queue, m) /\ ticks' = ticks
Begins == ticks' = Append(ticks, [box |-> FALSE, rest |-> queue]) /\ queue' = <<>>
Handles(m, box) ==
  /\ ticks # <<>> /\ ~Top.box /\ Top.rest # <<>> /\ m = Head(Top.rest) /\ queue' = queue
  /\ ticks' = [ticks EXCEPT ![Len(ticks)] = [box |-> box, rest |-> Tail(Top.rest)]]
Closes ==
  /\ ticks # <<>> /\ queue' = queue
  /\ \E t \in Batches : /\ ~t.box /\ t.rest = Top.rest
                      /\ ticks' = [ticks EXCEPT ![Len(ticks)] = t]
Ends == ticks # <<>> /\ ~Top.box /\ Top.rest = <<>> /\ ticks' = Front(ticks) /\ queue' = queue

LEMMA TopBatch ==
  ASSUME DataInv, ticks # <<>>
  PROVE  /\ Len(ticks) \in Nat \ {0} /\ Len(ticks) \in 1..Len(ticks) /\ Top = ticks[Len(ticks)]
         /\ Top \in Batches /\ Top.rest \in Seq(Mail)
<1>1. Len(ticks) \in Nat \ {0} /\ Top = ticks[Len(ticks)]
  BY DEF DataInv, Top, Last
<1>2. Top \in Batches
  BY <1>1 DEF DataInv
<1> QED BY <1>1, <1>2 DEF Batches

\* What a helper or a thread posts is one message, or none.
LEMMA PostsOne ==
  ASSUME DataInv, NEW m \in Mail
  PROVE  Post(<<m>>) => queue' = Append(queue, m)
  BY DEF Post, DataInv
LEMMA PostsNone == DataInv /\ Post(<<>>) => queue' = queue
  BY DEF Post, DataInv

\* A message box that closes leaves the batch as it was.
LEMMA CloseCloses == DataInv /\ CloseBox => Closes
<1> SUFFICES ASSUME DataInv, CloseBox PROVE Closes
  OBVIOUS
<1> DEFINE t == [Top EXCEPT !.box = FALSE]
<1>1. ticks # <<>> /\ queue' = queue /\ ticks' = [ticks EXCEPT ![Len(ticks)].box = FALSE]
  BY DEF CloseBox
<1>2. Top \in Batches /\ Top = ticks[Len(ticks)]
  BY <1>1, TopBatch
<1>3. t \in Batches /\ ~t.box /\ t.rest = Top.rest
  BY <1>2 DEF Batches
<1>4. ticks' = [ticks EXCEPT ![Len(ticks)] = t]
  BY <1>1, <1>2
<1> HIDE DEF t
<1> QED BY <1>1, <1>3, <1>4 DEF Closes

Moves ==
  \/ UNCHANGED <<queue, ticks>> \/ (\E m \in Mail : Posts(m)) \/ Begins
  \/ (\E m, box : box \in BOOLEAN /\ Handles(m, box)) \/ Closes \/ Ends

LEMMA MovesTyped == DataInv /\ Moves => queue' \in Seq(Mail) /\ ticks' \in Seq(Batches)
<1> SUFFICES ASSUME DataInv, Moves PROVE queue' \in Seq(Mail) /\ ticks' \in Seq(Batches)
  OBVIOUS
<1>1. CASE \E m \in Mail : Posts(m)
  BY <1>1 DEF Posts, DataInv
<1>2. CASE Begins
  <2>1. [box |-> FALSE, rest |-> queue] \in Batches
    BY DEF DataInv, Batches
  <2> QED BY <1>2, <2>1 DEF Begins, DataInv
<1>3. ASSUME ticks # <<>>, NEW t \in Batches, ticks' = [ticks EXCEPT ![Len(ticks)] = t]
      PROVE  ticks' \in Seq(Batches)
  BY <1>3 DEF DataInv
<1>4. CASE \E m, box : box \in BOOLEAN /\ Handles(m, box)
  <2>1. PICK m, box : box \in BOOLEAN /\ Handles(m, box)
    BY <1>4
  <2>2. Top.rest \in Seq(Mail) /\ Top.rest # <<>>
    BY <2>1, TopBatch DEF Handles
  <2>3. [box |-> box, rest |-> Tail(Top.rest)] \in Batches
    BY <2>1, <2>2 DEF Batches
  <2> QED BY <1>3, <2>1, <2>3 DEF Handles, DataInv
<1>5. CASE Closes
  BY <1>3, <1>5 DEF Closes, DataInv
<1>6. CASE Ends
  BY <1>6 DEF Ends, Front, DataInv
<1>7. CASE UNCHANGED <<queue, ticks>>
  BY <1>7 DEF DataInv
<1> QED BY <1>1, <1>2, <1>4, <1>5, <1>6, <1>7 DEF Moves

\* Every step is one of these.
LEMMA UserMoves == User => UNCHANGED <<queue, ticks>>
  BY DEF User, EnableVideo, DisableVideo, ToggleFollow, ToggleDock, Request, MoveTransport, Act

LEMMA SenderMoves ==
  ASSUME DataInv, ReceiveLoop \/ HelperEnds \/ PlaybackFrame
  PROVE  UNCHANGED <<queue, ticks>> \/ \E m \in Mail : Posts(m)
<1>1. \A of \in Senders, res \in Results : Msg(of, res) \in Mail
  BY DEF Msg, Mail
<1>2. PICK ms : Post(ms) /\ ticks' = ticks /\ (ms = <<>> \/ \E m \in Mail : ms = <<m>>)
  <2>1. CASE HelperEnds
    <3>1. PICK c \in Commands, arrives \in BOOLEAN, res \in Results : JobEnds(c, arrives, res)
      BY <2>1 DEF HelperEnds
    <3>2. Msg(c, res) \in Mail
      BY <1>1 DEF Senders
    <3> QED BY <3>1, <3>2 DEF JobEnds, OffMain
  <2>2. ASSUME NEW ok \in BOOLEAN, HandshakeEnds(ok) \/ StreamEnds(ok) \/ Decodes(ok)
        PROVE  \E ms : Post(ms) /\ ticks' = ticks /\ (ms = <<>> \/ \E m \in Mail : ms = <<m>>)
    <3>1. Msg("lost", "failed") \in Mail /\ Msg("frame", "ok") \in Mail
      BY <1>1 DEF Senders, Pictures, Results
    <3> QED BY <2>2, <3>1 DEF HandshakeEnds, StreamEnds, Decodes, OffMain
  <2>3. CASE FeedBegins \/ FeedEnds \/ PlaybackFrame
    <3>1. Msg("active", "ok") \in Mail /\ Msg("unit", "ok") \in Mail /\ Msg("playback", "ok") \in Mail
      BY <1>1 DEF Senders, Pictures, Results
    <3> QED BY <2>3, <3>1 DEF FeedBegins, FeedEnds, PlaybackFrame, OffMain
  <2> QED BY <2>1, <2>2, <2>3 DEF ReceiveLoop
<1> QED BY <1>2, PostsOne, PostsNone DEF Posts

LEMMA RunHandles ==
  ASSUME NEW of, NEW res, NEW box, Run(of, res, box)
  PROVE  Handles(Msg(of, res), box)
  BY DEF Run, Handles

LEMMA CallbackMoves == RunCallback => \E m, box : box \in BOOLEAN /\ Handles(m, box)
<1> SUFFICES ASSUME RunCallback PROVE \E of, res, box : box \in BOOLEAN /\ Run(of, res, box)
  BY RunHandles
<1>1. ASSUME NEW res \in Results,
             \/ OnConfigured(res) \/ OnStarted(res) \/ OnStopped(res) \/ OnPaired(res)
             \/ \E reports \in BOOLEAN : OnProfile(res, reports)
      PROVE  \E of, r, box : box \in BOOLEAN /\ Run(of, r, box)
  BY <1>1 DEF OnConfigured, OnStarted, OnStopped, OnPaired, OnProfile
<1>2. ASSUME OnActive \/ OnLost \/ OnUnit PROVE \E of, r, box : box \in BOOLEAN /\ Run(of, r, box)
  BY <1>2 DEF OnActive, OnLost, OnUnit
<1>3. ASSUME OnFrame("frame", "live", "live") \/ OnFrame("playback", "playback", "playback")
      PROVE  \E of, r, box : box \in BOOLEAN /\ Run(of, r, box)
  BY <1>3 DEF OnFrame
<1> QED BY <1>1, <1>2, <1>3 DEF RunCallback

LEMMA NextMoves == DataInv /\ [Next]_vars => Moves
<1> SUFFICES ASSUME DataInv, [Next]_vars PROVE Moves
  OBVIOUS
<1>1. CASE User                     BY <1>1, UserMoves DEF Moves
<1>2. CASE ReceiveLoop \/ HelperEnds \/ PlaybackFrame
  BY <1>2, SenderMoves DEF Moves
<1>3. CASE RunCallback              BY <1>3, CallbackMoves DEF Moves
<1>4. CASE TimerPoll
  BY <1>4 DEF TimerPoll, Moves, Begins
<1>5. CASE CloseBox                 BY <1>5, CloseCloses DEF Moves
<1>6. CASE \E found \in BOOLEAN : PollTransport(found)
  BY <1>6 DEF PollTransport, Moves, Ends
<1>7. CASE JoinDisable \/ JoinDock \/ JoinStart
  BY <1>7 DEF JoinDisable, JoinDock, JoinStart, Join, Moves
<1>8. CASE Age \/ UNCHANGED vars
  BY <1>8 DEF Age, vars, Moves
<1> QED BY <1>1, <1>2, <1>3, <1>4, <1>5, <1>6, <1>7, <1>8 DEF Next, MainThread

(***************************************************************************)
(* Types.                                                                  *)
(***************************************************************************)
\* A helper starts, or ends.
LEMMA LaunchTyped ==
  ASSUME jobs \in [Commands -> Nat], NEW c \in Commands, Launch(c)
  PROVE  jobs' \in [Commands -> Nat]
  BY DEF Launch

LEMMA EndTyped ==
  ASSUME jobs \in [Commands -> Nat], NEW c \in Commands, jobs[c] > 0,
         jobs' = [jobs EXCEPT ![c] = @ - 1]
  PROVE  jobs' \in [Commands -> Nat]
<1>1. jobs[c] - 1 \in Nat
  OBVIOUS
<1> QED BY <1>1

\* What starting the preview leaves.
LEMMA StartTyped ==
  ASSUME DataInv, FlagsTyped, NEW m, NEW pic, NEW note \in BOOLEAN,
         StartRemotePreview(m, pic, note)
  PROVE  /\ jobs' \in [Commands -> Nat]
         /\ again' \in BOOLEAN /\ inFlight' \in BOOLEAN /\ told' \in BOOLEAN
         /\ picture' \in {pic, "trouble"} /\ mode' \in {m, "live"}
<1>1. CASE Launch("configure")
  <2>1. jobs' \in [Commands -> Nat]
    BY <1>1, LaunchTyped DEF DataInv, Commands
  <2> QED BY <2>1 DEF StartRemotePreview, StartLive, Configure, NoLaunch, launch, FlagsTyped
<1>2. CASE ~Launch("configure")
  <2>1. jobs' = jobs
    BY <1>2 DEF StartRemotePreview, StartLive, Configure, NoLaunch, launch
  <2> QED BY <2>1 DEF StartRemotePreview, StartLive, Configure, NoLaunch, launch, FlagsTyped, DataInv
<1> QED BY <1>1, <1>2

LEMMA LiveTyped ==
  ASSUME DataInv, FlagsTyped, NEW pic, NEW note \in BOOLEAN, StartLive(pic, note)
  PROVE  /\ jobs' \in [Commands -> Nat]
         /\ again' \in BOOLEAN /\ inFlight' \in BOOLEAN /\ told' \in BOOLEAN
         /\ picture' \in {pic, "trouble"} /\ mode' = "live"
<1>1. CASE Launch("configure")
  <2>1. jobs' \in [Commands -> Nat]
    BY <1>1, LaunchTyped DEF DataInv, Commands
  <2> QED BY <2>1 DEF StartLive, Configure, NoLaunch, FlagsTyped
<1>2. CASE ~Launch("configure")
  <2>1. jobs' = jobs
    BY <1>2 DEF StartLive, Configure, NoLaunch
  <2> QED BY <2>1 DEF StartLive, Configure, NoLaunch, FlagsTyped, DataInv
<1> QED BY <1>1, <1>2

PlainTyped == FlagsTyped /\ PanelTyped /\ BoundsTyped /\ StreamTyped /\ jobs \in [Commands -> Nat]

LEMMA UserTyped == TypeInv /\ User => PlainTyped'
<1> SUFFICES ASSUME TypeInv, User PROVE PlainTyped'
  OBVIOUS
<1> USE DEF TypeInv
<1>1. ASSUME Act PROVE BoundsTyped'
  BY <1>1, WinPreviewAssumption DEF Act, BoundsTyped, phone
<1>2. CASE EnableVideo
  <2>1. /\ jobs' \in [Commands -> Nat] /\ again' \in BOOLEAN /\ inFlight' \in BOOLEAN
        /\ told' \in BOOLEAN /\ picture' \in {picture, "trouble"} /\ mode' \in {mode, "live"}
    BY <1>2, StartTyped DEF EnableVideo
  <2>2. FlagsTyped'
    BY <1>2, <2>1 DEF EnableVideo, Act, FlagsTyped, hits, flags, phone
  <2> QED BY <1>1, <1>2, <2>1, <2>2
          DEF EnableVideo, PlainTyped, PanelTyped, StreamTyped, hits, flags
<1>3. CASE DisableVideo
  <2>1. FlagsTyped'
    BY <1>3 DEF DisableVideo, Act, StopStream, FlagsTyped, hits, launch, phone
  <2> QED BY <1>1, <1>3, <2>1
          DEF DisableVideo, StopStream, PlainTyped, PanelTyped, StreamTyped, DataInv, hits, launch
<1>4. CASE ToggleFollow
  <2>1. follow' \in BOOLEAN
    BY <1>4 DEF ToggleFollow
  <2>2. FlagsTyped'
    BY <1>4, <2>1 DEF ToggleFollow, Act, FlagsTyped, view, hits, flags, launch, phone
  <2> QED BY <1>1, <1>4, <2>2 DEF ToggleFollow, PlainTyped, PanelTyped, StreamTyped, DataInv,
                                  view, hits, flags, launch
<1>5. CASE ToggleDock
  BY <1>1, <1>5 DEF ToggleDock, Act, StopStream, PlainTyped, FlagsTyped, PanelTyped, StreamTyped,
                    DataInv, view, hits, launch, phone
<1>6. ASSUME NEW c \in {"profile", "pair"}, Request(c) PROVE PlainTyped'
  <2>1. jobs' \in [Commands -> Nat]
    BY <1>6, LaunchTyped DEF Request, DataInv, Commands
  <2>2. FlagsTyped'
    BY <1>6 DEF Request, Act, FlagsTyped, view, hits, flags, phone
  <2> QED BY <1>1, <1>6, <2>1, <2>2
          DEF Request, PlainTyped, PanelTyped, StreamTyped, view, hits, flags
<1>7. ASSUME NEW to \in {"stopped", "playing", "recording"}, MoveTransport(to) PROVE PlainTyped'
  <2>1. FlagsTyped'
    BY <1>7 DEF MoveTransport, Act, FlagsTyped, view, hits, flags, launch, phone
  <2> QED BY <1>1, <1>7, <2>1 DEF MoveTransport, PlainTyped, PanelTyped, StreamTyped, DataInv,
                                  view, hits, flags, launch
<1> QED BY <1>2, <1>3, <1>4, <1>5, <1>6, <1>7 DEF User

LEMMA SenderTyped ==
  ASSUME TypeInv, ReceiveLoop \/ HelperEnds \/ PlaybackFrame \/ Age
  PROVE  PlainTyped'
<1> USE DEF TypeInv
<1>1. CASE HelperEnds
  <2>1. PICK c \in Commands, arrives \in BOOLEAN, res \in Results : JobEnds(c, arrives, res)
    BY <1>1 DEF HelperEnds
  <2>2. jobs' \in [Commands -> Nat]
    BY <2>1, EndTyped DEF JobEnds, DataInv
  <2>3. encoding' \in BOOLEAN /\ stopLost' \in BOOLEAN
    BY <2>1 DEF JobEnds, FlagsTyped
  <2>4. FlagsTyped'
    BY <2>1, <2>3 DEF JobEnds, OffMain, FlagsTyped, user, view, hits, flags
  <2>5. BoundsTyped'
    BY <2>1, WinPreviewAssumption DEF JobEnds, OffMain, Fails, BoundsTyped, user
  <2> QED BY <2>1, <2>2, <2>4, <2>5
          DEF JobEnds, OffMain, PlainTyped, PanelTyped, StreamTyped, view, hits, flags
<1>2. ASSUME NEW ok \in BOOLEAN, HandshakeEnds(ok) \/ StreamEnds(ok) \/ Decodes(ok)
      PROVE  PlainTyped'
  <2>1. BoundsTyped'
    BY <1>2, WinPreviewAssumption
       DEF HandshakeEnds, StreamEnds, Decodes, OffMain, Fails, BoundsTyped, user, phone
  <2>2. FlagsTyped' /\ jobs' = jobs
    BY <1>2 DEF HandshakeEnds, StreamEnds, Decodes, OffMain, FlagsTyped, user, view, hits, flags, phone
  <2>3. StreamTyped'
    BY <1>2 DEF HandshakeEnds, StreamEnds, Decodes, OffMain, FlagsTyped, StreamTyped, flags
  <2> QED BY <1>2, <2>1, <2>2, <2>3
          DEF HandshakeEnds, StreamEnds, Decodes, OffMain, PlainTyped, PanelTyped, DataInv, view, hits
<1>3. CASE FeedBegins \/ FeedEnds \/ PlaybackFrame
  BY <1>3 DEF FeedBegins, FeedEnds, PlaybackFrame, OffMain, PlainTyped, FlagsTyped, PanelTyped,
              BoundsTyped, StreamTyped, DataInv, user, view, hits, flags, phone
<1>4. CASE Age
  BY <1>4 DEF Age, PlainTyped, FlagsTyped, PanelTyped, BoundsTyped, StreamTyped, DataInv,
              user, view, flags, launch, phone
<1> QED BY <1>1, <1>2, <1>3, <1>4 DEF ReceiveLoop

\* The main thread's own steps.
LEMMA JoinTyped == TypeInv /\ (JoinDisable \/ JoinDock \/ JoinStart) => PlainTyped'
<1> SUFFICES ASSUME TypeInv, JoinDisable \/ JoinDock \/ JoinStart PROVE PlainTyped'
  OBVIOUS
<1> USE DEF TypeInv
<1>1. ASSUME NEW then, Join(then) PROVE BoundsTyped' /\ UNCHANGED <<user, paired, hits, flags>>
  BY <1>1 DEF Join, BoundsTyped, user
<1>2. CASE JoinDisable
  <2>1. jobs' \in [Commands -> Nat]
    <3>1. "stop" \in Commands
      BY DEF Commands
    <3> QED BY <1>2, <3>1, LaunchTyped DEF JoinDisable, DataInv
  <2>2. stopping' \in BOOLEAN /\ stopLost' \in BOOLEAN
    BY <1>2 DEF JoinDisable, FlagsTyped
  <2>3. FlagsTyped'
    BY <1>2, <2>2 DEF JoinDisable, Join, FlagsTyped, user, hits, flags
  <2>4. mode' \in {mode, "idle"} /\ picture' \in {picture, "stopped"}
    BY <1>2 DEF JoinDisable, ModeWithout
  <2> QED BY <1>1, <1>2, <2>1, <2>3, <2>4
          DEF JoinDisable, Join, PlainTyped, PanelTyped, StreamTyped, hits, flags
<1>3. CASE JoinDock
  <2>1. /\ jobs' \in [Commands -> Nat] /\ again' \in BOOLEAN /\ inFlight' \in BOOLEAN
        /\ told' \in BOOLEAN /\ picture' \in {"blank", "trouble"}
        /\ mode' \in {mode, "idle", "live"}
    <3>1. CASE video
      <4>1. StartRemotePreview(ModeWithout, "blank", FALSE)
        BY <1>3, <3>1 DEF JoinDock
      <4> QED BY <4>1, StartTyped DEF ModeWithout
    <3>2. CASE ~video
      BY <1>3, <3>2 DEF JoinDock, ModeWithout, launch, DataInv, FlagsTyped
    <3> QED BY <3>1, <3>2
  <2>2. FlagsTyped'
    BY <1>3, <2>1 DEF JoinDock, Join, FlagsTyped, user, hits, flags
  <2> QED BY <1>1, <1>3, <2>1, <2>2
          DEF JoinDock, Join, PlainTyped, PanelTyped, StreamTyped, hits, flags
<1>4. CASE JoinStart
  <2>1. FlagsTyped'
    BY <1>4 DEF JoinStart, Join, FlagsTyped, user, view, hits, flags, launch
  <2> QED BY <1>1, <1>4, <2>1
          DEF JoinStart, Join, PlainTyped, PanelTyped, StreamTyped, DataInv, view, hits, flags, launch
<1> QED BY <1>2, <1>3, <1>4

LEMMA CallbackTyped == TypeInv /\ RunCallback => PlainTyped'
<1> SUFFICES ASSUME TypeInv, RunCallback PROVE PlainTyped'
  OBVIOUS
<1> USE DEF TypeInv
<1>1. ASSUME NEW of, NEW res, NEW box, Run(of, res, box)
      PROVE  BoundsTyped' /\ UNCHANGED <<user, hits, thread, encoding, stopLost, ticked>>
  BY <1>1 DEF Run, BoundsTyped, user, phone
<1>2. ASSUME NEW res \in Results, OnConfigured(res) PROVE PlainTyped'
  <2>1. jobs' \in [Commands -> Nat] /\ inFlight' \in BOOLEAN
    <3>1. CASE res = "ok" /\ ~Owns /\ video
      <4>1. Launch("start") /\ inFlight' = inFlight /\ "start" \in Commands
        BY <1>2, <3>1 DEF OnConfigured, Commands
      <4> QED BY <4>1, LaunchTyped DEF DataInv, FlagsTyped
    <3>2. CASE ~(res = "ok" /\ ~Owns /\ video)
      BY <1>2, <3>2 DEF OnConfigured, DataInv
    <3> QED BY <3>1, <3>2
  <2>2. paired' \in BOOLEAN /\ told' \in BOOLEAN /\ picture' \in {picture, "trouble"}
    BY <1>2 DEF OnConfigured, Refused, FlagsTyped
  <2>3. Run("configure", res, res = "failed" /\ ~Showing)
    BY <1>2 DEF OnConfigured
  <2>4. FlagsTyped'
    BY <1>1, <1>2, <2>1, <2>2, <2>3 DEF OnConfigured, FlagsTyped, user, hits, flags
  <2> QED BY <1>1, <1>2, <2>1, <2>2, <2>3, <2>4
          DEF OnConfigured, PlainTyped, PanelTyped, StreamTyped, hits, flags
<1>3. ASSUME NEW res \in Results, OnStarted(res) PROVE PlainTyped'
  <2>1. Run("start", res, res = "failed" /\ ~Owns)
    BY <1>3 DEF OnStarted
  <2>2. CASE StartStream /\ UNCHANGED <<paired, told>>
    <3>1. FlagsTyped'
      BY <1>1, <1>3, <2>1, <2>2 DEF OnStarted, StartStream, FlagsTyped, user, hits
    <3> QED BY <1>1, <1>3, <2>1, <2>2, <3>1
            DEF OnStarted, StartStream, PlainTyped, PanelTyped, StreamTyped, DataInv, hits
  <2>3. CASE /\ IF res # "ok" THEN Refused(res, ~Owns) ELSE UNCHANGED <<paired, picture, told>>
             /\ UNCHANGED <<renderer, running, closed, joins, flags>>
    <3>1. paired' \in BOOLEAN /\ told' \in BOOLEAN /\ picture' \in {picture, "trouble"}
      BY <2>3 DEF Refused, FlagsTyped
    <3>3. /\ UNCHANGED <<video, follow, transport, playing, encoding, stopLost, ticked>>
          /\ UNCHANGED <<starting, active, decoding, running, closed>>
      BY <1>1, <2>1, <2>3 DEF user, hits, flags
    <3>4. inFlight' = FALSE /\ UNCHANGED <<stopping, again, missed>>
      BY <1>3 DEF OnStarted
    <3>2. FlagsTyped'
      BY <3>1, <3>3, <3>4 DEF FlagsTyped
    <3> QED BY <1>1, <1>3, <2>1, <2>3, <3>1, <3>2
            DEF OnStarted, PlainTyped, PanelTyped, StreamTyped, DataInv, hits, flags
  <2> QED BY <1>3, <2>2, <2>3 DEF OnStarted
<1>4. ASSUME NEW res \in Results, OnStopped(res) PROVE PlainTyped'
  <2>1. Run("stop", res, FALSE)
    BY <1>4 DEF OnStopped
  <2>2. /\ jobs' \in [Commands -> Nat] /\ inFlight' \in BOOLEAN /\ told' \in BOOLEAN
        /\ mode' \in {mode, "live"} /\ picture' \in {picture, "trouble"}
    <3>1. CASE Launch("configure")
      <4>1. jobs' \in [Commands -> Nat]
        BY <3>1, LaunchTyped DEF DataInv, Commands
      <4> QED BY <1>4, <4>1 DEF OnStopped, Configure, NoLaunch, view, FlagsTyped
    <3>2. CASE ~Launch("configure")
      BY <1>4, <3>2 DEF OnStopped, Configure, NoLaunch, view, FlagsTyped, DataInv
    <3> QED BY <3>1, <3>2
  <2>3. FlagsTyped'
    BY <1>1, <1>4, <2>1, <2>2 DEF OnStopped, FlagsTyped, user, hits, flags
  <2> QED BY <1>1, <1>4, <2>1, <2>2, <2>3
          DEF OnStopped, PlainTyped, PanelTyped, StreamTyped, hits, flags
<1>5. ASSUME NEW res \in Results, NEW reports \in BOOLEAN, OnProfile(res, reports) PROVE PlainTyped'
  <2>1. Run("profile", res, res # "ok" /\ reports)
    BY <1>5 DEF OnProfile
  <2>2. /\ jobs' \in [Commands -> Nat] /\ again' \in BOOLEAN /\ inFlight' \in BOOLEAN
        /\ told' \in BOOLEAN /\ mode' \in {mode, "live"} /\ picture' \in {picture, "trouble"}
    <3>1. CASE res = "ok" /\ video
      <4>1. StartRemotePreview(mode, picture, told) /\ told \in BOOLEAN
        BY <1>5, <3>1 DEF OnProfile, FlagsTyped
      <4> QED BY <4>1, StartTyped
    <3>2. CASE ~(res = "ok" /\ video)
      BY <1>5, <3>2 DEF OnProfile, launch, DataInv, FlagsTyped
    <3> QED BY <3>1, <3>2
  <2>3. paired' \in BOOLEAN
    BY <1>5 DEF OnProfile, FlagsTyped
  <2>4. FlagsTyped'
    BY <1>1, <1>5, <2>1, <2>2, <2>3 DEF OnProfile, FlagsTyped, user, hits, flags
  <2> QED BY <1>1, <1>5, <2>1, <2>2, <2>4
          DEF OnProfile, PlainTyped, PanelTyped, StreamTyped, hits, flags
<1>6. ASSUME NEW res \in Results, OnPaired(res) PROVE PlainTyped'
  <2>1. Run("pair", res, res # "ok") /\ paired' \in BOOLEAN /\ told' \in BOOLEAN
    BY <1>6 DEF OnPaired, FlagsTyped
  <2>2. FlagsTyped'
    BY <1>1, <1>6, <2>1 DEF OnPaired, FlagsTyped, user, hits, flags, launch
  <2> QED BY <1>1, <1>6, <2>1, <2>2
          DEF OnPaired, PlainTyped, PanelTyped, StreamTyped, DataInv, hits, flags, launch
<1>7. CASE OnActive
  <2>1. Run("active", "ok", FALSE)
    BY <1>7 DEF OnActive
  <2>3. /\ starting' = FALSE /\ active' = TRUE
        /\ UNCHANGED <<paired, told, decoding, stopping, again, inFlight, running, closed, missed>>
    BY <1>7 DEF OnActive, view, launch
  <2>4. UNCHANGED <<video, follow, transport, playing, encoding, stopLost, ticked>>
    BY <1>1, <2>1 DEF user, hits
  <2>2. FlagsTyped'
    BY <2>3, <2>4 DEF FlagsTyped
  <2> QED BY <1>1, <1>7, <2>1, <2>2
          DEF OnActive, PlainTyped, PanelTyped, StreamTyped, DataInv, view, hits, launch
<1>8. CASE OnLost
  <2>1. told \in BOOLEAN /\ missed \in BOOLEAN
    BY DEF FlagsTyped
  <2>2. told' \in BOOLEAN
    BY <1>8, <2>1 DEF OnLost
  <2>3. missed' \in BOOLEAN
    BY <1>8, <2>1 DEF OnLost
  <2>4. Run("lost", "failed", FALSE)
    BY <1>8 DEF OnLost
  <2>5. picture' = IF Owns THEN picture ELSE "trouble"
    BY <1>8 DEF OnLost
  <2>6. starting' \in BOOLEAN /\ active' \in BOOLEAN
    BY <1>8 DEF OnLost
  <2>7. UNCHANGED <<paired, decoding, stopping, launch, running>> /\ closed' = FALSE
    BY <1>8 DEF OnLost
  <2>8. FlagsTyped'
    BY <1>1, <2>2, <2>3, <2>4, <2>6, <2>7 DEF FlagsTyped, user, hits, launch
  <2> QED BY <1>1, <1>8, <2>4, <2>5, <2>8
          DEF OnLost, PlainTyped, PanelTyped, StreamTyped, DataInv, hits, launch
<1>9. CASE OnUnit
  <2>1. Run("unit", "ok", FALSE) /\ decoding' \in BOOLEAN /\ picture' \in {picture, "pending"}
    BY <1>9 DEF OnUnit, FlagsTyped
  <2>3. UNCHANGED <<paired, told, starting, active, stopping, again, inFlight, running, closed, missed>>
    BY <1>9 DEF OnUnit, launch
  <2>4. UNCHANGED <<video, follow, transport, playing, encoding, stopLost, ticked>>
    BY <1>1, <2>1 DEF user, hits
  <2>2. FlagsTyped'
    BY <2>1, <2>3, <2>4 DEF FlagsTyped
  <2> QED BY <1>1, <1>9, <2>1, <2>2
          DEF OnUnit, PlainTyped, PanelTyped, StreamTyped, DataInv, hits, launch
<1>10. ASSUME NEW of, NEW owner, NEW shows \in {"live", "playback"}, OnFrame(of, owner, shows)
       PROVE  PlainTyped'
  <2>1. Run(of, "ok", FALSE)
    BY <1>10 DEF OnFrame
  <2>2. FlagsTyped'
    <3>1. UNCHANGED <<video, follow, paired, told, playing, starting, active, decoding, inFlight>>
      BY <1>1, <1>10, <2>1 DEF OnFrame, user, hits, flags, launch
    <3>2. UNCHANGED <<stopping, again, running, closed, encoding, stopLost, missed, ticked, transport>>
      BY <1>1, <1>10, <2>1 DEF OnFrame, user, hits, flags, launch
    <3> QED
      BY <3>1, <3>2 DEF FlagsTyped
  <2> QED BY <1>1, <1>10, <2>1, <2>2
          DEF OnFrame, PlainTyped, PanelTyped, StreamTyped, DataInv, hits, flags, launch
<1> QED BY <1>2, <1>3, <1>4, <1>5, <1>6, <1>7, <1>8, <1>9, <1>10 DEF RunCallback

LEMMA PollTyped ==
  ASSUME TypeInv, NEW found \in BOOLEAN, PollTransport(found)
  PROVE  PlainTyped'
<1> USE DEF TypeInv
<1>1. /\ UNCHANGED <<user, paired, flags, stopping, renderer, running, closed, thread, joins, phone, missed>>
      /\ ticked' = TRUE
  BY DEF PollTransport
<1>0. /\ again \in BOOLEAN /\ inFlight \in BOOLEAN /\ told \in BOOLEAN /\ playing \in BOOLEAN
      /\ jobs \in [Commands -> Nat] /\ hit \in 0..2
  BY DEF FlagsTyped, DataInv, PanelTyped
<1>2. /\ jobs' \in [Commands -> Nat] /\ again' \in BOOLEAN /\ inFlight' \in BOOLEAN
      /\ told' \in BOOLEAN /\ playing' \in BOOLEAN
      /\ mode' \in {mode, "live", "playback"} /\ picture' \in {picture, "trouble"} /\ hit' \in 0..2
  <2>1. CASE video /\ follow /\ transport = "playing" /\ found
    <3>1. ShowPlayback
      BY <2>1 DEF PollTransport
    <3>2. CASE Showing
      <4>1. /\ playing' \in BOOLEAN /\ hit' \in 0..2
            /\ UNCHANGED <<mode, again, inFlight, picture, told, jobs>>
        BY <3>1, <3>2 DEF ShowPlayback
      <4> QED BY <1>0, <4>1
    <3>3. CASE ~Showing
      <4>1. playing' \in BOOLEAN /\ again' \in BOOLEAN /\ inFlight' \in BOOLEAN
        BY <3>1, <3>3 DEF ShowPlayback
      <4>2. mode' = "playback" /\ hit' = 2 /\ UNCHANGED <<picture, told, jobs>>
        BY <3>1, <3>3 DEF ShowPlayback
      <4> QED BY <1>0, <4>1, <4>2
    <3> QED BY <3>2, <3>3
  <2>2. CASE ~(video /\ follow /\ transport = "playing" /\ found)
             /\ video /\ follow /\ transport = "stopped" /\ (Showing => hit < 2)
    <3>1. playing' = FALSE /\ IF Showing THEN hit' = 0 /\ StopPlaybackAndShowLive
                                         ELSE UNCHANGED <<hit, view, launch>>
      BY <2>2 DEF PollTransport
    <3>0. playing' \in BOOLEAN
      BY <3>1
    <3>2. CASE ~Showing
      <4>1. UNCHANGED <<hit, mode, picture, told, again, inFlight, jobs>>
        BY <3>1, <3>2 DEF view, launch
      <4> QED BY <1>0, <3>0, <4>1
    <3>3. CASE Showing /\ (starting \/ active)
      <4>1. hit' = 0 /\ mode' = "live" /\ UNCHANGED <<picture, told, again, inFlight, jobs>>
        BY <3>1, <3>3 DEF StopPlaybackAndShowLive, launch
      <4> QED BY <1>0, <3>0, <4>1
    <3>4. CASE Showing /\ ~(starting \/ active)
      <4>1. StartLive(picture, told) /\ hit' = 0
        BY <3>1, <3>4 DEF StopPlaybackAndShowLive
      <4>2. /\ jobs' \in [Commands -> Nat] /\ again' \in BOOLEAN /\ inFlight' \in BOOLEAN
            /\ told' \in BOOLEAN /\ picture' \in {picture, "trouble"} /\ mode' = "live"
        BY <1>0, <4>1, LiveTyped
      <4> QED BY <3>0, <4>1, <4>2
    <3> QED BY <3>2, <3>3, <3>4
  <2>3. CASE /\ ~(video /\ follow /\ transport = "playing" /\ found)
             /\ ~(video /\ follow /\ transport = "stopped" /\ (Showing => hit < 2))
    <3>1. UNCHANGED <<hits, view, launch>>
      BY <2>3 DEF PollTransport
    <3> QED BY <1>0, <3>1 DEF hits, view, launch
  <2> QED BY <2>1, <2>2, <2>3
<1>3. FlagsTyped'
  BY <1>1, <1>2 DEF FlagsTyped, user, flags, phone
<1> QED BY <1>1, <1>2, <1>3
        DEF PlainTyped, PanelTyped, BoundsTyped, StreamTyped, user, flags, phone

LEMMA NestNext == TypeInv /\ [Next]_vars => BoxesNest'
<1> SUFFICES ASSUME TypeInv, [Next]_vars PROVE BoxesNest'
  OBVIOUS
<1> USE DEF TypeInv
<1>0. Len(ticks) \in Nat /\ DataInv
  BY DEF DataInv
<1>1. CASE ticks' = ticks
  BY <1>1 DEF BoxesNest
<1>2. CASE TimerPoll
  <2> DEFINE t == [box |-> FALSE, rest |-> queue]
  <2>1. Len(ticks) <= MaxBoxes /\ ticks' = Append(ticks, t)
    BY <1>2 DEF TimerPoll
  <2>2. ticks # <<>> => ticks[Len(ticks)].box
    BY <1>2 DEF TimerPoll, AtRest, Top, Last
  <2> HIDE DEF t
  <2>3. \A i \in 1..Len(ticks) : ticks[i].box
    BY <1>0, <2>2 DEF BoxesNest
  <2>4. Len(ticks') = Len(ticks) + 1 /\ \A i \in 1..Len(ticks) : ticks'[i] = ticks[i]
    BY <2>1 DEF DataInv
  <2> QED BY <1>0, <2>1, <2>3, <2>4, WinPreviewAssumption DEF BoxesNest
<1>3. ASSUME ticks # <<>>, NEW t, ticks' = [ticks EXCEPT ![Len(ticks)] = t]
      PROVE  BoxesNest'
  <2>1. Len(ticks') = Len(ticks) /\ \A i \in 1..Len(ticks) : i # Len(ticks) => ticks'[i] = ticks[i]
    BY <1>3 DEF DataInv
  <2> QED BY <1>0, <2>1 DEF BoxesNest
<1>4. CASE Closes \/ \E m, box : box \in BOOLEAN /\ Handles(m, box)
  BY <1>3, <1>4 DEF Closes, Handles
<1>5. CASE Ends
  <2>1. ticks' = [i \in 1..(Len(ticks) - 1) |-> ticks[i]] /\ Len(ticks) \in Nat \ {0}
    BY <1>5, TopBatch DEF Ends, Front
  <2>2. Len(ticks') = Len(ticks) - 1 /\ \A i \in 1..Len(ticks') : ticks'[i] = ticks[i]
    BY <2>1
  <2> QED BY <1>0, <2>1, <2>2, WinPreviewAssumption DEF BoxesNest
<1>6. CASE User \/ JoinDisable \/ JoinDock \/ JoinStart \/ Age \/ UNCHANGED vars
  BY <1>1, <1>6, UserMoves DEF JoinDisable, JoinDock, JoinStart, Join, Age, vars
<1>7. CASE ReceiveLoop \/ HelperEnds \/ PlaybackFrame
  BY <1>1, <1>7, SenderMoves DEF Posts
<1>8. CASE RunCallback
  BY <1>4, <1>8, CallbackMoves
<1>9. CASE CloseBox
  BY <1>4, <1>9, CloseCloses
<1>10. CASE \E found \in BOOLEAN : PollTransport(found)
  BY <1>5, <1>10 DEF PollTransport, Ends
<1> QED BY <1>2, <1>6, <1>7, <1>8, <1>9, <1>10 DEF Next, MainThread

LEMMA PlainNext == TypeInv /\ [Next]_vars => PlainTyped'
<1> SUFFICES ASSUME TypeInv, [Next]_vars PROVE PlainTyped'
  OBVIOUS
<1>1. CASE User                     BY <1>1, UserTyped
<1>2. CASE ReceiveLoop \/ HelperEnds \/ PlaybackFrame \/ Age
  BY <1>2, SenderTyped
<1>3. CASE JoinDisable \/ JoinDock \/ JoinStart
  BY <1>3, JoinTyped
<1>4. CASE RunCallback              BY <1>4, CallbackTyped
<1>5. CASE \E found \in BOOLEAN : PollTransport(found)
  BY <1>5, PollTyped
<1>6. CASE TimerPoll \/ CloseBox \/ UNCHANGED vars
  <2>1. UNCHANGED <<user, paired, view, hits, flags, stopping, launch, renderer, running, closed, thread,
                    joins, phone, missed, ticked>>
    BY <1>6 DEF TimerPoll, CloseBox, OnlyTicks, vars
  <2> QED BY <2>1 DEF PlainTyped, FlagsTyped, PanelTyped, BoundsTyped, StreamTyped, TypeInv, DataInv,
                      user, view, hits, flags, launch, phone
<1> QED BY <1>1, <1>2, <1>3, <1>4, <1>5, <1>6 DEF Next, MainThread

LEMMA TypeNext == TypeInv /\ [Next]_vars => TypeInv'
<1> SUFFICES ASSUME TypeInv, [Next]_vars PROVE TypeInv'
  OBVIOUS
<1>1. PlainTyped' /\ BoxesNest'
  BY PlainNext, NestNext
<1>2. queue' \in Seq(Mail) /\ ticks' \in Seq(Batches)
  BY NextMoves, MovesTyped DEF TypeInv
<1>3. jobs' \in [Commands -> Nat] /\ FlagsTyped' /\ PanelTyped' /\ BoundsTyped' /\ StreamTyped'
  BY <1>1 DEF PlainTyped
<1> QED BY <1>1, <1>2, <1>3 DEF TypeInv, DataInv

LEMMA Typed == Spec => []TypeInv
  BY TypeInit, TypeNext, PTL DEF Spec

\* The variables keep their types; only an outer batch waits behind a box, a
\* starting stream is not active, and a running one has a thread (the flags and
\* handles of reaper_reashoot_win32.cpp and win32_preview_stream_client.cpp).
THEOREM WinPreviewTypes == Spec => []TypeOK
<1>1. TypeInv => TypeOK
  BY DEF TypeInv, TypeOK, DataInv, FlagsTyped, PanelTyped, BoundsTyped, StreamTyped, BoxesNest
<1> QED BY <1>1, Typed, PTL

(***************************************************************************)
(* While playback owns the panel.                                          *)
(***************************************************************************)
\* Nothing starts live preview under playback, and nothing else paints.
LEMMA StartUnderPlayback ==
  ASSUME Showing, NEW note, StartRemotePreview(mode, picture, note)
  PROVE  picture' = picture
  BY DEF StartRemotePreview, Owns

LEMMA LiveLeavesPlayback ==
  ASSUME NEW pic, NEW note, StartLive(pic, note)
  PROVE  mode' = "live"
  BY DEF StartLive

Kept == mode' = "playback" => picture' \in {picture, "playback"}

LEMMA CallbackPaints == Showing /\ RunCallback => Kept
<1> SUFFICES ASSUME Showing, RunCallback PROVE Kept
  OBVIOUS
<1>0. Owns
  BY DEF Owns
<1>1. ASSUME NEW res \in Results, OnConfigured(res) PROVE Kept
  BY <1>1 DEF OnConfigured, Refused, Kept
<1>2. ASSUME NEW res \in Results, OnStarted(res) PROVE Kept
  BY <1>0, <1>2 DEF OnStarted, Refused, Kept
<1>3. ASSUME NEW res \in Results, OnStopped(res) PROVE Kept
  BY <1>0, <1>3 DEF OnStopped, view, Kept
<1>4. ASSUME NEW res \in Results, NEW reports \in BOOLEAN, OnProfile(res, reports) PROVE Kept
  <2>1. CASE res = "ok" /\ video
    <3>1. StartRemotePreview(mode, picture, told)
      BY <1>4, <2>1 DEF OnProfile
    <3> QED BY <3>1, StartUnderPlayback DEF Kept
  <2>2. CASE ~(res = "ok" /\ video)
    BY <1>4, <2>2 DEF OnProfile, Kept
  <2> QED BY <2>1, <2>2
<1>5. ASSUME NEW res \in Results, OnPaired(res) PROVE Kept
  BY <1>5 DEF OnPaired, Kept
<1>6. CASE OnActive
  BY <1>6 DEF OnActive, view, Kept
<1>7. CASE OnLost
  <2>1. picture' = IF Owns THEN picture ELSE "trouble"
    BY <1>7 DEF OnLost
  <2> QED BY <1>0, <2>1 DEF Kept
<1>8. CASE OnUnit
  BY <1>8 DEF OnUnit, Showing, Kept
<1>9. CASE OnFrame("frame", "live", "live")
  BY <1>9 DEF OnFrame, Showing, Kept
<1>10. CASE OnFrame("playback", "playback", "playback")
  BY <1>10 DEF OnFrame, Kept
<1> QED BY <1>1, <1>2, <1>3, <1>4, <1>5, <1>6, <1>7, <1>8, <1>9, <1>10 DEF RunCallback

LEMMA PollPaints ==
  ASSUME NEW found, Showing, PollTransport(found)
  PROVE  Kept
<1>1. CASE video /\ follow /\ transport = "playing" /\ found
  <2>1. ShowPlayback
    BY <1>1 DEF PollTransport
  <2> QED BY <2>1 DEF ShowPlayback, Kept
<1>2. CASE ~(video /\ follow /\ transport = "playing" /\ found)
           /\ video /\ follow /\ transport = "stopped" /\ (Showing => hit < 2)
  <2>1. StopPlaybackAndShowLive
    BY <1>2 DEF PollTransport
  <2>2. mode' = "live"
    BY <2>1, LiveLeavesPlayback DEF StopPlaybackAndShowLive
  <2> QED BY <2>2 DEF Kept
<1>3. CASE /\ ~(video /\ follow /\ transport = "playing" /\ found)
           /\ ~(video /\ follow /\ transport = "stopped" /\ (Showing => hit < 2))
  <2>1. UNCHANGED view
    BY <1>3 DEF PollTransport
  <2> QED BY <2>1 DEF view, Kept
<1> QED BY <1>1, <1>2, <1>3

LEMMA NextPaints == [Next]_vars /\ Showing /\ joins # "dock" => Kept
<1> SUFFICES ASSUME [Next]_vars, Showing, joins # "dock" PROVE Kept
  OBVIOUS
<1>1. CASE User
  <2>1. CASE EnableVideo
    BY <2>1, StartUnderPlayback DEF EnableVideo, Kept
  <2>2. CASE DisableVideo \/ ToggleFollow \/ ToggleDock
    BY <2>2 DEF DisableVideo, ToggleFollow, ToggleDock, view, Kept
  <2>3. CASE \E c \in {"profile", "pair"} : Request(c)
    BY <2>3 DEF Request, view, Kept
  <2>4. CASE \E to \in {"stopped", "playing", "recording"} : MoveTransport(to)
    BY <2>4 DEF MoveTransport, view, Kept
  <2> QED BY <1>1, <2>1, <2>2, <2>3, <2>4 DEF User
<1>2. CASE ReceiveLoop \/ HelperEnds \/ PlaybackFrame
  <2>1. UNCHANGED view
    BY <1>2 DEF ReceiveLoop, HelperEnds, PlaybackFrame, JobEnds, HandshakeEnds, StreamEnds, Decodes,
                FeedBegins, FeedEnds, OffMain
  <2> QED BY <2>1 DEF view, Kept
<1>3. CASE JoinDisable \/ JoinStart
  BY <1>3 DEF JoinDisable, JoinStart, view, Kept
<1>4. CASE JoinDock
  BY <1>4 DEF JoinDock, Join
<1>5. CASE RunCallback
  BY <1>5, CallbackPaints
<1>6. CASE \E found \in BOOLEAN : PollTransport(found)
  BY <1>6, PollPaints
<1>7. CASE TimerPoll \/ CloseBox \/ Age \/ UNCHANGED vars
  <2>1. UNCHANGED view
    BY <1>7 DEF TimerPoll, CloseBox, OnlyTicks, Age, vars
  <2> QED BY <2>1 DEF view, Kept
<1> QED BY <1>1, <1>2, <1>3, <1>4, <1>5, <1>6, <1>7 DEF Next, MainThread

\* For any user: as long as playback owns the panel (PreviewMode), no callback, answer
\* or poll paints anything there but playback's frames.
THEOREM PlaybackKeepsPanel == Spec => PlaybackIsNotPaintedOver
<1>1. [Next]_vars =>
        [Showing /\ mode' = "playback" /\ joins # "dock" => picture' \in {picture, "playback"}]_vars
  BY NextPaints DEF Kept
<1> QED BY <1>1, PTL DEF Spec, PlaybackIsNotPaintedOver

(***************************************************************************)
(* What waits for the main thread.  Without an open box all of it is one   *)
(* sequence: the rest of the batch at work, then the queue.                *)
(***************************************************************************)
Sent(of) == \E m \in Messages : m.of = of
Boxed == \E i \in 1..Len(ticks) : ticks[i].box
Waiting == (IF ticks = <<>> THEN <<>> ELSE Top.rest) \o queue

\* n may wait behind m.
Follows(m, n) ==
  /\ ~(m.of \in Commands /\ n.of \in Commands)
  /\ ~(m.of = "lost" /\ n.of = "active")
  /\ ~(m.of \in {"configure", "start"} /\ n.of = "lost")
Ordered(s) == \A i, k \in 1..Len(s) : i < k => Follows(s[i], s[k])
Queued == Boxed \/ Ordered(Waiting)

LEMMA OrderedAppend ==
  ASSUME NEW s \in Seq(Mail), NEW m \in Mail, Ordered(s), \A n \in ToSet(s) : Follows(n, m)
  PROVE  Ordered(Append(s, m))
<1>1. \A i \in 1..Len(s) : s[i] \in ToSet(s)
  BY DEF ToSet
<1>2. /\ Len(Append(s, m)) = Len(s) + 1 /\ Append(s, m)[Len(s) + 1] = m
      /\ \A i \in 1..Len(s) : Append(s, m)[i] = s[i]
  OBVIOUS
<1> DEFINE t == Append(s, m)
<1> HIDE DEF t
<1> SUFFICES ASSUME NEW i \in 1..Len(t), NEW k \in 1..Len(t), i < k
             PROVE  Follows(t[i], t[k])
  BY DEF Ordered, t
<1>3. i \in 1..Len(s) /\ t[i] = s[i]
  BY <1>2 DEF t
<1>4. CASE k \in 1..Len(s)
  <2>1. t[k] = s[k]
    BY <1>2, <1>4 DEF t
  <2> QED BY <1>3, <1>4, <2>1 DEF Ordered
<1>5. CASE k = Len(s) + 1
  <2>1. t[k] = m
    BY <1>2, <1>5 DEF t
  <2> QED BY <1>1, <1>3, <2>1
<1> QED BY <1>2, <1>4, <1>5 DEF t

LEMMA OrderedTail ==
  ASSUME NEW s \in Seq(Mail), s # <<>>, Ordered(s)
  PROVE  Ordered(Tail(s)) /\ \A n \in ToSet(Tail(s)) : Follows(Head(s), n)
<1>1. /\ Len(s) \in Nat \ {0} /\ Head(s) = s[1] /\ Len(Tail(s)) = Len(s) - 1
      /\ \A i \in 1..(Len(s) - 1) : Tail(s)[i] = s[i + 1]
  OBVIOUS
<1> DEFINE t == Tail(s)
<1>2. Len(t) = Len(s) - 1 /\ (\A i \in 1..Len(t) : t[i] = s[i + 1]) /\ DOMAIN t = 1..Len(t)
  BY <1>1
<1> HIDE DEF t
<1>3. Ordered(t)
  BY <1>1, <1>2 DEF Ordered
<1>4. ASSUME NEW n \in ToSet(t) PROVE Follows(Head(s), n)
  <2>1. PICK i \in 1..Len(t) : n = t[i]
    BY <1>2, <1>4 DEF ToSet
  <2>2. n = s[i + 1] /\ i + 1 \in 1..Len(s) /\ 1 \in 1..Len(s) /\ 1 < i + 1
    BY <1>1, <1>2, <2>1
  <2> QED BY <1>1, <2>2 DEF Ordered
<1> QED BY <1>3, <1>4 DEF t

\* A message that is posted.
LEMMA PostsWaits ==
  ASSUME DataInv, NEW m \in Mail, Posts(m)
  PROVE  /\ Messages' = Messages \cup {m} /\ (Boxed' <=> Boxed)
         /\ \A of : Sent(of)' <=> Sent(of) \/ m.of = of
<1>1. ticks' = ticks /\ queue' = Append(queue, m)
  BY DEF Posts
<1>2. ToSet(queue') = ToSet(queue) \cup {m}
  <2>1. /\ Len(queue') = Len(queue) + 1 /\ queue'[Len(queue) + 1] = m /\ Len(queue) \in Nat
        /\ \A i \in 1..Len(queue) : queue'[i] = queue[i]
        /\ DOMAIN queue = 1..Len(queue) /\ DOMAIN queue' = 1..(Len(queue) + 1)
    BY <1>1 DEF DataInv
  <2> QED BY <2>1 DEF ToSet
<1>3. Messages' = Messages \cup {m}
  BY <1>1, <1>2 DEF Messages
<1> QED BY <1>1, <1>3 DEF Boxed, Sent

LEMMA PostsOrdered ==
  ASSUME DataInv, NEW m \in Mail, Posts(m), Queued, Boxed \/ \A n \in Messages : Follows(n, m)
  PROVE  Queued'
<1>1. ticks' = ticks /\ queue' = Append(queue, m)
  BY DEF Posts
<1>2. CASE Boxed
  BY <1>1, <1>2 DEF Boxed, Queued
<1>3. CASE ~Boxed
  <2> DEFINE r == IF ticks = <<>> THEN <<>> ELSE Top.rest
  <2>1. r \in Seq(Mail)
    BY TopBatch
  <2>2. Waiting = r \o queue /\ Waiting' = r \o queue'
    BY <1>1 DEF Waiting, Top
  <2>3. ToSet(r) \subseteq Messages /\ ToSet(queue) \subseteq Messages
    BY TopBatch DEF Messages, ToSet
  <2> HIDE DEF r
  <2>4. Waiting \in Seq(Mail) /\ Waiting' = Append(Waiting, m)
    BY <1>1, <2>1, <2>2 DEF DataInv
  <2>5. ToSet(Waiting) \subseteq Messages
    BY <2>1, <2>2, <2>3 DEF DataInv, ToSet
  <2> QED BY <1>3, <2>4, <2>5, OrderedAppend DEF Queued
<1> QED BY <1>2, <1>3

\* Sequences of messages.
LEMMA ToSetConcat ==
  ASSUME NEW s \in Seq(Mail), NEW r \in Seq(Mail), NEW n
  PROVE  n \in ToSet(s \o r) <=> n \in ToSet(s) \/ n \in ToSet(r)
<1>1. /\ Len(s) \in Nat /\ Len(r) \in Nat /\ DOMAIN (s \o r) = 1..(Len(s) + Len(r))
      /\ DOMAIN s = 1..Len(s) /\ DOMAIN r = 1..Len(r)
      /\ \A i \in 1..Len(s) : (s \o r)[i] = s[i]
      /\ \A i \in 1..Len(r) : (s \o r)[Len(s) + i] = r[i]
  OBVIOUS
<1>2. \A i \in 1..(Len(s) + Len(r)) : i \in 1..Len(s) \/ (i - Len(s) \in 1..Len(r)
                                                          /\ i = Len(s) + (i - Len(s)))
  BY <1>1
<1>3. /\ \A i \in 1..Len(s) : i \in 1..(Len(s) + Len(r))
      /\ \A i \in 1..Len(r) : Len(s) + i \in 1..(Len(s) + Len(r))
  BY <1>1
<1>4. ASSUME n \in ToSet(s) \/ n \in ToSet(r) PROVE n \in ToSet(s \o r)
  BY <1>1, <1>3, <1>4 DEF ToSet
<1>5. ASSUME n \in ToSet(s \o r) PROVE n \in ToSet(s) \/ n \in ToSet(r)
  <2>1. PICK i \in 1..(Len(s) + Len(r)) : n = (s \o r)[i]
    BY <1>1, <1>5 DEF ToSet
  <2>2. CASE i \in 1..Len(s)
    BY <1>1, <2>1, <2>2 DEF ToSet
  <2>3. CASE i - Len(s) \in 1..Len(r)
    <3>1. n = r[i - Len(s)]
      BY <1>1, <1>2, <2>1, <2>3
    <3> QED BY <1>1, <2>3, <3>1 DEF ToSet
  <2> QED BY <1>2, <2>2, <2>3
<1> QED BY <1>4, <1>5

LEMMA ToSetTail ==
  ASSUME NEW s \in Seq(Mail), s # <<>>
  PROVE  /\ Head(s) \in Mail /\ Tail(s) \in Seq(Mail)
         /\ \A n : n \in ToSet(s) <=> n = Head(s) \/ n \in ToSet(Tail(s))
<1>1. /\ Head(s) = s[1] /\ Len(s) \in Nat \ {0} /\ Head(s) \in Mail /\ Tail(s) \in Seq(Mail)
      /\ DOMAIN s = 1..Len(s) /\ DOMAIN Tail(s) = 1..(Len(s) - 1)
      /\ \A i \in 1..(Len(s) - 1) : Tail(s)[i] = s[i + 1]
  OBVIOUS
<1>2. ASSUME NEW n \in ToSet(s) PROVE n = Head(s) \/ n \in ToSet(Tail(s))
  <2>1. PICK j \in 1..Len(s) : n = s[j]
    BY <1>1, <1>2 DEF ToSet
  <2>2. CASE j # 1
    <3>1. j - 1 \in 1..(Len(s) - 1) /\ n = Tail(s)[j - 1]
      BY <1>1, <2>1, <2>2
    <3> QED BY <1>1, <3>1 DEF ToSet
  <2> QED BY <1>1, <2>1, <2>2
<1>3. ASSUME NEW n \in ToSet(Tail(s)) PROVE n \in ToSet(s)
  <2>1. PICK j \in 1..(Len(s) - 1) : n = Tail(s)[j]
    BY <1>1, <1>3 DEF ToSet
  <2>2. j + 1 \in 1..Len(s) /\ n = s[j + 1]
    BY <1>1, <2>1
  <2> QED BY <1>1, <2>2 DEF ToSet
<1>4. Head(s) \in ToSet(s)
  <2>1. 1 \in 1..Len(s)
    BY <1>1
  <2> QED BY <1>1, <2>1 DEF ToSet
<1> QED BY <1>1, <1>2, <1>3, <1>4

LEMMA TailConcat ==
  ASSUME NEW s \in Seq(Mail), NEW r \in Seq(Mail), s # <<>>
  PROVE  /\ s \o r \in Seq(Mail) /\ s \o r # <<>>
         /\ Tail(s \o r) = Tail(s) \o r /\ Head(s \o r) = Head(s)
<1> DEFINE u == s \o r
           v == Tail(s) \o r
<1>1. /\ u \in Seq(Mail) /\ Len(u) = Len(s) + Len(r) /\ Len(s) \in Nat \ {0} /\ Len(r) \in Nat
      /\ \A i \in 1..Len(s) : u[i] = s[i]
      /\ \A i \in 1..Len(r) : u[Len(s) + i] = r[i]
  OBVIOUS
<1>2. /\ v \in Seq(Mail) /\ Len(v) = Len(s) - 1 + Len(r)
      /\ \A i \in 1..(Len(s) - 1) : v[i] = s[i + 1]
      /\ \A i \in 1..Len(r) : v[Len(s) - 1 + i] = r[i]
  <2>1. /\ Tail(s) \in Seq(Mail) /\ Len(Tail(s)) = Len(s) - 1
        /\ \A i \in 1..(Len(s) - 1) : Tail(s)[i] = s[i + 1]
    OBVIOUS
  <2> QED BY <2>1
<1> HIDE DEF u, v
<1>3. u # <<>> /\ Head(u) = s[1]
  BY <1>1
<1>4. Tail(u) \in Seq(Mail) /\ Len(Tail(u)) = Len(v) /\ \A i \in 1..Len(v) : Tail(u)[i] = u[i + 1]
  BY <1>1, <1>2, <1>3
<1>5. ASSUME NEW i \in 1..Len(v) PROVE u[i + 1] = v[i]
  <2>1. CASE i \in 1..(Len(s) - 1)
    BY <1>1, <1>2, <2>1
  <2>2. CASE i \notin 1..(Len(s) - 1)
    <3>1. i - (Len(s) - 1) \in 1..Len(r) /\ i + 1 = Len(s) + (i - (Len(s) - 1))
          /\ i = Len(s) - 1 + (i - (Len(s) - 1))
      BY <1>1, <1>2, <2>2
    <3>2. v[Len(s) - 1 + (i - (Len(s) - 1))] = r[i - (Len(s) - 1)]
      BY <1>2, <3>1
    <3>3. u[Len(s) + (i - (Len(s) - 1))] = r[i - (Len(s) - 1)]
      BY <1>1, <3>1
    <3> QED BY <3>1, <3>2, <3>3
  <2> QED BY <2>1, <2>2
<1>6. Tail(u) = v
  BY <1>2, <1>4, <1>5
<1> QED BY <1>1, <1>3, <1>6 DEF u, v

\* The message that is handled.
LEMMA HandlesWaits ==
  ASSUME DataInv, NEW m, NEW box \in BOOLEAN, Handles(m, box)
  PROVE  /\ m \in Mail /\ Sent(m.of) /\ (Boxed' <=> Boxed \/ box)
         /\ \A n \in Messages' : n \in Messages
         /\ \A of : (Sent(of)' => Sent(of)) /\ (of # m.of => (Sent(of)' <=> Sent(of)))
<1> DEFINE t == [box |-> box, rest |-> Tail(Top.rest)]
           k == Len(ticks)
<1>1. /\ k \in Nat \ {0} /\ k \in 1..Len(ticks) /\ Top = ticks[k]
      /\ Top.rest \in Seq(Mail) /\ Top.rest # <<>> /\ m = Head(Top.rest) /\ ~Top.box
  BY TopBatch DEF Handles
<1>2. ticks' = [ticks EXCEPT ![k] = t] /\ queue' = queue
  BY DEF Handles
<1>3. m \in Mail /\ \A n : n \in ToSet(Top.rest) <=> n = m \/ n \in ToSet(Tail(Top.rest))
  BY <1>1, ToSetTail
<1>4. t.box = box /\ t.rest = Tail(Top.rest)
  OBVIOUS
<1> HIDE DEF t
<1>5. Len(ticks') = k /\ ticks'[k] = t /\ \A i \in 1..k : i # k => ticks'[i] = ticks[i]
  BY <1>1, <1>2 DEF DataInv
<1> HIDE DEF k
<1>6. /\ Messages = ToSet(queue) \cup {n : n \in UNION {ToSet(ticks[i].rest) : i \in 1..k}}
      /\ Messages' = ToSet(queue) \cup {n : n \in UNION {ToSet(ticks'[i].rest) : i \in 1..k}}
  BY <1>2, <1>5 DEF Messages, k
<1>7. m \in Messages /\ (\A n \in Messages' : n \in Messages)
      /\ \A n \in Messages : n = m \/ n \in Messages'
  <2>1. \A n : n \in Messages <=> n \in ToSet(queue) \/ \E i \in 1..k : n \in ToSet(ticks[i].rest)
    BY <1>6
  <2>2. \A n : n \in Messages' <=> n \in ToSet(queue) \/ \E i \in 1..k : n \in ToSet(ticks'[i].rest)
    BY <1>6
  <2>3. k \in 1..k
    BY <1>1 DEF k
  <2>4. \A n : n \in ToSet(ticks[k].rest) <=> n = m \/ n \in ToSet(ticks'[k].rest)
    BY <1>1, <1>3, <1>4, <1>5
  <2> QED BY <1>5, <2>1, <2>2, <2>3, <2>4
<1>8. Boxed' <=> Boxed \/ box
  <2>1. Boxed <=> \E i \in 1..k : i # k /\ ticks[i].box
    BY <1>1 DEF Boxed, k
  <2>2. Boxed' <=> box \/ \E i \in 1..k : i # k /\ ticks'[i].box
    <3>1. Boxed' <=> \E i \in 1..k : ticks'[i].box
      BY <1>5 DEF Boxed, k
    <3>2. k \in 1..k /\ ticks'[k].box = box
      BY <1>1, <1>4, <1>5 DEF k
    <3> QED BY <3>1, <3>2
  <2> QED BY <1>5, <2>1, <2>2
<1> QED BY <1>3, <1>7, <1>8 DEF Sent

LEMMA OneBatch ==
  ASSUME DataInv, BoxesNest, ~Boxed
  PROVE  /\ Len(ticks) \in Nat /\ (ticks # <<>> => Len(ticks) = 1 /\ Top = ticks[1])
         /\ (\A n : n \in Messages <=> n \in ToSet(Waiting)) /\ Waiting \in Seq(Mail)
<1>1. Len(ticks) \in Nat /\ (ticks # <<>> => Len(ticks) \in Nat \ {0})
  BY DEF DataInv
<1>2. ticks # <<>> => Len(ticks) = 1
  <2>1. ASSUME NEW n \in Nat \ {0}, n # 1 PROVE 1 \in 1..n /\ 1 < n
    BY <2>1
  <2>2. ticks # <<>> /\ Len(ticks) # 1 => 1 \in 1..Len(ticks) /\ 1 < Len(ticks)
    BY <1>1, <2>1
  <2> QED BY <2>2 DEF BoxesNest, Boxed
<1>4. CASE ticks = <<>>
  <2>1. Waiting = queue /\ queue \in Seq(Mail)
    BY <1>4 DEF Waiting, DataInv
  <2>2. Messages = ToSet(queue)
    BY <1>4 DEF Messages
  <2> QED BY <1>1, <1>4, <2>1, <2>2
<1>5. CASE ticks # <<>>
  <2>1. Waiting = Top.rest \o queue /\ Top.rest \in Seq(Mail) /\ queue \in Seq(Mail) /\ Top = ticks[1]
    BY <1>2, <1>5, TopBatch DEF Waiting, DataInv
  <2>2. \A n : n \in Messages <=> n \in ToSet(queue) \/ n \in ToSet(Top.rest)
    <3>1. \A n : n \in Messages <=> n \in ToSet(queue) \/ \E i \in 1..1 : n \in ToSet(ticks[i].rest)
      BY <1>2, <1>5 DEF Messages
    <3>2. \A i : i \in 1..1 <=> i = 1
      OBVIOUS
    <3> QED BY <2>1, <3>1, <3>2
  <2>3. \A n : n \in ToSet(Waiting) <=> n \in ToSet(Top.rest) \/ n \in ToSet(queue)
    BY ToSetConcat, <2>1
  <2> QED BY <1>1, <1>2, <2>1, <2>2, <2>3
<1> QED BY <1>4, <1>5

AllWaits == Waiting \in Seq(Mail) /\ \A n \in ToSet(Waiting) : n \in Messages
LEMMA AllInOneBatch == DataInv /\ BoxesNest /\ ~Boxed => AllWaits
  BY OneBatch DEF AllWaits
LEMMA AllInOneBatchNext == (DataInv /\ BoxesNest /\ ~Boxed => AllWaits)'
  BY AllInOneBatch, PTL

LEMMA HandlesOrdered ==
  ASSUME DataInv, BoxesNest, Queued, NEW m, NEW box \in BOOLEAN, Handles(m, box),
         DataInv', BoxesNest'
  PROVE  /\ Queued'
         /\ ~Boxed => \A n \in Messages' : Follows(m, n)
<1>1. CASE Boxed
  BY <1>1, HandlesWaits DEF Queued
<1>2. CASE ~Boxed
  <2> DEFINE t == [box |-> box, rest |-> Tail(Top.rest)]
  <2>1. /\ Len(ticks) = 1 /\ Top = ticks[1] /\ Top.rest \in Seq(Mail) /\ Top.rest # <<>>
        /\ m = Head(Top.rest) /\ ticks # <<>> /\ queue' = queue /\ ticks' = [ticks EXCEPT ![1] = t]
    BY <1>2, OneBatch, TopBatch DEF Handles
  <2>2. t.rest = Tail(Top.rest)
    OBVIOUS
  <2> HIDE DEF t
  <2>3. ticks' # <<>> /\ Len(ticks') = 1 /\ ticks'[1] = t
    BY <2>1 DEF DataInv
  <2>4. Waiting = Top.rest \o queue /\ Waiting' = Tail(Top.rest) \o queue
    BY <2>1, <2>2, <2>3 DEF Waiting, Top, Last
  <2>5. Waiting' = Tail(Waiting) /\ Waiting # <<>> /\ m = Head(Waiting) /\ Waiting \in Seq(Mail)
    BY <2>1, <2>4, TailConcat DEF DataInv
  <2>6. Ordered(Waiting') /\ \A n \in ToSet(Waiting') : Follows(m, n)
    BY <1>2, <2>5, OrderedTail DEF Queued
  <2>7. \A n \in Messages' : n \in ToSet(Waiting')
    <3>1. Messages' = ToSet(queue') \cup UNION {ToSet(ticks'[i].rest) : i \in 1..Len(ticks')}
      BY DEF Messages
    <3>2. \A n \in Messages' : n \in ToSet(queue) \/ n \in ToSet(Tail(Top.rest))
      BY <2>1, <2>2, <2>3, <3>1
    <3>3. \A n : n \in ToSet(Tail(Top.rest) \o queue) <=> n \in ToSet(Tail(Top.rest)) \/ n \in ToSet(queue)
      <4>1. Tail(Top.rest) \in Seq(Mail) /\ queue \in Seq(Mail)
        BY <2>1, ToSetTail DEF DataInv
      <4> QED BY <4>1, ToSetConcat
    <3> QED BY <2>4, <3>2, <3>3
  <2> QED BY <2>6, <2>7 DEF Queued
<1> QED BY <1>1, <1>2

\* The timer's batch, a box that closes, and a batch that ends change nothing of it.
Stays == /\ Boxed' => Boxed
         /\ \A of : Sent(of)' <=> Sent(of)

LEMMA BeginsStays ==
  ASSUME DataInv, BoxesNest, Queued, AtRest, Begins
  PROVE  Stays /\ Queued'
<1> DEFINE t == [box |-> FALSE, rest |-> queue]
<1>1. ticks' = Append(ticks, t) /\ queue' = <<>> /\ queue \in Seq(Mail) /\ Len(ticks) \in Nat
  BY DEF Begins, DataInv
<1>2. t.rest = queue /\ ~t.box
  OBVIOUS
<1> HIDE DEF t
<1>3. /\ Len(ticks') = Len(ticks) + 1 /\ ticks'[Len(ticks) + 1] = t
      /\ \A i \in 1..Len(ticks) : ticks'[i] = ticks[i]
  BY <1>1 DEF DataInv
<1>4. ToSet(<<>>) = {}
  BY DEF ToSet
<1>5. \A n : n \in Messages' <=> n \in Messages
  <2>1. \A i : i \in 1..(Len(ticks) + 1) <=> i \in 1..Len(ticks) \/ i = Len(ticks) + 1
    BY <1>1
  <2>2. \A n : n \in Messages' <=> \/ n \in ToSet(queue')
                                   \/ \E i \in 1..(Len(ticks) + 1) : n \in ToSet(ticks'[i].rest)
    BY <1>3 DEF Messages
  <2>3. \A n : n \in Messages <=> \/ n \in ToSet(queue)
                                  \/ \E i \in 1..Len(ticks) : n \in ToSet(ticks[i].rest)
    BY DEF Messages
  <2> QED BY <1>1, <1>2, <1>3, <1>4, <2>1, <2>2, <2>3
<1>6. Boxed' <=> Boxed
  BY <1>1, <1>2, <1>3 DEF Boxed
<1>7. Stays
  BY <1>5, <1>6 DEF Stays, Sent
<1>8. CASE Boxed
  BY <1>6, <1>7, <1>8 DEF Queued
<1>9. CASE ~Boxed
  <2>1. ticks = <<>>
    <3>1. ticks # <<>> => Top.box /\ Top = ticks[1] /\ Len(ticks) = 1
      BY <1>9, OneBatch DEF AtRest
    <3> QED BY <1>9, <3>1 DEF Boxed
  <2>2. ticks' # <<>> /\ Top' = t
    BY <1>1, <1>3, <2>1 DEF Top, Last
  <2>3. Waiting = queue /\ Waiting' = queue
    BY <1>1, <1>2, <2>1, <2>2 DEF Waiting
  <2> QED BY <1>7, <1>9, <2>3 DEF Queued
<1> QED BY <1>8, <1>9

LEMMA ClosesStays ==
  ASSUME DataInv, DataInv', BoxesNest', Closes
  PROVE  /\ Stays
         /\ (\A n \in Messages : n.of \notin Commands \cup {"active"}) => Queued'
<1> DEFINE k == Len(ticks)
<1>1. PICK t \in Batches : ~t.box /\ t.rest = Top.rest /\ ticks' = [ticks EXCEPT ![k] = t]
  BY DEF Closes
<1>2. queue' = queue /\ k \in 1..Len(ticks) /\ Top = ticks[k] /\ k \in Nat
  BY TopBatch DEF Closes
<1>3. Len(ticks') = Len(ticks) /\ ticks'[k] = t /\ \A i \in 1..Len(ticks) : i # k => ticks'[i] = ticks[i]
  BY <1>1, <1>2 DEF DataInv
<1> HIDE DEF k
<1>4. \A i \in 1..Len(ticks) : ticks'[i].rest = ticks[i].rest /\ (ticks'[i].box => ticks[i].box)
  BY <1>1, <1>2, <1>3
<1>5. \A n : n \in Messages' <=> n \in Messages
  BY <1>2, <1>3, <1>4 DEF Messages
<1>6. Boxed' => Boxed
  BY <1>3, <1>4 DEF Boxed
<1>7. Stays
  BY <1>5, <1>6 DEF Stays, Sent
<1>8. ASSUME \A n \in Messages : n.of \notin Commands \cup {"active"}, ~Boxed' PROVE Ordered(Waiting)'
  <2>1. Waiting' \in Seq(Mail) /\ \A n : n \in ToSet(Waiting') => n \in Messages'
    BY <1>8, AllInOneBatchNext DEF AllWaits
  <2>2. \A i \in 1..Len(Waiting') : Waiting'[i] \in ToSet(Waiting')
    BY <2>1 DEF ToSet
  <2>3. \A i \in 1..Len(Waiting') : Waiting'[i].of \notin Commands /\ Waiting'[i].of # "active"
    BY <1>5, <1>8, <2>1, <2>2
  <2>4. {"configure", "start"} \subseteq Commands
    BY DEF Commands
  <2> QED BY <2>3, <2>4 DEF Ordered, Follows
<1> QED BY <1>7, <1>8 DEF Queued

LEMMA EndsStays ==
  ASSUME DataInv, BoxesNest, Queued, Ends
  PROVE  Stays /\ Queued'
<1>1. /\ Len(ticks) \in Nat \ {0} /\ ticks # <<>> /\ Top = ticks[Len(ticks)] /\ ~Top.box
      /\ Top.rest = <<>> /\ queue' = queue /\ ticks' = [i \in 1..(Len(ticks) - 1) |-> ticks[i]]
  BY TopBatch DEF Ends, Front
<1>2. Len(ticks') = Len(ticks) - 1 /\ \A i \in 1..(Len(ticks) - 1) : ticks'[i] = ticks[i]
  BY <1>1
<1>3. /\ Len(ticks) \in 1..Len(ticks)
      /\ \A i : i \in 1..Len(ticks) <=> i \in 1..(Len(ticks) - 1) \/ i = Len(ticks)
  BY <1>1
<1>4. ToSet(<<>>) = {}
  BY DEF ToSet
<1>5. \A n : n \in Messages' <=> n \in Messages
  <2>1. \A n : n \in Messages' <=> \/ n \in ToSet(queue')
                                   \/ \E i \in 1..(Len(ticks) - 1) : n \in ToSet(ticks'[i].rest)
    BY <1>2 DEF Messages
  <2>2. \A n : n \in Messages <=> \/ n \in ToSet(queue)
                                  \/ \E i \in 1..Len(ticks) : n \in ToSet(ticks[i].rest)
    BY DEF Messages
  <2> QED BY <1>1, <1>2, <1>3, <1>4, <2>1, <2>2
<1>6. Boxed' <=> Boxed
  <2>1. Boxed' <=> \E i \in 1..(Len(ticks) - 1) : ticks'[i].box
    BY <1>2 DEF Boxed
  <2>2. Boxed <=> \E i \in 1..(Len(ticks) - 1) : ticks[i].box
    BY <1>1, <1>3 DEF Boxed
  <2> QED BY <1>2, <2>1, <2>2
<1>7. Stays
  BY <1>5, <1>6 DEF Stays, Sent
<1>8. CASE Boxed
  BY <1>6, <1>7, <1>8 DEF Queued
<1>9. CASE ~Boxed
  <2>1. Len(ticks) = 1
    BY <1>1, <1>9, OneBatch
  <2>2. ticks' = <<>>
    BY <1>1, <2>1
  <2>3. Waiting = queue /\ Waiting' = queue
    BY <1>1, <2>2 DEF Waiting, DataInv
  <2> QED BY <1>7, <1>9, <2>3 DEF Queued
<1> QED BY <1>8, <1>9

(***************************************************************************)
(* What holds for a user who waits for the command in hand.                *)
(***************************************************************************)
Idle == \A c \in Commands : jobs[c] = 0
\* From the start of its helper until its answer is handled.
InHand(c) == jobs[c] > 0 \/ Sent(c)
Busy == \E c \in Commands : InHand(c)
Opening == thread \in {"handshake", "open"}
Flagged == starting \/ active

\* One helper at work at most, and none while an answer waits.
OneCommand ==
  /\ \E c \in Commands : jobs[c] <= 1 /\ \A d \in Commands \ {c} : jobs[d] = 0
  /\ Idle \/ \A c \in Commands : ~Sent(c)

\* When the main thread joins a thread or shows a box, no command is in hand.
WaitInv ==
  /\ joins # "no" => ~Boxed /\ ~Busy
  /\ Boxed => ~Busy
  /\ (Busy \/ Boxed) /\ video => ~Owns
  /\ (stopping => InHand("stop")) /\ ~again

StreamInv ==
  /\ running => joins = "no" /\ video /\ Flagged /\ ~ThreadEnded /\ (Opening => starting)
  /\ joins = "no" /\ ~running => ThreadEnded
  /\ joins = "no" /\ Flagged => running \/ Sent("lost") \/ closed
  /\ closed => joins = "no" /\ video /\ Flagged /\ ~running /\ ThreadEnded /\ ~Sent("lost")
  /\ joins = "start" => starting /\ video /\ ThreadEnded /\ ~Sent("lost")
  /\ joins \in {"disable", "dock"} => ~Flagged
  /\ Sent("lost") => ThreadEnded
  /\ Sent("active") => Flagged /\ ~Opening /\ joins = "no"
  /\ Busy \/ Boxed => ~starting /\ ~Sent("active")
  /\ InHand("configure") \/ InHand("start") => video /\ ThreadEnded /\ ~closed

OffInv ==
  /\ joins = "disable" => ~video
  /\ ~video /\ encoding => stopLost \/ jobs["stop"] > 0 \/ joins = "disable"

WorkInv == Queued /\ OneCommand /\ WaitInv /\ StreamInv /\ OffInv

LEMMA WorkInit == Init => WorkInv
<1> SUFFICES ASSUME Init PROVE WorkInv
  OBVIOUS
<1>1. queue = <<>> /\ ticks = <<>> /\ (\A c \in Commands : jobs[c] = 0) /\ joins = "no"
  BY DEF Init
<1>2. Messages = {} /\ Waiting = <<>> /\ ~Boxed
  BY <1>1 DEF Messages, Waiting, ToSet, Boxed
<1>3. (\A of : ~Sent(of)) /\ Queued
  BY <1>2 DEF Sent, Queued, Ordered
<1>4. OneCommand /\ ~Busy /\ \A c \in Commands : ~InHand(c)
  BY <1>1, <1>3 DEF OneCommand, Idle, Busy, InHand, Commands
<1>5. {"configure", "start", "stop"} \subseteq Commands
  BY DEF Commands
<1>6. WaitInv
  BY <1>1, <1>2, <1>4 DEF Init, WaitInv
<1>7. StreamInv
  BY <1>2, <1>3, <1>4, <1>5 DEF Init, StreamInv, Flagged, ThreadEnded
<1>8. OffInv
  BY DEF Init, OffInv
<1> QED BY <1>3, <1>4, <1>6, <1>7, <1>8 DEF WorkInv

(***************************************************************************)
(* Steps and the command in hand.                                          *)
(***************************************************************************)
HandKept ==
  (\A c \in Commands : InHand(c)' <=> InHand(c)) /\ (Busy' <=> Busy) /\ OneCommand'

LEMMA KeepsHand ==
  ASSUME OneCommand, jobs' = jobs, \A c \in Commands : Sent(c)' <=> Sent(c)
  PROVE  HandKept
<1>1. \A c \in Commands : InHand(c)' <=> InHand(c)
  BY DEF InHand
<1>2. Busy' <=> Busy
  BY <1>1 DEF Busy
<1>3. OneCommand'
  BY DEF OneCommand, Idle
<1> QED BY <1>1, <1>2, <1>3 DEF HandKept

LEMMA NoMail ==
  ASSUME UNCHANGED <<queue, ticks>>
  PROVE  (Boxed' <=> Boxed) /\ (Queued' <=> Queued) /\ (\A of : Sent(of)' <=> Sent(of))
<1>1. Messages' = Messages /\ (Boxed' <=> Boxed) /\ Waiting' = Waiting
  BY DEF Messages, Boxed, Waiting, Top
<1>2. Queued' <=> Queued
  BY <1>1 DEF Queued
<1> QED BY <1>1, <1>2 DEF Sent

\* A helper starts while nothing waits for one.
LEMMA Launches ==
  ASSUME jobs \in [Commands -> Nat], Idle, NEW c \in Commands, Launch(c),
         \A d \in Commands : ~Sent(d)'
  PROVE  OneCommand' /\ Busy' /\ \A d \in Commands : InHand(d)' <=> d = c
<1>1. jobs'[c] = 1 /\ \A d \in Commands \ {c} : jobs'[d] = 0
  BY DEF Launch, Idle
<1>2. \A d \in Commands : InHand(d)' <=> d = c
  BY <1>1 DEF InHand
<1>3. OneCommand'
  BY <1>1 DEF OneCommand
<1> QED BY <1>2, <1>3 DEF Busy

LEMMA NothingInHand ==
  ASSUME Idle, jobs' = jobs, \A d \in Commands : ~Sent(d)'
  PROVE  OneCommand' /\ ~Busy' /\ \A d \in Commands : ~InHand(d)'
<1>1. \A d \in Commands : jobs'[d] = 0
  BY DEF Idle
<1>2. Idle' /\ \A d \in Commands : ~InHand(d)'
  BY <1>1 DEF Idle, InHand
<1>3. Commands # {} /\ OneCommand'
  <2>1. "stop" \in Commands
    BY DEF Commands
  <2> QED BY <1>1, <1>2, <2>1 DEF OneCommand
<1> QED BY <1>2, <1>3 DEF Busy

\* The answer of a command: nothing else is in hand then.
LEMMA Answers ==
  ASSUME TypeInv, TypeInv', WorkInv, NEW m, NEW box \in BOOLEAN, Handles(m, box), m.of \in Commands
  PROVE  /\ Idle /\ Busy /\ ~Boxed /\ joins = "no" /\ (Boxed' <=> box) /\ Queued'
         /\ InHand(m.of) /\ \A d \in Commands : ~Sent(d)' /\ (d # m.of => ~InHand(d))
         /\ (Sent("lost")' <=> Sent("lost")) /\ (Sent("active")' <=> Sent("active"))
         /\ m.of \in {"configure", "start"} => ~Sent("lost")
<1>1. /\ m \in Mail /\ Sent(m.of) /\ (Boxed' <=> Boxed \/ box)
      /\ \A of : (Sent(of)' => Sent(of)) /\ (of # m.of => (Sent(of)' <=> Sent(of)))
  BY HandlesWaits DEF TypeInv
<1>2. Busy /\ Idle /\ ~Boxed /\ joins = "no"
  BY <1>1 DEF Busy, InHand, WorkInv, OneCommand, WaitInv
<1>3. Queued' /\ \A n \in Messages' : Follows(m, n)
  BY <1>2, HandlesOrdered DEF TypeInv, WorkInv
<1>4. (\A d \in Commands : ~Sent(d)') /\ (m.of \in {"configure", "start"} => ~Sent("lost")')
  BY <1>3 DEF Follows, Sent
<1>5. "lost" \notin Commands /\ "active" \notin Commands
  BY DEF Commands
<1>6. \A d \in Commands : d # m.of => ~InHand(d)
  BY <1>1, <1>2, <1>4 DEF InHand, Idle
<1> QED BY <1>1, <1>2, <1>3, <1>4, <1>5, <1>6 DEF InHand

\* A notice or a picture.
LEMMA Notices ==
  ASSUME TypeInv, TypeInv', WorkInv, NEW m, Handles(m, FALSE), m.of \notin Commands, jobs' = jobs
  PROVE  /\ Sent(m.of) /\ (Boxed' <=> Boxed) /\ Queued' /\ HandKept
         /\ \A of : (Sent(of)' => Sent(of)) /\ (of # m.of => (Sent(of)' <=> Sent(of)))
         /\ m.of = "lost" => ~Sent("active")'
<1>1. /\ m \in Mail /\ Sent(m.of) /\ (Boxed' <=> Boxed)
      /\ \A of : (Sent(of)' => Sent(of)) /\ (of # m.of => (Sent(of)' <=> Sent(of)))
  BY HandlesWaits DEF TypeInv
<1>2. Queued' /\ (~Boxed => \A n \in Messages' : Follows(m, n))
  BY HandlesOrdered DEF TypeInv, WorkInv
<1>3. HandKept
  BY <1>1, KeepsHand DEF WorkInv
<1>4. m.of = "lost" => ~Sent("active")'
  <2>1. CASE Boxed
    BY <1>1, <2>1 DEF WorkInv, StreamInv
  <2>2. CASE ~Boxed
    BY <1>2, <2>2 DEF Follows, Sent
  <2> QED BY <2>1, <2>2
<1> QED BY <1>1, <1>2, <1>3, <1>4

LEMMA SomeCommands ==
  /\ {"configure", "start", "stop", "profile", "pair"} \subseteq Commands
  /\ "lost" \notin Commands /\ "active" \notin Commands /\ "unit" \notin Commands
  /\ "frame" \notin Commands /\ "playback" \notin Commands
  BY DEF Commands

\* When the user acts nothing is in hand, and the flags tell whether a stream runs.
LEMMA QuietMeans ==
  ASSUME TypeInv, WorkInv, Quiet
  PROVE  /\ Idle /\ ~Busy /\ ~Boxed /\ joins = "no" /\ ~stopping /\ thread # "handshake"
         /\ ~Sent("lost") /\ ~Sent("active") /\ (running \/ closed <=> Flagged) /\ (~running => ThreadEnded)
         /\ \A c \in Commands : ~Sent(c)
<1>1. /\ Idle /\ joins = "no" /\ thread # "handshake" /\ ticks = <<>>
      /\ \A of : Sent(of) => of \in Pictures
  BY DEF Quiet, Idle, Sent
<1>2. ~Boxed /\ ~Sent("lost") /\ ~Sent("active") /\ \A c \in Commands : ~Sent(c)
  BY <1>1 DEF Boxed, Pictures, Commands
<1>3. (\A c \in Commands : ~InHand(c)) /\ ~Busy
  BY <1>1, <1>2 DEF InHand, Busy, Idle
<1>4. ~stopping
  BY <1>3, SomeCommands DEF WorkInv, WaitInv
<1>5. (running \/ closed <=> Flagged) /\ (~running => ThreadEnded)
  BY <1>1, <1>2 DEF WorkInv, StreamInv
<1> QED BY <1>1, <1>2, <1>3, <1>4, <1>5

\* Live preview may start one helper, unless a stream or a command is there.
LEMMA LiveLaunches ==
  ASSUME jobs \in [Commands -> Nat], Idle, ~stopping, NEW pic, NEW note, StartLive(pic, note),
         \A d \in Commands : ~Sent(d)'
  PROVE  /\ OneCommand' /\ (again' <=> again) /\ mode' = "live"
         /\ \/ ~Busy' /\ \A d \in Commands : ~InHand(d)'
            \/ ~Flagged /\ Busy' /\ \A d \in Commands : InHand(d)' <=> d = "configure"
<1>1. mode' = "live" /\ (again' <=> again) /\ Configure(pic, note)
  BY DEF StartLive
<1>2. CASE ~paired \/ starting \/ active \/ inFlight
  <2>1. jobs' = jobs
    BY <1>1, <1>2 DEF Configure, NoLaunch
  <2> QED BY <1>1, <2>1, NothingInHand
<1>3. CASE ~(~paired \/ starting \/ active \/ inFlight)
  <2>1. Launch("configure") /\ ~Flagged
    BY <1>1, <1>3 DEF Configure, Flagged
  <2>2. OneCommand' /\ Busy' /\ \A d \in Commands : InHand(d)' <=> d = "configure"
    BY <2>1, Launches, SomeCommands
  <2> QED BY <1>1, <2>1, <2>2
<1> QED BY <1>2, <1>3

LEMMA StartLaunches ==
  ASSUME jobs \in [Commands -> Nat], Idle, ~stopping, NEW m, NEW pic, NEW note,
         StartRemotePreview(m, pic, note), \A d \in Commands : ~Sent(d)',
         UNCHANGED <<playing, hit, transport>>
  PROVE  /\ OneCommand' /\ (again' <=> again)
         /\ \/ ~Busy' /\ \A d \in Commands : ~InHand(d)'
            \/ ~Flagged /\ ~Owns' /\ Busy' /\ \A d \in Commands : InHand(d)' <=> d = "configure"
<1>1. CASE Owns
  <2>1. UNCHANGED launch
    BY <1>1 DEF StartRemotePreview
  <2>2. jobs' = jobs /\ (again' <=> again)
    BY <2>1 DEF launch
  <2> QED BY <2>2, NothingInHand
<1>2. CASE ~Owns
  <2>1. StartLive(pic, note)
    BY <1>2 DEF StartRemotePreview
  <2>2. mode' = "live" => ~Owns'
    BY <1>2 DEF Owns, Showing
  <2> QED BY <2>1, <2>2, LiveLaunches
<1> QED BY <1>1, <1>2

LEMMA UserWorks ==
  ASSUME TypeInv, WorkInv, Patient, User
  PROVE  WorkInv'
<1>1. /\ Act /\ Quiet /\ UNCHANGED <<queue, ticks, phone>>
      /\ (EnableVideo \/ ToggleFollow \/ ToggleDock \/ (\E c \in {"profile", "pair"} : Request(c)) => ~Owns)
  BY DEF User, EnableVideo, DisableVideo, ToggleFollow, ToggleDock, Request, MoveTransport, Act,
         OutOfPlayback
<1>2. /\ Idle /\ ~Busy /\ ~Boxed /\ joins = "no" /\ ~stopping /\ thread # "handshake"
      /\ ~Sent("lost") /\ ~Sent("active") /\ (running \/ closed <=> Flagged) /\ (~running => ThreadEnded)
      /\ \A c \in Commands : ~Sent(c)
  BY <1>1, QuietMeans
<1>3. /\ (Boxed' <=> Boxed) /\ Queued' /\ ~Sent("lost")' /\ ~Sent("active")'
      /\ \A c \in Commands : ~Sent(c)'
  BY <1>1, <1>2, NoMail DEF WorkInv
<1>4. jobs \in [Commands -> Nat] /\ encoding' = encoding /\ stopLost' = stopLost
  BY <1>1 DEF TypeInv, DataInv, phone
<1>5. /\ ~again /\ (running => video /\ Flagged /\ ~ThreadEnded /\ (Opening => starting))
      /\ (closed => video /\ Flagged /\ ~running /\ ThreadEnded)
      /\ (~video /\ encoding => stopLost)
  BY <1>2 DEF WorkInv, WaitInv, StreamInv, OffInv, Idle, Commands
<1>6. ASSUME jobs' = jobs PROVE OneCommand' /\ ~Busy' /\ \A d \in Commands : ~InHand(d)'
  BY <1>2, <1>3, <1>6, NothingInHand
<1>7. CASE ToggleFollow \/ \E to \in {"stopped", "playing", "recording"} : MoveTransport(to)
  <2>1. UNCHANGED <<video, starting, active, joins, again, stopping, running, closed, thread, jobs>>
    BY <1>7 DEF ToggleFollow, MoveTransport, flags, launch
  <2>2. WaitInv'
    BY <1>2, <1>3, <1>5, <1>6, <2>1 DEF WaitInv
  <2>3. StreamInv'
    BY <1>2, <1>3, <1>5, <1>6, <2>1, SomeCommands DEF StreamInv, Flagged, Opening, ThreadEnded
  <2>4. OffInv'
    BY <1>2, <1>4, <1>5, <2>1 DEF OffInv
  <2> QED BY <1>3, <1>6, <2>1, <2>2, <2>3, <2>4 DEF WorkInv
<1>8. CASE DisableVideo
  <2>1. /\ UNCHANGED <<again, stopping, thread, jobs>> /\ ~video' /\ joins' = "disable"
        /\ ~running' /\ ~closed' /\ ~starting' /\ ~active'
    BY <1>8 DEF DisableVideo, StopStream, launch
  <2>2. WaitInv'
    BY <1>2, <1>3, <1>5, <1>6, <2>1 DEF WaitInv
  <2>3. StreamInv'
    BY <1>2, <1>3, <1>6, <2>1, SomeCommands DEF StreamInv, Flagged, Opening, ThreadEnded
  <2>4. OffInv'
    BY <2>1 DEF OffInv
  <2> QED BY <1>3, <1>6, <2>1, <2>2, <2>3, <2>4 DEF WorkInv
<1>9. CASE ToggleDock
  <2>1. /\ UNCHANGED <<video, again, stopping, thread, jobs>> /\ joins' = "dock"
        /\ ~running' /\ ~closed' /\ ~starting' /\ ~active'
    BY <1>9 DEF ToggleDock, StopStream, launch
  <2>2. WaitInv'
    BY <1>2, <1>3, <1>5, <1>6, <2>1 DEF WaitInv
  <2>3. StreamInv'
    BY <1>2, <1>3, <1>6, <2>1, SomeCommands DEF StreamInv, Flagged, Opening, ThreadEnded
  <2>4. OffInv'
    BY <1>2, <1>4, <1>5, <2>1 DEF OffInv
  <2> QED BY <1>3, <1>6, <2>1, <2>2, <2>3, <2>4 DEF WorkInv
<1>10. ASSUME NEW c \in {"profile", "pair"}, Request(c) PROVE WorkInv'
  <2>1. /\ UNCHANGED <<video, starting, active, joins, again, stopping, running, closed, thread, hits,
                       transport, mode>>
        /\ ~starting /\ Launch(c) /\ c \in Commands /\ ~Owns
    BY <1>1, <1>10, SomeCommands DEF Request, flags, view
  <2>2. OneCommand' /\ Busy' /\ \A d \in Commands : InHand(d)' <=> d = c
    BY <1>2, <1>3, <1>4, <2>1, Launches
  <2>3. ~InHand("configure")' /\ ~InHand("start")'
    BY <2>2, SomeCommands
  <2>4. ~Owns'
    BY <2>1 DEF Owns, Showing, hits
  <2>5. WaitInv'
    BY <1>2, <1>3, <1>5, <2>1, <2>4 DEF WaitInv
  <2>6. StreamInv'
    BY <1>2, <1>3, <1>5, <2>1, <2>3 DEF StreamInv, Flagged, Opening, ThreadEnded
  <2>7. OffInv'
    BY <1>2, <1>4, <1>5, <2>1 DEF OffInv
  <2> QED BY <1>3, <2>2, <2>5, <2>6, <2>7 DEF WorkInv
<1>11. CASE EnableVideo
  <2>1. /\ UNCHANGED <<starting, active, joins, stopping, running, closed, thread, playing, hit, transport>>
        /\ video' /\ ~video /\ StartRemotePreview(mode, picture, FALSE)
    BY <1>11 DEF EnableVideo, flags, hits
  <2>2. ~running /\ ~closed /\ ~Flagged /\ ThreadEnded
    BY <1>2, <1>5, <2>1
  <2>3. /\ OneCommand' /\ (again' <=> again)
        /\ \/ ~Busy' /\ \A d \in Commands : ~InHand(d)'
           \/ ~Flagged /\ ~Owns' /\ Busy' /\ \A d \in Commands : InHand(d)' <=> d = "configure"
    BY <1>2, <1>3, <1>4, <2>1, StartLaunches
  <2>4. WaitInv'
    BY <1>2, <1>3, <1>5, <2>1, <2>3 DEF WaitInv
  <2>5. StreamInv'
    BY <1>2, <1>3, <1>5, <2>1, <2>2, <2>3, SomeCommands DEF StreamInv, Flagged, Opening, ThreadEnded
  <2>6. OffInv'
    BY <1>2, <2>1 DEF OffInv
  <2> QED BY <1>3, <2>3, <2>4, <2>5, <2>6 DEF WorkInv
<1> QED BY <1>7, <1>8, <1>9, <1>10, <1>11 DEF User

\* A notice or a picture that is posted.
LEMMA Reports ==
  ASSUME TypeInv, WorkInv, NEW m \in Mail, Posts(m), jobs' = jobs,
         \/ m.of \in Pictures
         \/ m.of = "lost" /\ ~InHand("configure") /\ ~InHand("start")
         \/ m.of = "active" /\ ~Sent("lost")
  PROVE  /\ (Boxed' <=> Boxed) /\ Queued' /\ HandKept
         /\ \A of : Sent(of)' <=> Sent(of) \/ m.of = of
<1>1. (Boxed' <=> Boxed) /\ \A of : Sent(of)' <=> Sent(of) \/ m.of = of
  BY PostsWaits DEF TypeInv
<1>2. m.of \notin Commands
  BY SomeCommands DEF Pictures, Commands
<1>3. \A n \in Messages : Follows(n, m)
  <2>1. CASE m.of \in Pictures
    BY <2>1, <1>2 DEF Follows, Pictures
  <2>2. CASE m.of = "lost" /\ ~InHand("configure") /\ ~InHand("start")
    BY <2>2, <1>2 DEF Follows, InHand, Sent
  <2>3. CASE m.of = "active" /\ ~Sent("lost")
    BY <2>3, <1>2 DEF Follows, Sent
  <2> QED BY <2>1, <2>2, <2>3
<1>4. Queued'
  BY <1>3, PostsOrdered DEF TypeInv, WorkInv
<1>5. HandKept
  BY <1>1, <1>2, KeepsHand DEF WorkInv
<1> QED BY <1>1, <1>4, <1>5

\* Or nothing is posted.
LEMMA Silent ==
  ASSUME WorkInv, UNCHANGED <<queue, ticks, jobs>>
  PROVE  (Boxed' <=> Boxed) /\ Queued' /\ HandKept /\ \A of : Sent(of)' <=> Sent(of)
<1>1. (Boxed' <=> Boxed) /\ Queued' /\ \A of : Sent(of)' <=> Sent(of)
  BY NoMail DEF WorkInv
<1> QED BY <1>1, KeepsHand DEF WorkInv

LEMMA JobWorks ==
  ASSUME TypeInv, WorkInv, NEW c \in Commands, NEW arrives \in BOOLEAN, NEW res \in Results,
         JobEnds(c, arrives, res)
  PROVE  WorkInv'
<1> DEFINE m == Msg(c, res)
<1>1. /\ m \in Mail /\ m.of = c /\ Posts(m) /\ jobs[c] > 0 /\ jobs' = [jobs EXCEPT ![c] = @ - 1]
      /\ UNCHANGED <<video, starting, active, joins, again, stopping, running, closed, thread, mode, playing,
                     hit, transport>>
  <2>1. m \in Mail /\ m.of = c
    BY DEF Msg, Mail, Senders
  <2>2. /\ jobs[c] > 0 /\ jobs' = [jobs EXCEPT ![c] = @ - 1] /\ Post(<<m>>) /\ ticks' = ticks
        /\ UNCHANGED <<running, closed, thread, user, view, hits, flags, again, stopping, joins>>
    BY DEF JobEnds, OffMain
  <2> HIDE DEF m
  <2>3. Posts(m)
    BY <2>1, <2>2, PostsOne DEF Posts, TypeInv
  <2> QED BY <2>1, <2>2, <2>3 DEF user, view, hits, flags
<1> HIDE DEF m
<1>2. jobs \in [Commands -> Nat] /\ InHand(c) /\ Busy /\ ~Boxed /\ joins = "no"
  BY <1>1 DEF TypeInv, DataInv, InHand, Busy, WorkInv, WaitInv
<1>3. /\ (Boxed' <=> Boxed) /\ \A of : Sent(of)' <=> Sent(of) \/ c = of
  BY <1>1, PostsWaits DEF TypeInv
<1>4. (\A d \in Commands : ~Sent(d)) /\ ~Idle
  BY <1>1, <1>2 DEF WorkInv, OneCommand, Idle
<1>5. jobs[c] = 1 /\ \A d \in Commands \ {c} : jobs[d] = 0
  BY <1>1, <1>2 DEF WorkInv, OneCommand
<1>6. \A d \in Commands : jobs'[d] = 0
  BY <1>1, <1>2, <1>5
<1>7. Queued'
  <2>1. \A n \in Messages : Follows(n, m)
    BY <1>1, <1>4, SomeCommands DEF Follows, Sent
  <2> QED BY <1>1, <2>1, PostsOrdered DEF TypeInv, WorkInv
<1>8. OneCommand'
  BY <1>6 DEF OneCommand, Idle
<1>9. (\A d \in Commands : InHand(d)' <=> InHand(d)) /\ (Busy' <=> Busy)
  <2>1. \A d \in Commands : InHand(d)' <=> InHand(d)
    BY <1>1, <1>3, <1>4, <1>5, <1>6 DEF InHand
  <2> QED BY <2>1 DEF Busy
<1>10. (Sent("lost")' <=> Sent("lost")) /\ (Sent("active")' <=> Sent("active"))
  BY <1>3, SomeCommands
<1>11. WaitInv'
  <2>1. Owns' <=> Owns
    BY <1>1 DEF Owns, Showing
  <2> QED BY <1>1, <1>3, <1>9, <2>1, SomeCommands DEF WorkInv, WaitInv
<1>12. StreamInv'
  BY <1>1, <1>3, <1>9, <1>10, SomeCommands DEF WorkInv, StreamInv, Flagged, Opening, ThreadEnded
<1>13. OffInv'
  <2>1. CASE c = "start"
    <3>1. video
      BY <1>2, <2>1 DEF WorkInv, StreamInv
    <3> QED BY <1>1, <1>2, <3>1 DEF OffInv
  <2>2. CASE c = "stop"
    <3>1. encoding' => stopLost'
      BY <2>2 DEF JobEnds, WorkInv, OffInv
    <3> QED BY <1>1, <1>2, <3>1 DEF OffInv
  <2>3. CASE c \notin {"start", "stop"}
    <3>1. encoding' = encoding /\ stopLost' = stopLost /\ jobs["stop"] = 0
      BY <1>5, <2>3, SomeCommands DEF JobEnds
    <3> QED BY <1>1, <1>2, <3>1 DEF OffInv, WorkInv
  <2> QED BY <2>1, <2>2, <2>3
<1> QED BY <1>7, <1>8, <1>11, <1>12, <1>13 DEF WorkInv

\* What the threads leave alone.
Untouched == UNCHANGED <<video, starting, active, joins, again, stopping, mode, playing, hit,
                         transport, ticks>>

LEMMA WaitKept ==
  ASSUME WaitInv, Untouched, HandKept, Boxed' <=> Boxed
  PROVE  WaitInv'
<1>1. Owns' <=> Owns
  BY DEF Untouched, Owns, Showing
<1> QED BY <1>1, SomeCommands DEF WaitInv, Untouched, HandKept

LEMMA ReceiveWorks ==
  ASSUME TypeInv, WorkInv, ReceiveLoop \/ PlaybackFrame
  PROVE  WorkInv'
<1>1. Untouched /\ jobs' = jobs
  BY DEF ReceiveLoop, PlaybackFrame, HandshakeEnds, StreamEnds, Decodes, FeedBegins, FeedEnds, OffMain,
         Untouched, user, view, hits, flags
<1>2. encoding' = encoding /\ stopLost' = stopLost
  BY DEF ReceiveLoop, PlaybackFrame, HandshakeEnds, StreamEnds, Decodes, FeedBegins, FeedEnds, phone
<1>3. OffInv'
  BY <1>1, <1>2 DEF WorkInv, OffInv, Untouched
<1>4. \A of \in {"lost", "active", "unit", "frame", "playback"}, res \in Results :
         Msg(of, res) \in Mail /\ Msg(of, res).of = of
  BY DEF Msg, Mail, Senders, Pictures
<1>5. "ok" \in Results /\ "failed" \in Results
  BY DEF Results
<1>6. ASSUME Post(<<>>) PROVE (Boxed' <=> Boxed) /\ Queued' /\ HandKept /\ \A of : Sent(of)' <=> Sent(of)
  BY <1>1, <1>6, Silent, PostsNone DEF TypeInv, Untouched
<1>7. ASSUME NEW m \in Mail, Post(<<m>>),
             \/ m.of \in Pictures
             \/ m.of = "lost" /\ ~InHand("configure") /\ ~InHand("start")
             \/ m.of = "active" /\ ~Sent("lost")
      PROVE  /\ (Boxed' <=> Boxed) /\ Queued' /\ HandKept
             /\ \A of : Sent(of)' <=> Sent(of) \/ m.of = of
  <2>1. Posts(m)
    BY <1>1, <1>7, PostsOne DEF Posts, TypeInv, Untouched
  <2> QED BY <1>1, <1>7, <2>1, Reports
<1>8. ASSUME Queued', HandKept, Boxed' <=> Boxed, StreamInv' PROVE WorkInv'
  BY <1>1, <1>3, <1>8, WaitKept DEF WorkInv, HandKept
<1>9. ASSUME NEW ok \in BOOLEAN, HandshakeEnds(ok) PROVE WorkInv'
  <2>1. thread = "handshake" /\ ~ThreadEnded /\ Opening /\ ~Sent("lost") /\ ~Sent("active")
        /\ ~InHand("configure") /\ ~InHand("start")
    BY <1>9 DEF HandshakeEnds, ThreadEnded, Opening, WorkInv, StreamInv
  <2>2. CASE ok
    <3>1. thread' = (IF running THEN "open" ELSE "ended") /\ (running' <=> running) /\ closed' = closed /\ Post(<<>>)
      BY <1>9, <2>2 DEF HandshakeEnds
    <3>2. (Boxed' <=> Boxed) /\ Queued' /\ HandKept /\ \A of : Sent(of)' <=> Sent(of)
      BY <1>6, <3>1
    <3>3. StreamInv'
      BY <1>1, <2>1, <3>1, <3>2, SomeCommands
         DEF WorkInv, StreamInv, HandKept, Untouched, Flagged, Opening, ThreadEnded
    <3> QED BY <1>8, <3>2, <3>3
  <2>3. CASE ~ok
    <3>1. thread' = "ended" /\ ~running' /\ closed' = closed /\ Post(<<Msg("lost", "failed")>>)
      BY <1>9, <2>3 DEF HandshakeEnds
    <3>2. /\ (Boxed' <=> Boxed) /\ Queued' /\ HandKept
          /\ \A of : Sent(of)' <=> Sent(of) \/ "lost" = of
      BY <1>4, <1>5, <1>7, <2>1, <3>1
    <3>3. StreamInv'
      BY <1>1, <2>1, <3>1, <3>2, SomeCommands
         DEF WorkInv, StreamInv, HandKept, Untouched, Flagged, Opening, ThreadEnded
    <3> QED BY <1>8, <3>2, <3>3
  <2> QED BY <2>2, <2>3
<1>10. ASSUME NEW reports \in BOOLEAN, StreamEnds(reports) PROVE WorkInv'
  <2>1. /\ thread \in {"open", "live"} /\ ~ThreadEnded /\ ~Sent("lost")
        /\ ~InHand("configure") /\ ~InHand("start") /\ thread' = "ended" /\ ~running'
        /\ (closed' <=> running /\ ~reports)
    BY <1>10 DEF StreamEnds, ThreadEnded, WorkInv, StreamInv
  <2>2. joins = "no" => running
    BY <2>1 DEF WorkInv, StreamInv
  <2>3. CASE reports
    <3>1. Post(<<Msg("lost", "failed")>>)
      BY <1>10, <2>3 DEF StreamEnds
    <3>2. /\ (Boxed' <=> Boxed) /\ Queued' /\ HandKept
          /\ \A of : Sent(of)' <=> Sent(of) \/ "lost" = of
      BY <1>4, <1>5, <1>7, <2>1, <3>1
    <3>3. StreamInv'
      BY <1>1, <2>1, <2>3, <3>2, SomeCommands
         DEF WorkInv, StreamInv, HandKept, Untouched, Flagged, Opening, ThreadEnded
    <3> QED BY <1>8, <3>2, <3>3
  <2>4. CASE ~reports
    <3>1. Post(<<>>)
      BY <1>10, <2>4 DEF StreamEnds
    <3>2. (Boxed' <=> Boxed) /\ Queued' /\ HandKept /\ \A of : Sent(of)' <=> Sent(of)
      BY <1>6, <3>1
    <3>3. StreamInv'
      BY <1>1, <2>1, <2>2, <2>4, <3>2, SomeCommands
         DEF WorkInv, StreamInv, HandKept, Untouched, Flagged, Opening, ThreadEnded
    <3> QED BY <1>8, <3>2, <3>3
  <2> QED BY <2>3, <2>4
<1>11. CASE FeedBegins
  <2>1. /\ thread \in {"open", "live"} /\ running /\ thread' = "feeding" /\ (running' <=> running) /\ closed' = closed
        /\ ~Sent("lost")
    BY <1>11 DEF FeedBegins, WorkInv, StreamInv, ThreadEnded
  <2>2. CASE thread = "open"
    <3>1. Post(<<Msg("active", "ok")>>)
      BY <1>11, <2>2 DEF FeedBegins
    <3>2. /\ (Boxed' <=> Boxed) /\ Queued' /\ HandKept
          /\ \A of : Sent(of)' <=> Sent(of) \/ "active" = of
      BY <1>4, <1>5, <1>7, <2>1, <3>1
    <3>3. StreamInv'
      BY <1>1, <2>1, <2>2, <3>2, SomeCommands
         DEF WorkInv, StreamInv, HandKept, Untouched, Flagged, Opening, ThreadEnded
    <3> QED BY <1>8, <3>2, <3>3
  <2>3. CASE thread # "open"
    <3>1. Post(<<>>)
      BY <1>11, <2>3 DEF FeedBegins
    <3>2. (Boxed' <=> Boxed) /\ Queued' /\ HandKept /\ \A of : Sent(of)' <=> Sent(of)
      BY <1>6, <3>1
    <3>3. StreamInv'
      BY <1>1, <2>1, <3>2, SomeCommands
         DEF WorkInv, StreamInv, HandKept, Untouched, Flagged, Opening, ThreadEnded
    <3> QED BY <1>8, <3>2, <3>3
  <2> QED BY <2>2, <2>3
<1>12. ASSUME FeedEnds \/ PlaybackFrame \/ \E frame \in BOOLEAN : Decodes(frame) PROVE WorkInv'
  <2>1. /\ running' <=> running
        /\ closed' = closed
        /\ (thread = "feeding" /\ thread' = "live") \/ thread' = thread
    BY <1>12 DEF FeedEnds, PlaybackFrame, Decodes
  <2>2. Post(<<>>) \/ \E m \in Mail : m.of \in Pictures /\ Post(<<m>>)
    <3>1. {"unit", "frame", "playback"} \subseteq Pictures
      BY DEF Pictures
    <3> QED BY <1>4, <1>5, <1>12, <3>1 DEF FeedEnds, PlaybackFrame, Decodes
  <2>3. "lost" \notin Pictures /\ "active" \notin Pictures
    BY DEF Pictures
  <2>4. /\ (Boxed' <=> Boxed) /\ Queued' /\ HandKept
        /\ (Sent("lost")' <=> Sent("lost")) /\ (Sent("active")' <=> Sent("active"))
    BY <1>6, <1>7, <2>2, <2>3
  <2>5. StreamInv'
    BY <1>1, <2>1, <2>4, SomeCommands
       DEF WorkInv, StreamInv, HandKept, Untouched, Flagged, Opening, ThreadEnded
  <2> QED BY <1>8, <2>4, <2>5
<1> QED BY <1>9, <1>10, <1>11, <1>12 DEF ReceiveLoop

LEMMA AgeWorks == TypeInv /\ WorkInv /\ Age => WorkInv'
<1> SUFFICES ASSUME TypeInv, WorkInv, Age PROVE WorkInv'
  OBVIOUS
<1>1. /\ UNCHANGED <<queue, ticks, jobs, video, starting, active, joins, again, stopping, running, closed,
                     thread, encoding, stopLost, mode, playing, transport>>
      /\ hit > 0 /\ hit' = hit - 1
  BY DEF Age, user, view, flags, launch, phone
<1>2. (Boxed' <=> Boxed) /\ Queued' /\ HandKept /\ \A of : Sent(of)' <=> Sent(of)
  BY <1>1, Silent
<1>3. Owns' => Owns
  BY <1>1 DEF Owns, Showing
<1>4. WaitInv'
  BY <1>1, <1>2, <1>3, SomeCommands DEF WorkInv, WaitInv, HandKept
<1>5. StreamInv'
  BY <1>1, <1>2, SomeCommands DEF WorkInv, StreamInv, HandKept, Flagged, Opening, ThreadEnded
<1>6. OffInv'
  BY <1>1 DEF WorkInv, OffInv
<1> QED BY <1>2, <1>4, <1>5, <1>6 DEF WorkInv, HandKept

\* The joins: no command is in hand, no box open.
LEMMA JoinWorks ==
  ASSUME TypeInv, WorkInv, JoinDisable \/ JoinDock \/ JoinStart
  PROVE  WorkInv'
<1>1. /\ joins # "no" /\ ThreadEnded /\ joins' = "no"
      /\ UNCHANGED <<queue, ticks, video, starting, active, hits, transport, encoding>>
  BY DEF JoinDisable, JoinDock, JoinStart, Join, user, flags
<1>2. ~running /\ ~Busy /\ ~Boxed /\ ~Sent("active") /\ ~stopping /\ ~again
  <2>1. ~Busy /\ ~Boxed /\ ~running /\ ~Sent("active") /\ ~again
    BY <1>1 DEF WorkInv, WaitInv, StreamInv
  <2> QED BY <2>1, SomeCommands DEF Busy, WorkInv, WaitInv
<1>3. (\A c \in Commands : ~InHand(c) /\ ~Sent(c)) /\ Idle /\ jobs \in [Commands -> Nat]
  BY <1>2 DEF Busy, InHand, Idle, TypeInv, DataInv
<1>4. (Boxed' <=> Boxed) /\ Queued' /\ \A of : Sent(of)' <=> Sent(of)
  BY <1>1, NoMail DEF WorkInv
<1>5. \A c \in Commands : ~Sent(c)'
  BY <1>3, <1>4
<1>6. CASE JoinDisable
  <2>1. ~Flagged /\ ~video /\ UNCHANGED <<again, running, closed, thread>>
    BY <1>6 DEF JoinDisable, Join, WorkInv, StreamInv, OffInv
  <2>2. CASE paired
    <3>1. stopping' /\ Launch("stop")
      BY <1>2, <1>6, <2>2 DEF JoinDisable
    <3>2. OneCommand' /\ Busy' /\ \A d \in Commands : InHand(d)' <=> d = "stop"
      BY <1>3, <1>5, <3>1, Launches, SomeCommands
    <3>3. jobs'["stop"] > 0
      BY <1>3, <3>1, SomeCommands DEF Launch
    <3>4. WaitInv'
      BY <1>1, <1>2, <1>4, <2>1, <3>2, SomeCommands DEF WaitInv
    <3>5. StreamInv'
      BY <1>1, <1>2, <1>4, <2>1, <3>2, SomeCommands DEF WorkInv, StreamInv, Flagged, Opening, ThreadEnded
    <3>6. OffInv'
      BY <1>1, <3>3 DEF OffInv
    <3> QED BY <1>4, <3>2, <3>4, <3>5, <3>6 DEF WorkInv
  <2>3. CASE ~paired
    <3>1. UNCHANGED <<stopping, jobs>> /\ stopLost'
      BY <1>6, <2>3 DEF JoinDisable
    <3>2. OneCommand' /\ ~Busy' /\ \A d \in Commands : ~InHand(d)'
      BY <1>3, <1>5, <3>1, NothingInHand
    <3>3. WaitInv'
      BY <1>1, <1>2, <1>4, <2>1, <3>1, <3>2 DEF WaitInv
    <3>4. StreamInv'
      BY <1>1, <1>2, <1>4, <2>1, <3>2, SomeCommands DEF WorkInv, StreamInv, Flagged, Opening, ThreadEnded
    <3>5. OffInv'
      BY <1>1, <3>1 DEF OffInv
    <3> QED BY <1>4, <3>2, <3>3, <3>4, <3>5 DEF WorkInv
  <2> QED BY <2>2, <2>3
<1>7. CASE JoinDock
  <2>1. ~Flagged /\ joins = "dock" /\ UNCHANGED <<stopping, stopLost, running, closed, thread, playing, hit>>
    BY <1>1, <1>7 DEF JoinDock, Join, WorkInv, StreamInv, hits
  <2>2. /\ OneCommand' /\ (again' <=> again)
        /\ \/ ~Busy' /\ \A d \in Commands : ~InHand(d)'
           \/ video /\ ~Owns' /\ Busy' /\ \A d \in Commands : InHand(d)' <=> d = "configure"
    <3>1. CASE video
      <4>1. StartRemotePreview(ModeWithout, "blank", FALSE)
        BY <1>7, <3>1 DEF JoinDock
      <4>2. /\ OneCommand' /\ (again' <=> again)
            /\ \/ ~Busy' /\ \A d \in Commands : ~InHand(d)'
               \/ ~Flagged /\ ~Owns' /\ Busy' /\ \A d \in Commands : InHand(d)' <=> d = "configure"
        BY <1>1, <1>2, <1>3, <1>5, <2>1, <4>1, StartLaunches
      <4> QED BY <3>1, <4>2
    <3>2. CASE ~video
      <4>1. jobs' = jobs /\ (again' <=> again)
        BY <1>7, <3>2 DEF JoinDock, launch
      <4> QED BY <1>3, <1>5, <4>1, NothingInHand
    <3> QED BY <3>1, <3>2
  <2>3. WaitInv'
    BY <1>1, <1>2, <1>4, <2>1, <2>2 DEF WaitInv
  <2>4. StreamInv'
    BY <1>1, <1>2, <1>4, <2>1, <2>2, SomeCommands DEF WorkInv, StreamInv, Flagged, Opening, ThreadEnded
  <2>5. jobs["stop"] = 0
    BY <1>3, SomeCommands DEF Idle
  <2>6. OffInv'
    BY <1>1, <2>1, <2>5 DEF WorkInv, OffInv
  <2> QED BY <1>4, <2>2, <2>3, <2>4, <2>6 DEF WorkInv
<1>8. CASE JoinStart
  <2>1. /\ starting /\ video /\ ~Sent("lost") /\ running' /\ thread' = "handshake"
        /\ UNCHANGED <<stopping, stopLost, again, jobs>>
    BY <1>8 DEF JoinStart, Join, WorkInv, StreamInv, launch
  <2>6. ~closed /\ ~closed'
    BY <1>1, <1>8 DEF JoinStart, WorkInv, StreamInv
  <2>2. OneCommand' /\ ~Busy' /\ \A d \in Commands : ~InHand(d)'
    BY <1>3, <1>5, <2>1, NothingInHand
  <2>3. WaitInv'
    BY <1>1, <1>2, <1>4, <2>1, <2>2 DEF WaitInv
  <2>4. StreamInv'
    BY <1>1, <1>2, <1>4, <2>1, <2>2, <2>6, SomeCommands
       DEF WorkInv, StreamInv, Flagged, Opening, ThreadEnded
  <2>5. OffInv'
    BY <1>1, <2>1 DEF OffInv
  <2> QED BY <1>4, <2>2, <2>3, <2>4, <2>5 DEF WorkInv
<1> QED BY <1>6, <1>7, <1>8

\* Steps that only take or leave a batch or close a box.
LEMMA MailWorks ==
  ASSUME TypeInv, TypeInv', WorkInv, TimerPoll \/ CloseBox
  PROVE  WorkInv'
<1>1. UNCHANGED <<jobs, video, starting, active, joins, again, stopping, running, closed, thread, encoding,
                  stopLost, mode, playing, hit, transport>>
  BY DEF TimerPoll, CloseBox, OnlyTicks, user, view, hits, flags, launch, phone
<1>2. Stays /\ Queued'
  <2>1. CASE TimerPoll
    <3>1. AtRest /\ Begins
      BY <2>1 DEF TimerPoll, Begins
    <3> QED BY <3>1, BeginsStays DEF TypeInv, WorkInv
  <2>2. CASE CloseBox
    <3>1. Closes /\ DataInv /\ DataInv' /\ BoxesNest'
      BY <2>2, CloseCloses DEF TypeInv
    <3>2. Boxed
      <4>1. ticks # <<>> /\ Top.box
        BY <2>2 DEF CloseBox, AtRest
      <4> QED BY <3>1, <4>1, TopBatch DEF Boxed
    <3>3. \A n \in Messages : n.of \notin Commands \cup {"active"}
      BY <3>2 DEF WorkInv, WaitInv, StreamInv, Busy, InHand, Sent
    <3> QED BY <3>1, <3>3, ClosesStays
  <2> QED BY <2>1, <2>2
<1>3. HandKept
  BY <1>1, <1>2, KeepsHand DEF WorkInv, Stays
<1>4. Owns' <=> Owns
  BY <1>1 DEF Owns, Showing
<1>5. WaitInv'
  BY <1>1, <1>2, <1>3, <1>4, SomeCommands DEF WorkInv, WaitInv, HandKept, Stays
<1>6. StreamInv'
  BY <1>1, <1>2, <1>3, SomeCommands DEF WorkInv, StreamInv, HandKept, Stays, Flagged, Opening, ThreadEnded
<1>7. OffInv'
  BY <1>1 DEF WorkInv, OffInv
<1> QED BY <1>2, <1>3, <1>5, <1>6, <1>7 DEF WorkInv, HandKept

LEMMA PollWorks ==
  ASSUME TypeInv, WorkInv, NEW found \in BOOLEAN, PollTransport(found)
  PROVE  WorkInv'
<1>1. /\ joins = "no" /\ Ends
      /\ UNCHANGED <<video, transport, starting, active, stopping, running, closed, thread, joins, encoding,
                     stopLost>>
  BY DEF PollTransport, Ends, user, flags, phone
<1>2. Stays /\ Queued' /\ jobs \in [Commands -> Nat]
  BY <1>1, EndsStays DEF TypeInv, WorkInv, DataInv
<1>3. CASE video /\ follow /\ transport = "playing" /\ found
  <2>1. jobs' = jobs /\ (again' => again)
    <3>1. ShowPlayback
      BY <1>3 DEF PollTransport
    <3> QED BY <3>1 DEF ShowPlayback
  <2>2. HandKept
    BY <1>2, <2>1, KeepsHand DEF WorkInv, Stays
  <2>3. Owns
    BY <1>3 DEF Owns
  <2>4. WaitInv'
    BY <1>1, <1>2, <1>3, <2>1, <2>2, <2>3, SomeCommands DEF WorkInv, WaitInv, HandKept, Stays
  <2>5. StreamInv'
    BY <1>1, <1>2, <2>2, SomeCommands DEF WorkInv, StreamInv, HandKept, Stays, Flagged, Opening, ThreadEnded
  <2>6. OffInv'
    BY <1>1, <2>1 DEF WorkInv, OffInv
  <2> QED BY <1>2, <2>2, <2>4, <2>5, <2>6 DEF WorkInv, HandKept
<1>4. ASSUME jobs' = jobs, again' <=> again, Owns' => Owns PROVE WorkInv'
  <2>1. HandKept
    BY <1>2, <1>4, KeepsHand DEF WorkInv, Stays
  <2>2. WaitInv'
    BY <1>1, <1>2, <1>4, <2>1, SomeCommands DEF WorkInv, WaitInv, HandKept, Stays
  <2>3. StreamInv'
    BY <1>1, <1>2, <2>1, SomeCommands DEF WorkInv, StreamInv, HandKept, Stays, Flagged, Opening, ThreadEnded
  <2>4. OffInv'
    BY <1>1, <1>4 DEF WorkInv, OffInv
  <2> QED BY <1>2, <2>1, <2>2, <2>3, <2>4 DEF WorkInv, HandKept
<1>5. CASE ~(video /\ follow /\ transport = "playing" /\ found)
           /\ video /\ follow /\ transport = "stopped" /\ (Showing => hit < 2)
  <2>1. playing' = FALSE /\ IF Showing THEN hit' = 0 /\ StopPlaybackAndShowLive
                                       ELSE UNCHANGED <<hit, view, launch>>
    BY <1>5 DEF PollTransport
  <2>2. CASE ~Showing
    <3>1. ~playing' /\ UNCHANGED <<hit, mode, jobs, again>>
      BY <2>1, <2>2 DEF view, launch
    <3>2. Owns' => Owns
      BY <1>1, <3>1 DEF Owns, Showing
    <3> QED BY <1>4, <3>1, <3>2
  <2>3. CASE Showing /\ (starting \/ active)
    <3>1. ~playing' /\ hit' = 0 /\ mode' = "live" /\ UNCHANGED <<jobs, again>>
      BY <2>1, <2>3 DEF StopPlaybackAndShowLive, launch
    <3>2. Owns' => Owns
      BY <1>1, <3>1 DEF Owns, Showing
    <3> QED BY <1>4, <3>1, <3>2
  <2>4. CASE Showing /\ ~(starting \/ active)
    <3>1. ~playing' /\ hit' = 0 /\ StartLive(picture, told) /\ Owns
      BY <2>1, <2>4 DEF StopPlaybackAndShowLive, Owns
    <3>2. ~Busy /\ ~Boxed /\ ~stopping /\ ~again
      <4>1. ~Busy /\ ~Boxed /\ ~again
        BY <1>5, <3>1 DEF WorkInv, WaitInv
      <4> QED BY <4>1, SomeCommands DEF Busy, WorkInv, WaitInv
    <3>3. Idle /\ \A d \in Commands : ~Sent(d)'
      BY <1>2, <3>2 DEF Busy, InHand, Idle, Stays
    <3>4. /\ OneCommand' /\ (again' <=> again) /\ mode' = "live"
          /\ \/ ~Busy' /\ \A d \in Commands : ~InHand(d)'
             \/ ~Flagged /\ Busy' /\ \A d \in Commands : InHand(d)' <=> d = "configure"
      BY <1>2, <3>1, <3>2, <3>3, LiveLaunches
    <3>5. ~Owns'
      BY <1>1, <1>5, <3>1, <3>4 DEF Owns, Showing
    <3>6. ~Flagged /\ ~running /\ ~closed /\ ThreadEnded
      BY <1>1, <2>4 DEF Flagged, WorkInv, StreamInv
    <3>7. WaitInv'
      BY <1>1, <1>2, <3>2, <3>4, <3>5 DEF WaitInv, Stays
    <3>8. StreamInv'
      BY <1>1, <1>2, <1>5, <3>2, <3>4, <3>6, SomeCommands
         DEF WorkInv, StreamInv, Stays, Flagged, Opening, ThreadEnded
    <3>9. OffInv'
      BY <1>1, <1>5 DEF OffInv
    <3> QED BY <1>2, <3>4, <3>7, <3>8, <3>9 DEF WorkInv
  <2> QED BY <2>2, <2>3, <2>4
<1>6. CASE /\ ~(video /\ follow /\ transport = "playing" /\ found)
           /\ ~(video /\ follow /\ transport = "stopped" /\ (Showing => hit < 2))
  <2>1. UNCHANGED <<hits, view, launch>>
    BY <1>6 DEF PollTransport
  <2>2. UNCHANGED <<hit, playing, mode, jobs, again>>
    BY <2>1 DEF hits, view, launch
  <2>3. Owns' <=> Owns
    BY <1>1, <2>2 DEF Owns, Showing
  <2> QED BY <1>4, <2>2, <2>3
<1> QED BY <1>3, <1>5, <1>6

LEMMA CommandWorks ==
  ASSUME TypeInv, TypeInv', WorkInv, NEW res \in Results,
         \/ OnConfigured(res) \/ OnStarted(res) \/ OnStopped(res) \/ OnPaired(res)
         \/ \E reports \in BOOLEAN : OnProfile(res, reports)
  PROVE  WorkInv'
<1>1. ASSUME NEW of \in Commands, NEW box \in BOOLEAN, Run(of, res, box)
      PROVE  /\ Idle /\ Busy /\ ~Boxed /\ joins = "no" /\ (Boxed' <=> box) /\ Queued'
             /\ InHand(of) /\ (\A d \in Commands : ~Sent(d)' /\ (d # of => ~InHand(d)))
             /\ (Sent("lost")' <=> Sent("lost")) /\ (Sent("active")' <=> Sent("active"))
             /\ (of \in {"configure", "start"} => ~Sent("lost"))
             /\ UNCHANGED <<video, transport, hit, playing, thread, encoding, stopLost>>
  <2>1. Handles(Msg(of, res), box) /\ Msg(of, res).of = of
    BY <1>1, RunHandles DEF Msg
  <2>2. UNCHANGED <<video, transport, hit, playing, thread, encoding, stopLost>>
    BY <1>1 DEF Run, user, hits, phone
  <2> QED BY <2>1, <2>2, Answers
<1>2. jobs \in [Commands -> Nat] /\ jobs["stop"] >= 0
  BY SomeCommands DEF TypeInv, DataInv
\* What the answer finds: no stream starts and none is active that is not lost.
<1>3. Busy /\ joins = "no" =>
        /\ ~starting /\ ~Sent("active") /\ ~again /\ (video => ~Owns)
        /\ (~Flagged => ~running /\ ThreadEnded)
        /\ (InHand("configure") \/ InHand("start") => video /\ ThreadEnded /\ ~running /\ ~closed)
        /\ (~Sent("lost") /\ ~running /\ ~closed => ~Flagged)
        /\ (closed => Flagged)
  BY DEF WorkInv, WaitInv, StreamInv
<1>5. CASE OnConfigured(res)
  <2> DEFINE box == res = "failed" /\ ~Showing
  <2>1. Run("configure", res, box) /\ box \in BOOLEAN
    BY <1>5 DEF OnConfigured
  <2>2. UNCHANGED <<mode, starting, active, stopping, again, running, closed, joins>>
    BY <1>5 DEF OnConfigured, flags
  <2> HIDE DEF box
  <2>3. /\ Idle /\ Busy /\ ~Boxed /\ joins = "no" /\ (Boxed' <=> box) /\ Queued'
        /\ InHand("configure") /\ (\A d \in Commands : ~Sent(d)' /\ (d # "configure" => ~InHand(d)))
        /\ ~Sent("lost")' /\ ~Sent("active")' /\ ~Sent("lost")
        /\ UNCHANGED <<video, transport, hit, playing, thread, encoding, stopLost>>
    BY <1>1, <1>3, <2>1, SomeCommands
  <2>4. video /\ ~Owns /\ ThreadEnded /\ ~running /\ ~closed /\ ~Flagged /\ ~again
    BY <1>3, <2>3
  <2>5. ~Owns' /\ ~stopping
    BY <2>2, <2>3, <2>4, SomeCommands DEF Owns, Showing, WorkInv, WaitInv
  <2>6. CASE res = "ok" /\ ~Owns /\ video
    <3>1. Launch("start") /\ ~Boxed'
      BY <1>5, <2>3, <2>6 DEF OnConfigured, box
    <3>2. OneCommand' /\ Busy' /\ \A d \in Commands : InHand(d)' <=> d = "start"
      BY <1>2, <2>3, <3>1, Launches, SomeCommands
    <3>3. WaitInv'
      BY <2>2, <2>3, <2>4, <2>5, <3>1, <3>2 DEF WaitInv
    <3>4. StreamInv'
      BY <2>2, <2>3, <2>4, <3>1, <3>2, SomeCommands DEF StreamInv, Flagged, Opening, ThreadEnded
    <3>5. OffInv'
      BY <2>2, <2>3, <2>4 DEF OffInv
    <3> QED BY <2>3, <3>2, <3>3, <3>4, <3>5 DEF WorkInv
  <2>7. CASE ~(res = "ok" /\ ~Owns /\ video)
    <3>1. jobs' = jobs
      BY <1>5, <2>7 DEF OnConfigured
    <3>2. OneCommand' /\ ~Busy' /\ \A d \in Commands : ~InHand(d)'
      BY <2>3, <3>1, NothingInHand
    <3>3. WaitInv'
      BY <2>2, <2>3, <2>4, <2>5, <3>2 DEF WaitInv
    <3>4. StreamInv'
      BY <2>2, <2>3, <2>4, <3>2, SomeCommands DEF StreamInv, Flagged, Opening, ThreadEnded
    <3>5. OffInv'
      BY <2>2, <2>3, <2>4 DEF OffInv
    <3> QED BY <2>3, <3>2, <3>3, <3>4, <3>5 DEF WorkInv
  <2> QED BY <2>6, <2>7
<1>6. CASE OnStarted(res)
  <2> DEFINE box == res = "failed" /\ ~Owns
  <2>1. Run("start", res, box) /\ box \in BOOLEAN
    BY <1>6 DEF OnStarted
  <2>2. UNCHANGED <<mode, stopping, again, jobs>>
    BY <1>6 DEF OnStarted
  <2> HIDE DEF box
  <2>3. /\ Idle /\ Busy /\ ~Boxed /\ joins = "no" /\ (Boxed' <=> box) /\ Queued'
        /\ InHand("start") /\ (\A d \in Commands : ~Sent(d)' /\ (d # "start" => ~InHand(d)))
        /\ ~Sent("lost")' /\ ~Sent("active")' /\ ~Sent("lost")
        /\ UNCHANGED <<video, transport, hit, playing, thread, encoding, stopLost>>
    BY <1>1, <1>3, <2>1, SomeCommands
  <2>4. video /\ ~Owns /\ ThreadEnded /\ ~running /\ ~closed /\ ~Flagged /\ ~again
    BY <1>3, <2>3
  <2>5. ~Owns' /\ ~stopping
    BY <2>2, <2>3, <2>4, SomeCommands DEF Owns, Showing, WorkInv, WaitInv
  <2>6. OneCommand' /\ ~Busy' /\ \A d \in Commands : ~InHand(d)'
    BY <2>2, <2>3, NothingInHand
  <2>7. CASE StartStream /\ res = "ok"
    <3>1. ~running' /\ ~closed' /\ joins' = "start" /\ starting' /\ ~Boxed'
      BY <2>3, <2>7 DEF StartStream, box
    <3>2. WaitInv'
      BY <2>2, <2>3, <2>4, <2>5, <2>6, <3>1 DEF WaitInv
    <3>3. StreamInv'
      BY <2>2, <2>3, <2>4, <2>6, <3>1, SomeCommands DEF StreamInv, Flagged, Opening, ThreadEnded
    <3>4. OffInv'
      BY <2>3, <2>4, <3>1 DEF OffInv
    <3> QED BY <2>3, <2>6, <3>2, <3>3, <3>4 DEF WorkInv
  <2>8. CASE UNCHANGED <<renderer, running, closed, joins, flags>>
    <3>1. UNCHANGED <<running, closed, joins, starting, active>>
      BY <2>8 DEF flags
    <3>2. WaitInv'
      BY <2>2, <2>3, <2>4, <2>5, <2>6, <3>1 DEF WaitInv
    <3>3. StreamInv'
      BY <2>2, <2>3, <2>4, <2>6, <3>1, SomeCommands DEF StreamInv, Flagged, Opening, ThreadEnded
    <3>4. OffInv'
      BY <2>3, <2>4, <3>1 DEF OffInv
    <3> QED BY <2>3, <2>6, <3>2, <3>3, <3>4 DEF WorkInv
  <2> QED BY <1>6, <2>7, <2>8 DEF OnStarted
\* The other commands leave the stream as it is.
<1>7. ASSUME NEW of \in {"stop", "profile", "pair"}, NEW box \in BOOLEAN, Run(of, res, box),
             UNCHANGED <<starting, active, running, closed, joins>>, OneCommand', ~again',
             stopping' => stopping /\ of # "stop",
             \/ ~Busy' /\ \A d \in Commands : ~InHand(d)'
             \/ /\ ~box /\ video /\ ~Flagged /\ ~Owns' /\ Busy'
                /\ \A d \in Commands : InHand(d)' <=> d = "configure",
             box /\ video => ~Owns', jobs'["stop"] >= jobs["stop"]
      PROVE  WorkInv'
  <2>1. /\ Idle /\ Busy /\ ~Boxed /\ joins = "no" /\ (Boxed' <=> box) /\ Queued'
        /\ InHand(of) /\ (\A d \in Commands : ~Sent(d)' /\ (d # of => ~InHand(d)))
        /\ (Sent("lost")' <=> Sent("lost")) /\ ~Sent("active")'
        /\ UNCHANGED <<video, transport, hit, playing, thread, encoding, stopLost>>
    BY <1>1, <1>3, <1>7, SomeCommands
  <2>2. ~stopping' /\ ~starting
    BY <1>3, <1>7, <2>1, SomeCommands DEF WorkInv, WaitInv
  <2>3. WaitInv'
    BY <1>7, <2>1, <2>2 DEF WaitInv
  <2>4. StreamInv'
    <3>1. ~InHand("start")' /\ (InHand("configure")' => video /\ ThreadEnded /\ ~closed)
      BY <1>3, <1>7, <2>1, SomeCommands
    <3> QED BY <1>7, <2>1, <2>2, <3>1 DEF WorkInv, StreamInv, Flagged, Opening, ThreadEnded
  <2>5. OffInv'
    <3>1. jobs["stop"] = 0
      BY <2>1, SomeCommands DEF Idle
    <3> QED BY <1>7, <2>1, <3>1 DEF WorkInv, OffInv
  <2> QED BY <1>7, <2>1, <2>3, <2>4, <2>5 DEF WorkInv
<1>8. CASE OnStopped(res)
  <2>1. Run("stop", res, FALSE)
    BY <1>8 DEF OnStopped
  <2>2. /\ Idle /\ Busy /\ joins = "no" /\ (\A d \in Commands : ~Sent(d)')
    BY <1>1, <2>1, SomeCommands
  <2>3. ~again
    BY <1>3, <2>2
  <2>4. UNCHANGED <<starting, active, running, closed, joins, jobs>> /\ ~again' /\ ~stopping'
    BY <1>8, <2>3 DEF OnStopped, flags, NoLaunch
  <2>5. OneCommand' /\ ~Busy' /\ \A d \in Commands : ~InHand(d)'
    BY <2>2, <2>4, NothingInHand
  <2>6. jobs'["stop"] >= jobs["stop"]
    BY <1>2, <2>4, SomeCommands
  <2> QED BY <1>7, <2>1, <2>4, <2>5, <2>6
<1>9. CASE OnPaired(res)
  <2> DEFINE box == res # "ok"
  <2>1. Run("pair", res, box) /\ box \in BOOLEAN
    BY <1>9 DEF OnPaired
  <2> HIDE DEF box
  <2>2. /\ Idle /\ Busy /\ joins = "no" /\ (\A d \in Commands : ~Sent(d)')
        /\ UNCHANGED <<video, transport, hit, playing>>
    BY <1>1, <2>1, SomeCommands
  <2>3. UNCHANGED <<starting, active, running, closed, joins, jobs, again, stopping, mode>>
    BY <1>9 DEF OnPaired, flags, launch
  <2>4. OneCommand' /\ ~Busy' /\ \A d \in Commands : ~InHand(d)'
    BY <2>2, <2>3, NothingInHand
  <2>5. ~again' /\ (video => ~Owns')
    BY <1>3, <2>2, <2>3 DEF Owns, Showing
  <2>6. jobs'["stop"] >= jobs["stop"]
    BY <1>2, <2>3, SomeCommands
  <2> QED BY <1>7, <2>1, <2>3, <2>4, <2>5, <2>6
<1>10. ASSUME NEW reports \in BOOLEAN, OnProfile(res, reports) PROVE WorkInv'
  <2> DEFINE box == res # "ok" /\ reports
  <2>1. Run("profile", res, box) /\ box \in BOOLEAN
    BY <1>10 DEF OnProfile
  <2>2. UNCHANGED <<starting, active, running, closed, joins, stopping>>
    BY <1>10 DEF OnProfile, flags
  <2>3. CASE res = "ok" /\ video
    <3>1. StartRemotePreview(mode, picture, told) /\ ~box
      BY <1>10, <2>3 DEF OnProfile
    <3> HIDE DEF box
    <3>2. /\ Idle /\ Busy /\ joins = "no" /\ (\A d \in Commands : ~Sent(d)' /\ (d # "profile" => ~InHand(d)))
          /\ UNCHANGED <<transport, hit, playing>>
      BY <1>1, <2>1, SomeCommands
    <3>3. ~stopping /\ ~again
      BY <1>3, <3>2, SomeCommands DEF WorkInv, WaitInv
    <3>4. /\ OneCommand' /\ (again' <=> again)
          /\ \/ ~Busy' /\ \A d \in Commands : ~InHand(d)'
             \/ ~Flagged /\ ~Owns' /\ Busy' /\ \A d \in Commands : InHand(d)' <=> d = "configure"
      BY <1>2, <3>1, <3>2, <3>3, StartLaunches
    <3>5. jobs'["stop"] >= jobs["stop"]
      <4>1. jobs["stop"] = 0 /\ jobs'["stop"] \in Nat
        BY <3>2, SomeCommands DEF Idle, TypeInv, DataInv
      <4> QED BY <4>1
    <3> QED BY <1>7, <2>1, <2>2, <2>3, <3>1, <3>3, <3>4, <3>5
  <2>4. CASE ~(res = "ok" /\ video)
    <3>1. UNCHANGED <<mode, jobs, again>>
      BY <1>10, <2>4 DEF OnProfile, launch
    <3> HIDE DEF box
    <3>2. /\ Idle /\ Busy /\ joins = "no" /\ (\A d \in Commands : ~Sent(d)' /\ (d # "profile" => ~InHand(d)))
          /\ UNCHANGED <<video, transport, hit, playing>>
      BY <1>1, <2>1, SomeCommands
    <3>3. OneCommand' /\ ~Busy' /\ \A d \in Commands : ~InHand(d)'
      BY <3>1, <3>2, NothingInHand
    <3>4. ~again' /\ (video => ~Owns')
      BY <1>3, <3>1, <3>2 DEF Owns, Showing
    <3>5. jobs'["stop"] >= jobs["stop"]
      BY <1>2, <3>1, SomeCommands
    <3> QED BY <1>7, <2>1, <2>2, <3>3, <3>4, <3>5
  <2> QED BY <2>3, <2>4
<1> QED BY <1>5, <1>6, <1>8, <1>9, <1>10

LEMMA NoticeWorks ==
  ASSUME TypeInv, TypeInv', WorkInv,
         \/ OnActive \/ OnLost \/ OnUnit
         \/ OnFrame("frame", "live", "live") \/ OnFrame("playback", "playback", "playback")
  PROVE  WorkInv'
<1>1. /\ joins = "no"
      /\ UNCHANGED <<video, transport, playing, hit, thread, encoding, stopLost, mode, stopping, again,
                     jobs, running, joins>>
  BY DEF OnActive, OnLost, OnUnit, OnFrame, Run, user, hits, phone, view, launch
<1>2. ASSUME NEW of, of \notin Commands, NEW res, Run(of, res, FALSE)
      PROVE  /\ Sent(of) /\ (Boxed' <=> Boxed) /\ Queued' /\ HandKept
             /\ (\A n : (Sent(n)' => Sent(n)) /\ (n # of => (Sent(n)' <=> Sent(n))))
             /\ (of = "lost" => ~Sent("active")')
  <2>1. Handles(Msg(of, res), FALSE) /\ Msg(of, res).of = of
    BY <1>2, RunHandles DEF Msg
  <2> QED BY <1>1, <1>2, <2>1, Notices
<1>3. Owns' <=> Owns
  BY <1>1 DEF Owns, Showing
<1>4. ASSUME Queued', HandKept, Boxed' <=> Boxed, StreamInv' PROVE WorkInv'
  <2>1. WaitInv'
    BY <1>1, <1>3, <1>4, SomeCommands DEF WorkInv, WaitInv, HandKept
  <2>2. OffInv'
    BY <1>1 DEF WorkInv, OffInv
  <2> QED BY <1>4, <2>1, <2>2 DEF WorkInv, HandKept
<1>5. CASE OnActive
  <2>1. Run("active", "ok", FALSE) /\ ~starting' /\ active' /\ closed' = closed
    BY <1>5 DEF OnActive
  <2>2. /\ Sent("active") /\ (Boxed' <=> Boxed) /\ Queued' /\ HandKept
        /\ (Sent("active")' => Sent("active")) /\ (Sent("lost")' <=> Sent("lost"))
    BY <1>2, <2>1, SomeCommands
  <2>3. StreamInv'
    BY <1>1, <2>1, <2>2, SomeCommands DEF WorkInv, StreamInv, HandKept, Flagged, Opening, ThreadEnded
  <2> QED BY <1>4, <2>2, <2>3
<1>6. CASE OnLost
  <2>1. Run("lost", "failed", FALSE) /\ ~starting' /\ ~active' /\ ~closed'
    BY <1>6 DEF OnLost
  <2>2. /\ Sent("lost") /\ (Boxed' <=> Boxed) /\ Queued' /\ HandKept
        /\ (Sent("lost")' => Sent("lost")) /\ ~Sent("active")'
    BY <1>2, <2>1, SomeCommands
  <2>3. StreamInv'
    BY <1>1, <2>1, <2>2, SomeCommands DEF WorkInv, StreamInv, HandKept, Flagged, Opening, ThreadEnded
  <2> QED BY <1>4, <2>2, <2>3
<1>7. ASSUME NEW of \in Pictures, Run(of, "ok", FALSE), UNCHANGED <<starting, active, closed>> PROVE WorkInv'
  <2>1. of \notin Commands /\ of # "lost" /\ of # "active"
    BY DEF Pictures, Commands
  <2>2. /\ (Boxed' <=> Boxed) /\ Queued' /\ HandKept
        /\ (Sent("lost")' <=> Sent("lost")) /\ (Sent("active")' <=> Sent("active"))
    BY <1>2, <1>7, <2>1
  <2>3. StreamInv'
    BY <1>1, <1>7, <2>2, SomeCommands DEF WorkInv, StreamInv, HandKept, Flagged, Opening, ThreadEnded
  <2> QED BY <1>4, <2>2, <2>3
<1>8. CASE OnUnit
  BY <1>7, <1>8 DEF OnUnit, Pictures
<1>9. CASE OnFrame("frame", "live", "live") \/ OnFrame("playback", "playback", "playback")
  BY <1>7, <1>9 DEF OnFrame, flags, Pictures
<1> QED BY <1>5, <1>6, <1>8, <1>9

LEMMA WorkNext == Patient /\ TypeInv /\ TypeInv' /\ WorkInv /\ [Next]_vars => WorkInv'
<1> SUFFICES ASSUME Patient, TypeInv, TypeInv', WorkInv, [Next]_vars PROVE WorkInv'
  OBVIOUS
<1>1. CASE User                     BY <1>1, UserWorks
<1>2. CASE ReceiveLoop \/ PlaybackFrame
  BY <1>2, ReceiveWorks
<1>3. CASE HelperEnds               BY <1>3, JobWorks DEF HelperEnds
<1>4. CASE Age                      BY <1>4, AgeWorks
<1>5. CASE JoinDisable \/ JoinDock \/ JoinStart
  BY <1>5, JoinWorks
<1>6. CASE TimerPoll \/ CloseBox    BY <1>6, MailWorks
<1>7. CASE RunCallback
  BY <1>7, CommandWorks, NoticeWorks DEF RunCallback
<1>8. CASE \E found \in BOOLEAN : PollTransport(found)
  BY <1>8, PollWorks
<1>9. CASE UNCHANGED vars
  <2>1. UNCHANGED <<queue, ticks, jobs, video, starting, active, joins, again, stopping, running, closed, thread,
                    encoding, stopLost, mode, playing, hit, transport>>
    BY <1>9 DEF vars, user, view, hits, flags, launch, phone
  <2>2. (Boxed' <=> Boxed) /\ Queued' /\ HandKept /\ \A of : Sent(of)' <=> Sent(of)
    BY <2>1, Silent
  <2>3. Owns' <=> Owns
    BY <2>1 DEF Owns, Showing
  <2>4. WaitInv'
    BY <2>1, <2>2, <2>3, SomeCommands DEF WorkInv, WaitInv, HandKept
  <2>5. StreamInv'
    BY <2>1, <2>2, SomeCommands DEF WorkInv, StreamInv, HandKept, Flagged, Opening, ThreadEnded
  <2>6. OffInv'
    BY <2>1 DEF WorkInv, OffInv
  <2> QED BY <2>2, <2>4, <2>5, <2>6 DEF WorkInv, HandKept
<1> QED BY <1>1, <1>2, <1>3, <1>4, <1>5, <1>6, <1>7, <1>8, <1>9 DEF Next, MainThread

LEMMA Works == Patient => (Spec => []WorkInv)
<1> SUFFICES ASSUME Patient PROVE Spec => []WorkInv
  OBVIOUS
<1>1. Init => WorkInv
  BY WorkInit
<1>2. TypeInv /\ TypeInv' /\ WorkInv /\ [Next]_vars => WorkInv'
  BY WorkNext
<1> QED BY <1>1, <1>2, Typed, PTL DEF Spec

(***************************************************************************)
(* Theorems.                                                               *)
(***************************************************************************)
\* For a user who waits for the command in hand: once the notices of the stream's
\* thread are handled, g_previewStreamStarting and g_previewStreamActive tell
\* whether a stream runs or the server closed it in good order, the one end of a
\* stream that receiveLoop tells nobody of, however the boxes and failures fall.
THEOREM FlagsTell == Patient => (Spec => []FlagsFollowStream)
<1>1. WorkInv => FlagsFollowStream
  <2> SUFFICES ASSUME WorkInv, joins = "no", \A m \in Messages : m.of \notin {"lost", "active"}
               PROVE  running \/ closed <=> starting \/ active
    BY DEF FlagsFollowStream
  <2>1. ~Sent("lost")
    BY DEF Sent
  <2> QED BY <2>1 DEF WorkInv, StreamInv, Flagged
<1> QED BY <1>1, Works, PTL

\* For such a user: with video disabled and nothing under way no stream is received,
\* and the phone encodes none unless it could not be told to stop.
LEMMA DisabledStops == Patient => (Spec => []DisabledMeansStopped)
<1>1. WorkInv => DisabledMeansStopped
  <2> SUFFICES ASSUME WorkInv, Quiet, ~video PROVE ~running /\ (encoding => stopLost)
    BY DEF DisabledMeansStopped
  <2>1. jobs["stop"] = 0 /\ joins = "no"
    BY SomeCommands DEF Quiet
  <2> QED BY <2>1 DEF WorkInv, StreamInv, OffInv
<1> QED BY <1>1, Works, PTL

\* For such a user: no step destroys the renderer while the stream's thread is in
\* it, neither a stop, which has joined the thread, nor the notice that the stream
\* was lost, which that thread posts last.
THEOREM RendererIsKept == Patient => (Spec => RendererOutlivesFeed)
<1>1. TypeInv /\ TypeInv' /\ WorkInv /\ [Next]_vars =>
        [renderer # "none" /\ renderer' = "none" => thread # "feeding"]_vars
  <2> SUFFICES ASSUME TypeInv, TypeInv', WorkInv, [Next]_vars, renderer # "none", renderer' = "none"
               PROVE  thread # "feeding"
    OBVIOUS
  <2>1. CASE User
    BY <2>1 DEF User, EnableVideo, DisableVideo, ToggleFollow, ToggleDock, Request, MoveTransport
  <2>2. CASE ReceiveLoop \/ PlaybackFrame
    BY <2>2 DEF ReceiveLoop, PlaybackFrame, HandshakeEnds, StreamEnds, Decodes, FeedBegins, FeedEnds
  <2>3. CASE HelperEnds \/ Age \/ UNCHANGED vars
    BY <2>3 DEF HelperEnds, JobEnds, Age, vars
  <2>4. CASE JoinDisable \/ JoinDock \/ JoinStart
    BY <2>4 DEF JoinDisable, JoinDock, JoinStart, Join, ThreadEnded
  <2>5. CASE TimerPoll \/ CloseBox \/ \E found \in BOOLEAN : PollTransport(found)
    BY <2>5 DEF TimerPoll, CloseBox, OnlyTicks, PollTransport
  <2>6. CASE RunCallback
    <3>1. CASE OnLost
      <4>1. Handles(Msg("lost", "failed"), FALSE) /\ Msg("lost", "failed").of = "lost" /\ jobs' = jobs
        BY <3>1, RunHandles DEF OnLost, Msg, launch
      <4>2. Sent("lost")
        BY <4>1, Notices, SomeCommands
      <4> QED BY <4>2 DEF WorkInv, StreamInv, ThreadEnded
    <3>2. ASSUME NEW res \in Results,
                 \/ OnConfigured(res) \/ OnStopped(res) \/ OnPaired(res)
                 \/ \E reports \in BOOLEAN : OnProfile(res, reports)
          PROVE  FALSE
      BY <3>2 DEF OnConfigured, OnStopped, OnPaired, OnProfile
    <3>3. ASSUME NEW res \in Results, OnStarted(res) PROVE FALSE
      BY <3>3 DEF OnStarted, StartStream
    <3>4. CASE \/ OnActive \/ OnUnit
               \/ OnFrame("frame", "live", "live") \/ OnFrame("playback", "playback", "playback")
      BY <3>4 DEF OnActive, OnUnit, OnFrame
    <3> QED BY <2>6, <3>1, <3>2, <3>3, <3>4 DEF RunCallback
  <2> QED BY <2>1, <2>2, <2>3, <2>4, <2>5, <2>6 DEF Next, MainThread
<1> QED BY <1>1, Typed, Works, PTL DEF Spec, RendererOutlivesFeed
=============================================================================
