---------------------------- MODULE H264Renderer ----------------------------
(***************************************************************************)
(* The Windows preview renderers (win32_h264_preview_renderer.cpp): the    *)
(* stream's thread hands access units in, a worker takes them out and      *)
(* gives them to a decoder.  The FFmpeg renderer keeps a queue, cleared    *)
(* when it grows past Cap; the Media Foundation one keeps a single unit,   *)
(* replaced by a newer one.  A unit is its number in the stream, whether a *)
(* decoder can start at it (isDecoderStartingAccessUnit) and the coded     *)
(* size its parameter sets give, 0 when they cannot be read.               *)
(***************************************************************************)
EXTENDS Integers, Sequences

CONSTANTS
  Cap,       \* 90 in the code
  Sizes,     \* coded sizes
  MaxUnits   \* bound: units received

VARIABLES
  kind,        \* what createH264PreviewRenderer made: "ffmpeg" or "mf"
  received,    \* units the stream's thread has handed in
  queue,       \* pendingAccessUnits_, or the one pendingAccessUnit_
  requireKey,  \* requireQueuedKeyframe_
  resetFirst,  \* pendingRequiresDecoderReset_
  ready,       \* ready_
  resetting,   \* reset() is between its two critical sections
  stopped,     \* queueStopped_
  taken,       \* what the worker has taken and not decoded, at most one
  decoder,     \* codecContext_ or decoder_: none, fresh or fed
  waiting,     \* waitingForKeyframe_
  coded,       \* activeCodedWidth_ and activeCodedHeight_
  fed, done,   \* history: the last unit given to a decoder; taken off the queue
  spoilt       \* history: a unit was lost at the decoder since the key frame it had last

vars == <<kind, received, queue, requireKey, resetFirst, ready, resetting, stopped, taken,
          decoder, waiting, coded, fed, done, spoilt>>

FFmpeg == kind = "ffmpeg"
Unit == [n : Nat, key : BOOLEAN, size : Sizes \cup {0}]
NoUnit == [n |-> 0, key |-> FALSE, size |-> 0]

TypeOK ==
  /\ kind \in {"ffmpeg", "mf"}
  /\ received \in 0..MaxUnits /\ queue \in Seq(Unit) /\ Len(queue) <= (IF FFmpeg THEN Cap + 1 ELSE 1)
  /\ {requireKey, resetFirst, ready, resetting, stopped, waiting, spoilt} \subseteq BOOLEAN
  /\ taken \in Seq([unit : Unit, reset : BOOLEAN]) /\ Len(taken) <= 1
  /\ decoder \in {"none", "fresh", "fed"} /\ coded \in Sizes \cup {0}
  /\ fed \in Unit /\ done \in Unit

\* The FFmpeg renderer opens its decoder in the constructor; when it cannot, the
\* Media Foundation one takes its place.
Init ==
  /\ kind \in {"ffmpeg", "mf"}
  /\ received = 0 /\ queue = <<>> /\ requireKey = TRUE /\ resetFirst = FALSE
  /\ ready = TRUE /\ resetting = FALSE /\ stopped = FALSE /\ taken = <<>>
  /\ decoder = IF FFmpeg THEN "fresh" ELSE "none"
  /\ waiting = TRUE /\ coded = 0 /\ fed = NoUnit /\ done = NoUnit
  /\ spoilt = FALSE

(***************************************************************************)
(* The stream's thread.                                                    *)
(***************************************************************************)
Accepted(u) == ~stopped /\ (FFmpeg => ready) /\ (requireKey => u.key)
Overflows_Late == FFmpeg /\ Len(queue) > Cap + 1
Overflows == FFmpeg /\ Len(queue) > Cap

Queued_KeepRequire(u) ==
  /\ queue' = IF ~FFmpeg \/ Overflows THEN (IF FFmpeg /\ ~u.key THEN <<>> ELSE <<u>>)
              ELSE Append(queue, u)
  /\ requireKey' = (requireKey /\ ~u.key)
  /\ resetFirst' = IF ~FFmpeg /\ (queue = <<>> \/ u.key) THEN requireKey ELSE resetFirst
\* An overflow drops the delta too and waits for the next key frame; the single
\* slot lets a delta replace a key frame that waits.
Queued(u) ==
  /\ queue' = IF ~FFmpeg \/ Overflows THEN (IF FFmpeg /\ ~u.key THEN <<>> ELSE <<u>>)
              ELSE Append(queue, u)
  /\ requireKey' = ((requireKey \/ Overflows) /\ ~u.key)
  /\ resetFirst' = IF ~FFmpeg /\ (queue = <<>> \/ u.key) THEN requireKey ELSE resetFirst

Render(key, size) ==
  /\ received < MaxUnits
  /\ received' = received + 1
  /\ LET u == [n |-> received + 1, key |-> key, size |-> size]
     IN IF Accepted(u) THEN Queued(u) ELSE UNCHANGED <<queue, requireKey, resetFirst>>
  /\ UNCHANGED <<kind, ready, resetting, stopped, taken, decoder, waiting, coded, fed, done,
                 spoilt>>

(***************************************************************************)
(* The main thread: reset() and the destructor.                            *)
(***************************************************************************)
ResetQueue ==
  /\ ~resetting /\ ~stopped
  /\ resetting' = TRUE /\ queue' = <<>> /\ resetFirst' = FALSE /\ requireKey' = TRUE
  /\ UNCHANGED <<kind, received, ready, stopped, taken, decoder, waiting, coded, fed, done,
                 spoilt>>

ResetDecoder ==
  /\ resetting /\ resetting' = FALSE
  /\ ready' = FALSE /\ decoder' = "none" /\ waiting' = TRUE
  /\ coded' = IF FFmpeg THEN 0 ELSE coded
  /\ spoilt' = FALSE
  /\ UNCHANGED <<kind, received, queue, requireKey, resetFirst, stopped, taken, fed, done>>

Destroy ==
  /\ ~resetting /\ ~stopped /\ stopped' = TRUE /\ queue' = <<>>
  /\ UNCHANGED <<kind, received, requireKey, resetFirst, ready, resetting, taken, decoder,
                 waiting, coded, fed, done, spoilt>>

(***************************************************************************)
(* The decode worker.                                                      *)
(***************************************************************************)
TakeUnit ==
  /\ ~stopped /\ taken = <<>> /\ queue # <<>>
  /\ taken' = <<[unit |-> Head(queue), reset |-> resetFirst]>>
  /\ queue' = Tail(queue) /\ resetFirst' = FALSE
  /\ UNCHANGED <<kind, received, requireKey, ready, resetting, stopped, decoder, waiting, coded,
                 fed, done, spoilt>>

Finish(u) == taken' = <<>> /\ done' = u
Give(u) == decoder' = "fed" /\ fed' = u /\ spoilt' = (spoilt /\ ~u.key)
\* The unit is lost and d left: its decoder cannot be opened, or there is no memory
\* for it, or the decoder refuses it.
Lose(d) == decoder' = d /\ fed' = fed /\ spoilt' = TRUE
Drop(d) == decoder' = d /\ fed' = fed /\ spoilt' = (spoilt /\ d = decoder)

\* A key frame of another size gets a new decoder; without one units are dropped.
DecodeFFmpeg(opens, takes) ==
  /\ FFmpeg /\ taken # <<>>
  /\ LET u == taken[1].unit
         sized == u.key /\ u.size # 0
         anew  == sized /\ coded # 0 /\ u.size # coded
     IN /\ Finish(u)
        /\ coded' = IF ready /\ sized /\ (anew => opens) THEN u.size ELSE coded
        /\ \/ ~ready /\ Drop(decoder)
           \/ ready /\ anew /\ ~opens /\ Lose("none")
           \/ ready /\ ~anew /\ decoder = "none" /\ Drop(decoder)
           \/ ready /\ anew /\ opens /\ (IF takes THEN Give(u) ELSE Lose("fresh"))
           \/ ready /\ ~anew /\ decoder # "none" /\ (IF takes THEN Give(u) ELSE Lose(decoder))
  /\ UNCHANGED <<kind, received, queue, requireKey, resetFirst, ready, resetting, stopped, waiting>>

\* It no longer waits for a key frame once one is there, even when no decoder can be
\* opened for it: the next delta then opens one.
DecodeMediaFoundation(opens, takes) ==
  /\ ~FFmpeg /\ taken # <<>>
  /\ LET u == taken[1].unit
         waits == waiting \/ taken[1].reset
         was == IF taken[1].reset THEN "none" ELSE decoder
     IN /\ Finish(u)
        /\ waiting' = (waits /\ ~u.key)
        /\ coded' = IF waits /\ u.key /\ u.size # 0 THEN u.size ELSE coded
        /\ \/ waits /\ ~u.key /\ Drop(was)
           \/ (waits => u.key) /\ was = "none" /\ ~opens /\ Lose("none")
           \/ (waits => u.key) /\ (was = "none" => opens)
              /\ (IF takes THEN Give(u) ELSE Lose(IF was = "none" THEN "fresh" ELSE was))
  /\ UNCHANGED <<kind, received, queue, requireKey, resetFirst, ready, resetting, stopped>>

Next ==
  \/ \E key \in BOOLEAN, size \in Sizes \cup {0} : Render(key, size)
  \/ ResetQueue \/ ResetDecoder \/ Destroy \/ TakeUnit
  \/ \E opens, takes \in BOOLEAN :
       DecodeFFmpeg(opens, takes) \/ DecodeMediaFoundation(opens, takes)

Spec == Init /\ [][Next]_vars

(***************************************************************************)
(* Properties.                                                             *)
(***************************************************************************)
\* What the decoder is fed can be decoded: units in order, a key frame first, and
\* with FFmpeg no delta whose predecessor was dropped, through overflows, resets
\* and changes of the coded size. Only a unit lost at the decoder itself lets deltas
\* through without what they build on, and until the next key frame.
Feed == INSTANCE DecoderFeed WITH
  exact <- FFmpeg, fed <- [n |-> fed.n, key |-> fed.key], started <- (decoder = "fed")
FeedIsDecodable == Feed!FeedSpec
=============================================================================
