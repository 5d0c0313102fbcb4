---------------------------- MODULE PlaybackPreview ----------------------------
(***************************************************************************)
(* The preview of a take during playback (ffmpeg_playback_preview.cpp):    *)
(* REAPER's timer asks for a clip at a time, one slot keeps the latest     *)
(* request, and a worker opens, seeks and decodes.  Time counts frames of  *)
(* 1/30 s.  The decoder is frame-threaded: a frame comes out when Delay    *)
(* more have been sent, and at the end of the file nothing flushes it.     *)
(***************************************************************************)
EXTENDS Integers, FiniteSetsExt

CONSTANTS
  Clips, Length, \* the clips, each of Length frames
  Keys,          \* the key frames
  Delay,         \* frames the decoder holds back
  Back, Ahead,   \* 3 (0.10 s) and 22 (0.75 s) in the code
  MaxPackets,    \* 200 in the code
  MaxRequests,   \* bound: requests
  Fallible       \* opening and seeking may fail

None == [clip |-> "none", time |-> 0]
Request == [clip : Clips, time : 0..(Length - 1)] \cup {None}
NoTime == -1
Time == {NoTime} \cup (0..(Length - 1))

VARIABLES
  pending,      \* pendingRequest_, None without hasPendingRequest_
  hidden,       \* hidden_
  worker,       \* "idle", "rendering", "decoded" or "emitting"
  request,      \* what the worker renders
  open,         \* activePath_
  position,     \* the next packet av_read_frame returns
  next,         \* the next frame the decoder returns
  lastDecoded, lastRendered, \* lastDecoderSourceTime_, lastRenderedSourceTime_
  sought,       \* soughtSinceOpen_
  frame,        \* frame_, the frame decoded for the request
  \* history: requests made; the latest one; what the view shows; a call failed
  requests, latest, shown, failed

decoder == <<open, position, next, lastDecoded, lastRendered, sought>>
vars == <<pending, hidden, worker, request, decoder, frame, requests, latest, shown, failed>>

TypeOK ==
  /\ {pending, request, latest, shown} \subseteq Request
  /\ {hidden, sought, failed} \subseteq BOOLEAN
  /\ worker \in {"idle", "rendering", "decoded", "emitting"}
  /\ open \in Clips \cup {"none"} /\ position \in 0..Length /\ next \in 0..Length
  /\ {lastDecoded, lastRendered, frame} \subseteq Time
  /\ requests \in 0..MaxRequests
  /\ next <= position /\ position - next <= Delay /\ lastDecoded < position

Init ==
  /\ pending = None /\ hidden = FALSE /\ worker = "idle" /\ request = None
  /\ open = "none" /\ position = 0 /\ next = 0 /\ lastDecoded = NoTime
  /\ lastRendered = NoTime /\ sought = FALSE /\ frame = NoTime
  /\ requests = 0 /\ latest = None /\ shown = None /\ failed = FALSE

ShowMedia(clip, time) ==
  /\ requests < MaxRequests
  /\ pending' = [clip |-> clip, time |-> time] /\ latest' = pending' /\ hidden' = FALSE
  /\ requests' = requests + 1
  /\ UNCHANGED <<worker, request, decoder, frame, shown, failed>>

Hide ==
  /\ ~hidden /\ hidden' = TRUE /\ pending' = None
  /\ UNCHANGED <<worker, request, decoder, frame, requests, latest, shown, failed>>

WorkerTakes ==
  /\ worker = "idle" /\ pending # None
  /\ worker' = "rendering" /\ request' = pending /\ pending' = None
  /\ UNCHANGED <<hidden, decoder, frame, requests, latest, shown, failed>>

(***************************************************************************)
(* renderRequest: another clip is opened first; the time rendered last is  *)
(* not rendered again; a jump backward or far forward seeks to the key     *)
(* frame before it, and a decoder that is near reads on.                   *)
(***************************************************************************)
OpenFails ==
  /\ worker = "rendering" /\ Fallible /\ request.clip # open
  /\ open' = "none" /\ position' = 0 /\ next' = 0 /\ lastDecoded' = NoTime
  /\ lastRendered' = NoTime /\ sought' = FALSE
  /\ worker' = "idle" /\ failed' = TRUE
  /\ UNCHANGED <<pending, hidden, request, frame, requests, latest, shown>>

Skip ==
  /\ worker = "rendering" /\ request.clip = open /\ lastRendered = request.time
  /\ worker' = "idle"
  /\ UNCHANGED <<pending, hidden, request, decoder, frame, requests, latest, shown, failed>>

NeedsSeek_Forward(t, last, soughtBefore) ==
  IF last = NoTime THEN ~soughtBefore ELSE t > last + Ahead
NeedsSeek(t, last, soughtBefore) ==
  IF last = NoTime THEN ~soughtBefore ELSE t < last - Back \/ t > last + Ahead

KeyBefore(t) == Max({k \in Keys : k <= t})

\* From packet p on, with frame n the next to come out: read until the frame of
\* time t comes out, the file ends, or MaxPackets are read.
Decode(t, p, n, last) ==
  LET want == Max({n, t - 1})
      enough == want + Delay + 1
      end == Min({enough, p + MaxPackets, Length})
      out == Max({n, end - Delay})
  IN /\ position' = end /\ next' = out
     /\ lastDecoded' = IF out > n THEN out - 1 ELSE last
     /\ IF end = enough THEN frame' = want /\ worker' = "decoded"
        ELSE frame' = NoTime /\ worker' = "idle"

Render(seeks) ==
  /\ worker = "rendering" /\ (seeks \/ Fallible)
  /\ LET fresh == request.clip # open
         last == IF fresh THEN NoTime ELSE lastDecoded
         need == NeedsSeek(request.time, last, ~fresh /\ sought)
         key == KeyBefore(request.time)
     IN /\ fresh \/ lastRendered # request.time
        /\ open' = request.clip
        /\ lastRendered' = IF fresh THEN NoTime ELSE lastRendered
        /\ IF need /\ ~seeks
           THEN /\ worker' = "idle" /\ failed' = TRUE /\ lastDecoded' = last
                /\ position' = IF fresh THEN 0 ELSE position
                /\ next' = IF fresh THEN 0 ELSE next
                /\ sought' = (~fresh /\ sought) /\ UNCHANGED frame
           ELSE /\ Decode(request.time, IF need THEN key ELSE position,
                          IF need THEN key ELSE next, IF need THEN NoTime ELSE last)
                /\ sought' = (need \/ sought) /\ UNCHANGED failed
  /\ UNCHANGED <<pending, hidden, request, requests, latest, shown>>

\* emitFrame asks whether the preview is hidden, then calls the frame handler.
CheckHidden ==
  /\ worker = "decoded" /\ worker' = IF hidden THEN "idle" ELSE "emitting"
  /\ UNCHANGED <<pending, hidden, request, decoder, frame, requests, latest, shown, failed>>

Emit ==
  /\ worker = "emitting" /\ worker' = "idle"
  /\ shown' = [clip |-> open, time |-> frame] /\ lastRendered' = request.time
  /\ UNCHANGED <<pending, hidden, request, open, position, next, lastDecoded, sought, frame,
                 requests, latest, failed>>

Next ==
  \/ \E clip \in Clips, time \in 0..(Length - 1) : ShowMedia(clip, time)
  \/ Hide \/ WorkerTakes \/ OpenFails \/ Skip
  \/ \E seeks \in BOOLEAN : Render(seeks)
  \/ CheckHidden \/ Emit

Spec == Init /\ [][Next]_vars

(***************************************************************************)
(* Properties.                                                             *)
(***************************************************************************)
\* When the worker has nothing to do, the view shows the clip and, up to the
\* tolerance for a step backward, the frame of the latest request, whatever was
\* asked, hidden and replaced before; not near the end of the clip, where the
\* decoder keeps its last frames.
ShowsLatestRequest ==
  (/\ worker = "idle" /\ pending = None /\ ~hidden /\ latest # None /\ ~failed
   /\ latest.time + Delay + Back + 1 < Length)
  => /\ shown.clip = latest.clip
     /\ shown.time \in (latest.time - 1)..(latest.time + Back + 1)
=============================================================================
