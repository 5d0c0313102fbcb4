------------------------------ MODULE MCDisplay ------------------------------
(***************************************************************************)
(* What the user sees and sets on Windows: the live preview's renderer,    *)
(* the preview of a take during playback, the Setup window; each on its    *)
(* own and chosen in the initial state.                                    *)
(***************************************************************************)
EXTENDS Integers

CONSTANTS
  Cap, Sizes, MaxUnits,
  Clips, Length, Keys, Delay, Back, Ahead, MaxPackets, MaxRequests,
  Hosts, Profiles, MaxActs

VARIABLES which,
  kind, received, queue, requireKey, resetFirst, ready, resetting, stopped, taken, decoder,
  waiting, coded, fed, done, spoilt,
  pending, hidden, worker, request, open, position, next, lastDecoded, lastRendered, sought,
  frame, requests, latest, shown, failed,
  window, fields, panel, ext, saved, pushed, jobs, acts, found

ASSUME DisplayAssumption ==
  /\ {Cap, MaxUnits, Length, Delay, Back, Ahead, MaxPackets, MaxRequests, MaxActs} \subseteq Nat
  /\ Sizes \subseteq Nat \ {0} /\ "" \notin Hosts /\ Profiles # {}
  /\ 0 \in Keys /\ Keys \subseteq 0..(Length - 1)

Renderer == INSTANCE H264Renderer
Playback == INSTANCE PlaybackPreview WITH Fallible <- TRUE
Setup == INSTANCE SetupPanel

rvars == <<kind, received, queue, requireKey, resetFirst, ready, resetting, stopped, taken,
           decoder, waiting, coded, fed, done, spoilt>>
bvars == <<pending, hidden, worker, request, open, position, next, lastDecoded, lastRendered,
           sought, frame, requests, latest, shown, failed>>
svars == <<window, fields, panel, ext, saved, pushed, jobs, acts, found>>
vars == <<which, rvars, bvars, svars>>

\* A component that is not the one chosen rests in one of its initial states.
Init ==
  /\ which \in {"renderer", "playback", "setup"}
  /\ Renderer!Init /\ Playback!Init /\ Setup!Init
  /\ which # "renderer" => kind = "ffmpeg"
  /\ which # "setup" => ext = CHOOSE e \in Setup!Settings : TRUE

Next ==
  \/ which = "renderer" /\ Renderer!Next /\ UNCHANGED <<which, bvars, svars>>
  \/ which = "playback" /\ Playback!Next /\ UNCHANGED <<which, rvars, svars>>
  \/ which = "setup" /\ Setup!Next /\ UNCHANGED <<which, rvars, bvars>>

Spec == Init /\ [][Next]_vars

\* Every component's state has its type, and the renderer's queue its bound.
TypeOK == Renderer!TypeOK /\ Playback!TypeOK /\ Setup!TypeOK
\* What the decoder is fed can be decoded, through overflows, resets and changes of size.
FeedIsDecodable == Renderer!FeedIsDecodable
\* Once the worker rests, the view shows what was asked last.
ShowsLatestRequest == Playback!ShowsLatestRequest
\* A pairing survives the end of REAPER, and a token that was rejected does not come back.
TokenIsSaved == Setup!TokenIsSaved
\* Pair and configure go to the host that the Setup window shows.
CommandGoesToShownHost == Setup!CommandGoesToShownHost
\* Discover, then Pair: the phone paired is the one found.
DiscoveredPhoneIsPaired == Setup!DiscoveredPhoneIsPaired
=============================================================================
