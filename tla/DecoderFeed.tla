---------------------------- MODULE DecoderFeed ----------------------------
(***************************************************************************)
(* What an H.264 decoder needs from the preview renderer in front of it:   *)
(* units in the order they were received, a key frame first, and, when the *)
(* feed is exact, no delta unit without the unit it was coded against.  A  *)
(* unit lost at the decoder itself spoils the feed up to the next key      *)
(* frame: deltas may follow then.                                          *)
(***************************************************************************)
EXTENDS Integers

VARIABLES
  exact,    \* no unit may be missing
  fed,      \* the last unit fed
  started,  \* the decoder has had a key frame
  spoilt    \* it has lost a unit since

FeedInit ==
  exact \in BOOLEAN /\ fed = [n |-> 0, key |-> FALSE] /\ started = FALSE /\ spoilt = FALSE

FeedUnit ==
  /\ fed' \in [n : Nat, key : BOOLEAN] /\ fed'.n > fed.n
  /\ fed'.key \/ spoilt \/ (started /\ (exact => fed'.n = fed.n + 1))
  /\ started' = TRUE /\ spoilt' = (spoilt /\ ~fed'.key) /\ exact' = exact

LoseUnit == spoilt' = TRUE /\ started' \in {started, FALSE} /\ fed' = fed /\ exact' = exact

\* A decoder made or flushed anew.
Restart == started' = FALSE /\ spoilt' = FALSE /\ fed' = fed /\ exact' = exact

FeedSpec == FeedInit /\ [][FeedUnit \/ LoseUnit \/ Restart]_<<exact, fed, started, spoilt>>
=============================================================================
