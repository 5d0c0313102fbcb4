----------------------------- MODULE MCDownloader -----------------------------
(***************************************************************************)
(* Downloads for TLC, fetched two blocks at a time.  Alone: the recording  *)
(* does not change, and the phone knows no checksum of it; the variables   *)
(* are those of Downloader.  Rerendered: the phone replaces the original   *)
(* by a longer movie between two requests; it could not read the size of   *)
(* that one.                                                               *)
(***************************************************************************)
EXTENDS Downloader

CONSTANT Files    \* of the computer, in the second download

VARIABLES which, servedR, dataR, tempR, destR, jobR, givenR

Three == [v \in Version |-> 3]

Rerendered == INSTANCE Downloader WITH
  Version <- {"raw", "look"}, Size <- [v \in {"raw", "look"} |-> IF v = "raw" THEN 3 ELSE 4],
  MaxAttempts <- 2, Sized <- {"raw"}, Summed <- {"raw", "look"}, Inode <- Files,
  served <- servedR, data <- dataR, temp <- tempR, dest <- destR, job <- jobR, given <- givenR

varsR == <<servedR, dataR, tempR, destR, jobR, givenR>>

MCInit == which \in {"alone", "rerendered"} /\ Init /\ Rerendered!Init
MCNext ==
  \/ which = "alone" /\ Next /\ UNCHANGED <<which, varsR>>
  \/ which = "rerendered" /\ Rerendered!Next /\ UNCHANGED <<which, vars>>
MCSpec == MCInit /\ [][MCNext]_<<which, vars, varsR>> /\ (which = "alone" => Fairness)

\* A file mixed from two renderings is not acknowledged: AcknowledgedIsOnDisk while
\* the phone renders again between two requests of a download, or two attempts.
MixtureIsNotAcknowledged == Rerendered!AcknowledgedIsOnDisk
=============================================================================
