---------------------------- MODULE MCWinFollow ----------------------------
(***************************************************************************)
(* Three users for TLC.  The first waits for the work in hand: that is     *)
(* WinFollow with the values of the .cfg file.  The second goes on to the  *)
(* next pass while the last is still stopped, asked about or downloaded.   *)
(* The third restores and deletes recordings beside one take and beside    *)
(* each other.                                                             *)
(***************************************************************************)
EXTENDS WinFollow

VARIABLE user

Overlapping == INSTANCE WinFollow WITH Patient <- FALSE, OneDownload <- TRUE, MaxRequests <- 0
Tidying == INSTANCE WinFollow WITH Patient <- FALSE, MaxPasses <- 1

MCInit == user \in {"waiting", "overlapping", "tidying"} /\ Init
MCNext ==
  /\ \/ user = "waiting" /\ Next
     \/ user = "overlapping" /\ Overlapping!Next
     \/ user = "tidying" /\ Tidying!Next
  /\ user' = user
MCSpec == MCInit /\ [][MCNext]_<<vars, user>>

\* With a user who waits the phone never films unknown to the extension.
FilmIsOwnedIfPatient == user = "waiting" => FilmIsOwned
=============================================================================
