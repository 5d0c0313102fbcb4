----------------------------- MODULE TakeTransfer -----------------------------
(***************************************************************************)
(* What moving a clip from the iPhone to the computer promises, whatever   *)
(* happens to the connection, the helper or the app in between: the phone  *)
(* gives a clip up only when its user deletes it or when an intact copy is *)
(* in the project's directory, and such a copy is not lost again.          *)
(***************************************************************************)
VARIABLES
  phone,     \* what the phone still has: "kept", "acknowledged" or "deleted"
  computer   \* an intact copy is in the download directory

vars == <<phone, computer>>

Init == phone = "kept" /\ computer = FALSE

Copy ==
  /\ ~computer
  /\ computer' = TRUE
  /\ UNCHANGED phone

\* transferComplete, sent after the copy was verified.
Acknowledge ==
  /\ phone = "kept"
  /\ computer
  /\ phone' = "acknowledged"
  /\ UNCHANGED computer

\* The clip is deleted from the phone's own list or by REAPER's Delete.
UserDeletes ==
  /\ phone = "kept"
  /\ phone' = "deleted"
  /\ UNCHANGED computer

Next == Copy \/ Acknowledge \/ UserDeletes

Spec == Init /\ [][Next]_vars
=============================================================================
