---------------------------- MODULE MCWinPreview ----------------------------
(* Instance of WinPreview for TLC; the bounds are set in the .cfg files. *)
EXTENDS WinPreview
=============================================================================
