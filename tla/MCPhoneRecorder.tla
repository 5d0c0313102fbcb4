--------------------------- MODULE MCPhoneRecorder ---------------------------
(* Instance of PhoneRecorder for TLC; the values are set in the .cfg files. *)
EXTENDS PhoneRecorder
=============================================================================
