-------------------------- MODULE MCSessionHistory --------------------------
(* Instances of SessionHistory for TLC. *)
EXTENDS MCSessionWriter, SessionHistory
=============================================================================
