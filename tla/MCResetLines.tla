---------------------------- MODULE MCResetLines ----------------------------
(* Instances of ResetLines for TLC. *)
EXTENDS ResetLines
=============================================================================
