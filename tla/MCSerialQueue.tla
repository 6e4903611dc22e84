---------------------------- MODULE MCSerialQueue ----------------------------
(* Instances of SerialQueue for TLC. *)
EXTENDS SerialQueue
AnyOrder == {"ascending", "descending"}
Ascending == {"ascending"}
=============================================================================
