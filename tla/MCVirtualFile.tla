---------------------------- MODULE MCVirtualFile ----------------------------
(* Instances of VirtualFile for TLC. *)
EXTENDS VirtualFile
=============================================================================
