--------------------------- MODULE MCFlashDownload ---------------------------
(* Instances of FlashDownload for TLC. *)
EXTENDS FlashDownload

\* Two images that touch: a wrong base or count of the first hits the second.
TwoImages == <<[addr |-> 1, blks |-> 2], [addr |-> 3, blks |-> 1]>>

\* Written in descending order of address, with an empty segment between.
ThreeImages == <<[addr |-> 2, blks |-> 2], [addr |-> 1, blks |-> 0],
                 [addr |-> 0, blks |-> 1]>>

NoFaults == {}

AllFaults == FaultKinds
=============================================================================
