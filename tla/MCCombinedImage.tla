--------------------------- MODULE MCCombinedImage ---------------------------
(* Instances of CombinedImage for TLC, for blocks of 8 bytes. *)
EXTENDS CombinedImage

\* A rest of one, three and two bytes, the last in a third block.
AllSizes == {1, 7, 18}
BootImages == {16}
ElfImages == {1, 18}
Places == {0, 24}
\* One on a block boundary, and two in the block that begins at 16.
ElfPlaces == {8, 20, 22}
\* No boot image, one without segments, and one longer than most images here.
AllReaches == {0, 16, 32}
Both == {"sparse", "padded"}
Sparse == {"sparse"}
Padded == {"padded"}
=============================================================================
