---------------------------- MODULE MCImageFormat ---------------------------
(* Instances of ImageFormat for TLC. *)
EXTENDS ImageFormat

\* The first lies where the RAM for code begins, 0x40100000.  Sizes with a rest
\* of three, of zero with no data, of two and of one; the second ".data" is never
\* found; the last looks like the start of an image.  The checksum of ".text" and
\* ".rodata" together is zero.
Sections ==
    <<[name |-> ".text",   addr |-> 1074790400, data |-> <<1, 128, 255>>],
      [name |-> ".data",   addr |-> 32, data |-> <<>>],
      [name |-> ".data",   addr |-> 33, data |-> <<7>>],
      [name |-> ".rodata", addr |-> 64, data |-> <<9, 0, 85, 170, 3, 100>>],
      [name |-> ".bin",    addr |-> 80, data |-> <<233, 4, 4, 4, 5>>]>>

AllNames == {".text", ".data", ".rodata", ".bin", ".missing"}
OneOrTwo == {1, 2}
Bit == {128}
=============================================================================
