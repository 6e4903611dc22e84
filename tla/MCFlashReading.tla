--------------------------- MODULE MCFlashReading ---------------------------
(* Instances of FlashReading for TLC. *)
EXTENDS FlashReading

Nothing == <<0, 0, 0, 0>>

\* Connect, and the four commands that load and start the program; the device
\* is made to answer one of them with bytes to be escaped.
LoadStub == <<[op |-> 8, val |-> Nothing], [op |-> 2, val |-> Nothing],
              [op |-> 5, val |-> <<192, 219, 220, 2>>], [op |-> 7, val |-> Nothing],
              [op |-> 6, val |-> Nothing]>>

\* Bytes that are escaped, and bytes that would complete an escape.
Bytes == <<192, 220, 219, 220, 5, 221, 219, 7>>

\* One block that is shorter than BLK; two, the second longer than what is left.
TwoAndFive == {2, 5}

AllFaults == FaultKinds

\* A zero, the frame byte, the escape and a byte that completes one.
Wrong == {0, 192, 219, 220}
=============================================================================
