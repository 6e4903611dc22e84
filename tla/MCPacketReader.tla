--------------------------- MODULE MCPacketReader ---------------------------
(* Instances of PacketReader for TLC. *)
EXTENDS PacketReader

\* Connect, then two registers whose values are full of bytes to be escaped.
ReadTwo == <<[op |-> 8,  val |-> <<0, 0, 0, 0>>],
             [op |-> 10, val |-> <<192, 219, 220, 2>>],
             [op |-> 10, val |-> <<2, 219, 192, 192>>]>>

AllFaults == FaultKinds

\* A zero, the frame byte and the escape.
Wrong == {0, 192, 219}
=============================================================================
