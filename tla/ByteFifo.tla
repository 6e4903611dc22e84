------------------------------ MODULE ByteFifo ------------------------------
(***************************************************************************)
(* What SerialQueue (src/serial.h:63-92) promises its user: the bytes that *)
(* were received are handed out once each, in the order they came in,      *)
(* unless they are thrown away by a flush.                                 *)
(***************************************************************************)
EXTENDS Naturals, Sequences

CONSTANT Byte

VARIABLES
    fifo,    \* bytes received and not handed out
    out      \* bytes handed out, in order

vars == <<fifo, out>>

Init == fifo = <<>> /\ out = <<>>

Receive ==
    /\ \E b \in Byte : fifo' = Append(fifo, b)
    /\ out' = out

\* The first n bytes are handed out.
Take(n) ==
    /\ n \in 1 .. Len(fifo)
    /\ out' = out \o SubSeq(fifo, 1, n)
    /\ fifo' = SubSeq(fifo, n + 1, Len(fifo))

Discard == fifo' = <<>> /\ out' = out

\* The queue is emptied, what the driver holds stays.
DiscardSome(n) ==
    /\ n \in 1 .. Len(fifo)
    /\ fifo' = SubSeq(fifo, n + 1, Len(fifo))
    /\ out' = out

Next == \/ Receive
        \/ Discard
        \/ \E n \in 1 .. Len(fifo) : Take(n) \/ DiscardSome(n)

Spec == Init /\ [][Next]_vars
=============================================================================
