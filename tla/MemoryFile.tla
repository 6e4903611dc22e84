------------------------------ MODULE MemoryFile ------------------------------
(***************************************************************************)
(* What a file in memory (VFile opened in mode "v", src/elf.h:96-154)      *)
(* promises its user: it is a sequence of bytes with a position within it, *)
(* and each call does to them what the call of stdio of that name does.    *)
(***************************************************************************)
EXTENDS Integers, Sequences

VARIABLES
    file,   \* the bytes of the file
    at,     \* the position in it
    call    \* the latest call: [op, count, bytes]; bytes are those it wrote
            \* or returned, count is the number it was asked for

vars == <<file, at, call>>

Init == file = <<>> /\ at = 0 /\ call = [op |-> "close", count |-> 0, bytes |-> <<>>]

\* The file with the bytes s at the position, over old ones and past its end.
Overwritten(s) ==
    [i \in 1 .. (IF Len(file) < at + Len(s) THEN at + Len(s) ELSE Len(file)) |->
        IF i \in at + 1 .. at + Len(s) THEN s[i - at] ELSE file[i]]

\* The next n bytes, or what there is of them.
Following(n) ==
    [i \in 1 .. (IF at + n > Len(file) THEN Len(file) - at ELSE n) |->
        file[at + i]]

Write ==
    /\ call'.op = "write"
    /\ Len(call'.bytes) = call'.count
    /\ file' = Overwritten(call'.bytes)
    /\ at' = at + Len(call'.bytes)

Read ==
    /\ call'.op = "read"
    /\ call'.bytes = Following(call'.count)
    /\ at' = at + Len(call'.bytes)
    /\ file' = file

Peek ==
    /\ call'.op = "peek"
    /\ call'.bytes = Following(call'.count)
    /\ UNCHANGED <<file, at>>

\* The position is set within the file, or left alone.
Seek ==
    /\ call'.op = "seek"
    /\ at' \in 0 .. Len(file)
    /\ file' = file

\* Room is asked for: nothing that can be seen.
Reserve ==
    /\ call'.op = "reserve"
    /\ UNCHANGED <<file, at>>

Close ==
    /\ call'.op \in {"open", "close"}
    /\ file' = <<>> /\ at' = 0

Next == Write \/ Read \/ Peek \/ Seek \/ Reserve \/ Close

Spec == Init /\ [][Next]_vars
=============================================================================
