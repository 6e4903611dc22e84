---------------------------- MODULE FlashPromise ----------------------------
(***************************************************************************)
(* What a download promises to the person who runs esp_tool, without the   *)
(* serial line: an image is announced as written ("%u bytes written        *)
(* successfully", src/esp.cpp:530) only when all of its blocks are in the  *)
(* Flash; images are written one after the other, each within its own      *)
(* blocks; and the new program is started only when all are written.  It   *)
(* promises that for a serial line that is not disturbed.                  *)
(***************************************************************************)
EXTENDS Integers, Sequences

CONSTANTS
    Images,        \* what is written, in order: [addr, blks], in blocks
    FlashBlocks    \* size of the Flash of the device, in blocks

VARIABLES
    written,   \* number of images announced as written
    flash,     \* content of the Flash
    running,   \* TRUE when the new program has been started
    disturbed  \* TRUE when the line has been disturbed: nothing is promised

vars == <<written, flash, running, disturbed>>

Blocks == 0 .. FlashBlocks - 1
Erased == <<0, 0>>
Stale  == <<0, 1>>

Area(s) == Images[s].addr .. Images[s].addr + Images[s].blks - 1
Content(s, b) == <<s, b - Images[s].addr>>
Complete(s) == \A b \in Area(s) : flash[b] = Content(s, b)

Init ==
    /\ written = 0
    /\ flash = [b \in Blocks |-> Stale]
    /\ running = FALSE
    /\ disturbed \in BOOLEAN

\* A step of the work on image s: each of its blocks is left alone, erased or
\* given its data; every other block is left alone.
Work(s) ==
    /\ s \in 1 .. Len(Images) /\ s = written + 1
    /\ \A b \in Blocks \ Area(s) : flash'[b] = flash[b]
    /\ \A b \in Area(s) : flash'[b] \in {flash[b], Erased, Content(s, b)}
    /\ DOMAIN flash' = Blocks
    /\ UNCHANGED <<written, running, disturbed>>

\* An image is announced.
Announce(s) ==
    /\ s \in 1 .. Len(Images) /\ s = written + 1
    /\ Complete(s)
    /\ written' = s
    /\ UNCHANGED <<flash, running, disturbed>>

Start ==
    /\ written = Len(Images)
    /\ running' = TRUE
    /\ UNCHANGED <<written, flash, disturbed>>

\* From here on, anything may be found and said.
Disturb == disturbed' = TRUE

Next == \/ \E s \in 1 .. Len(Images) : Work(s) \/ Announce(s)
        \/ Start
        \/ Disturb

Spec == Init /\ [][Next]_vars
=============================================================================
