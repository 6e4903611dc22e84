----------------------------- MODULE TickTimer ------------------------------
(***************************************************************************)
(* Deadlines on the counter of milliseconds: getTickCount, the deadlines   *)
(* of ESP::readPacket and ESP::readByte, and the delay loop msDelay has on *)
(* Windows (src/esp_tool.cpp, src/esp.cpp).  The counter is an unsigned    *)
(* number of 32 bits, which begins anew after 49 days.                     *)
(*                                                                         *)
(* A wait is described by the reading of the counter when it began and the *)
(* milliseconds that have passed since.  PacketReader, FlashReading and    *)
(* FlashDownload let a wait end at any moment; here is what the            *)
(* comparisons with the deadline make of it.  Theorems: FlashReadingProofs.*)
(***************************************************************************)
EXTENDS Integers

CONSTANT Wrap \* number of readings of the counter, 2^32

Reading == 0 .. Wrap - 1

\* getTickCount, when it was start passed milliseconds ago.
getTickCount(start, passed) == (start + passed) % Wrap

\* tickEnd
Deadline(start, msTimeout) == (start + msTimeout) % Wrap

\* The test in the loops of readPacket and readByte.
TimedOut(start, msTimeout, passed) ==
    msTimeout # 0 /\ getTickCount(start, passed) > Deadline(start, msTimeout)

\* The loop of msDelay on Windows is left.
Delayed(start, ms, passed) == ~(getTickCount(start, passed) < Deadline(start, ms))
=============================================================================
