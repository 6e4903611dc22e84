---------------------------- MODULE FlashDownload ----------------------------
(***************************************************************************)
(* Writing images to the Flash of an ESP8266: the host side of             *)
(* ESP::FlashWrite and ESP::flashWrite (src/esp.cpp), the exchange of one  *)
(* command for one reply made by ESP::doCommand, and the step to the new   *)
(* program that main (src/esp_tool.cpp) makes after the last file.         *)
(*                                                                         *)
(* The exchange is a stop-and-wait protocol without sequence numbers on    *)
(* the replies: a reply names the kind of command it answers and nothing   *)
(* else.  The serial line is a FIFO in each direction; the buffer of the   *)
(* operating system at the host's end is rx.  Flash is counted in blocks   *)
(* of ESP_FLASH_BLK_SIZE bytes and the content of a block is the pair      *)
(* <<image, block of that image>>.                                         *)
(*                                                                         *)
(* The boot loader of the device and the serial line are not part of the   *)
(* repository; they are modelled from how src/ uses them.                  *)
(***************************************************************************)
EXTENDS Integers, Sequences

CONSTANTS
    Images,        \* what is written, in order: [addr, blks], both in blocks
    FlashBlocks,   \* size of the Flash of the device, in blocks
    MaxTries,      \* attempts at one FLASH_DATA command (3 in the code)
    RunMode,       \* how main starts the program: "none", "command", "reset"
    FlushesOutput, \* TRUE: SerialFlush discards output too (Linux, serial.cpp:295)
    LateReplies,   \* TRUE: the host may time out while an answer is on its way
    Faults,        \* what may go wrong
    MaxFaults,     \* bound on the number of faults in a behaviour
    MaxRests       \* bound on the pieces that are left over on the line

FaultKinds == {"lost_command", "damaged_command", "lost_reply",
               "damaged_reply", "device_reset", "send_error", "read_error"}

Blocks == 0 .. FlashBlocks - 1

\* The Flash blocks of image s.
Area(s) == Images[s].addr .. Images[s].addr + Images[s].blks - 1

ASSUME SizesAssumption ==
    /\ FlashBlocks \in Nat
    /\ MaxTries \in Nat \ {0}
    /\ MaxFaults \in Nat
    /\ MaxRests \in Nat

\* An address stands for the block flashBegin masks it to (esp.cpp:1413).  The
\* images lie inside the Flash and share no block, as they do when a file is
\* given on a block boundary (esp_tool.cpp:1311); CombinedImage tells when the
\* images of one program may share one.
ASSUME ImagesAssumption ==
    /\ Images \in Seq([addr : Nat, blks : Nat])
    /\ Images # <<>>
    /\ \A s \in 1 .. Len(Images) : Area(s) \subseteq Blocks
    /\ \A s, t \in 1 .. Len(Images) : s # t => Area(s) \cap Area(t) = {}

ASSUME LinkAssumption ==
    /\ FlushesOutput \in BOOLEAN
    /\ LateReplies \in BOOLEAN
    /\ Faults \subseteq FaultKinds
    /\ RunMode \in {"none", "command", "reset"}

VARIABLES
    pc,       \* the command the host is at, or how the download ended
    waiting,  \* TRUE while readPacket waits for the reply to it
    seg,      \* image being written; the images before it are announced written
    blk,      \* blkIdx: the blocks of image seg before it are acknowledged
    try,      \* attempts made at the current command
    rx,       \* replies in the receive buffer of the host
    toDev,    \* commands on their way to the device
    toHost,   \* replies on their way to the host
    dev,      \* the device: mode of its boot loader, and base address
    flash,    \* content of the Flash
    faults,   \* number of faults so far
    rests     \* number of pieces left over on the line so far

host == <<pc, waiting, seg, blk, try>>
link == <<rx, toDev, toHost>>
vars == <<pc, waiting, seg, blk, try, rx, toDev, toHost, dev, flash, faults,
          rests>>

-----------------------------------------------------------------------------
(* Values *)

Erased  == <<0, 0>>
Stale   == <<0, 1>>   \* what was in the Flash before
Garbled == <<0, 2>>   \* a block programmed over other data

Own(s, k) == <<s, k>> \* block k of image s

\* The data that belong in a Flash block, if an image covers it.
Proper(b) == {Own(s, b - Images[s].addr) :
                  s \in {t \in 1 .. Len(Images) : b \in Area(t)}}

CommandPcs == {"Begin", "Data", "RunBegin", "RunEnd"}

BeginCommand(a, n) == [op |-> "begin", addr |-> a, blks |-> n]
DataCommand(s, k)  == [op |-> "data", seq |-> k, img |-> s]
EndCommand         == [op |-> "end"]
JunkCommand        == [op |-> "junk"]
PartialCommand     == [op |-> "partial"]  \* a frame without its end

Commands == {BeginCommand(Images[s].addr, Images[s].blks) :
                  s \in 1 .. Len(Images)}
            \cup {DataCommand(s, k) : s \in 1 .. Len(Images), k \in Blocks}
            \cup {BeginCommand(0, 0), EndCommand, JunkCommand, PartialCommand}

Reply(o, good) == [op |-> o, ok |-> good]
Junk           == Reply("junk", FALSE)

Replies == {Reply(o, good) : o \in {"begin", "data", "end"}, good \in BOOLEAN}
           \cup {Junk}

Contents == {Erased, Stale, Garbled}
            \cup {Own(s, k) : s \in 1 .. Len(Images), k \in Blocks}

\* Mutation: one block more is erased than the image has.
CommandErasesMore ==
    CASE pc = "Begin"    -> BeginCommand(Images[seg].addr, Images[seg].blks + 1)
      [] pc = "Data"     -> DataCommand(seg, blk)
      [] pc = "RunBegin" -> BeginCommand(0, 0)
      [] OTHER           -> EndCommand

\* The command that flashBegin, flashWrite or flashFinish has put together.
Command ==
    CASE pc = "Begin"    -> BeginCommand(Images[seg].addr, Images[seg].blks)
      [] pc = "Data"     -> DataCommand(seg, blk)
      [] pc = "RunBegin" -> BeginCommand(0, 0)
      [] OTHER           -> EndCommand

Op == CASE pc \in {"Begin", "RunBegin"} -> "begin"
        [] pc = "Data"                  -> "data"
        [] OTHER                        -> "end"

\* Mutation: one attempt less.
TriesLess == IF pc = "Data" THEN MaxTries - 1 ELSE 1

Tries == IF pc = "Data" THEN MaxTries ELSE 1

-----------------------------------------------------------------------------
Init ==
    /\ pc = "Begin" /\ waiting = FALSE /\ seg = 1 /\ blk = 0 /\ try = 0
    /\ rx = <<>> /\ toDev = <<>> /\ toHost = <<>>
    /\ dev = [mode |-> "loader", base |-> 0]
    /\ flash = [b \in Blocks |-> Stale]
    /\ faults = 0 /\ rests = 0

Fault(f) == /\ f \in Faults
            /\ faults < MaxFaults
            /\ faults' = faults + 1

\* A piece of a frame stays on the line, for somebody else to meet.
LeftOver == rests < MaxRests /\ rests' = rests + 1

(***************************************************************************)
(* The host.                                                               *)
(***************************************************************************)

\* What FlushComm leaves of the commands written before: on Linux, those that
\* are not yet transmitted are discarded with the received bytes.
Unflushed == IF FlushesOutput THEN {toDev, <<>>} ELSE {toDev}

\* sendCommand: FlushComm, then the packet is written.
SendCommand ==
    /\ pc \in CommandPcs /\ ~waiting
    /\ waiting' = TRUE
    /\ try' = try + 1
    /\ rx' = <<>>
    /\ \E unsent \in Unflushed : toDev' = Append(unsent, Command)
    /\ UNCHANGED <<pc, seg, blk, toHost, dev, flash, faults, rests>>

\* Mutation: the status is not looked at after the last attempt.
AttemptFailedSkips(n) ==
    /\ pc' = CASE pc = "Begin" -> "Failed"
               [] pc = "Data"  -> "Data"
               [] OTHER        -> "Done"
    /\ waiting' = FALSE
    /\ seg' = seg
    /\ blk' = IF pc = "Data" /\ n >= Tries THEN blk + 1 ELSE blk

\* Mutation: main goes on to the run step after a failed download.
AttemptFailedRuns(n) ==
    /\ pc' = IF n < Tries THEN pc
             ELSE IF pc \in {"Begin", "Data"} THEN "RunBegin" ELSE "Done"
    /\ waiting' = FALSE
    /\ UNCHANGED <<seg, blk>>

\* A failed attempt: the next one, or the end of the download.  main does not
\* look at the result of Run.
AttemptFailed(n) ==
    /\ pc' = IF n < Tries THEN pc
             ELSE IF pc \in {"Begin", "Data"} THEN "Failed" ELSE "Done"
    /\ waiting' = FALSE
    /\ UNCHANGED <<seg, blk>>

\* writePacket fails: nothing was written, or a frame without its end, which
\* the device meets with the next command.
SendFails ==
    /\ pc \in CommandPcs /\ ~waiting
    /\ Fault("send_error")
    /\ try' = try + 1
    /\ AttemptFailed(try + 1)
    /\ rx' = <<>>
    /\ \E unsent \in Unflushed :
          \/ toDev' = unsent /\ rests' = rests
          \/ toDev' = Append(unsent, PartialCommand) /\ LeftOver
    /\ UNCHANGED <<toHost, dev, flash>>

\* vf.Read comes back short before the end of the file (esp.cpp:489-501).
ReadFails ==
    /\ pc = "Data" /\ ~waiting /\ try = 0
    /\ Fault("read_error")
    /\ pc' = "Failed"
    /\ UNCHANGED <<waiting, seg, blk, try, rx, toDev, toHost, dev, flash, rests>>

\* readPacket returns something else than 2: it has met a bad frame, a reply
\* to another kind of command, or a status that is not zero.  It returns at the
\* first byte that is wrong (esp.cpp:1678-1705).  The rest of the frame may
\* still be on its way and miss the flush of the next command; when all that
\* was left was the byte that ends a frame, readPacket has taken it for the
\* start of one and has read into the reply that follows.
BadReply ==
    /\ waiting
    /\ rx # <<>>
    /\ rx[1] # Reply(Op, TRUE)
    /\ rx' = Tail(rx)
    /\ \/ toHost' = toHost /\ rests' = rests
       \/ /\ rx' = <<>> /\ rx[1].op # Op
          /\ toHost' = <<Junk>> \o toHost /\ LeftOver
       \/ /\ rx' = <<>> /\ rx[1] = Junk /\ toHost # <<>>
          /\ toHost' = [toHost EXCEPT ![1] = Junk] /\ LeftOver
    /\ AttemptFailed(try)
    /\ UNCHANGED <<try, toDev, dev, flash, faults>>

\* Mutation: the deadline is looked at only when something was received.
TimeoutWhenReceived ==
    /\ waiting
    /\ rx # <<>>
    /\ AttemptFailed(try)
    /\ UNCHANGED <<try, rx, toDev, toHost, dev, flash, faults, rests>>

\* readPacket runs out of time.
Timeout ==
    /\ waiting
    /\ \/ LateReplies
       \/ rx = <<>> /\ toDev = <<>> /\ toHost = <<>>
    /\ AttemptFailed(try)
    /\ UNCHANGED <<try, rx, toDev, toHost, dev, flash, faults, rests>>

\* What follows the last image.
AfterImages == CASE RunMode = "command" -> "RunBegin"
                 [] RunMode = "reset"   -> "ResetRun"
                 [] OTHER               -> "Done"

\* Mutation: off by one at the end of the image.
ProceedOneMore(k) ==
    \/ /\ k <= Images[seg].blks
       /\ pc' = "Data"
       /\ seg' = seg /\ blk' = k
    \/ /\ k > Images[seg].blks
       /\ pc' = IF seg < Len(Images) THEN "Begin" ELSE AfterImages
       /\ seg' = seg + 1 /\ blk' = 0

\* Blocks 0 .. k-1 of the current image are acknowledged: the next block, the
\* next image, or main's last step.
Proceed(k) ==
    \/ /\ k < Images[seg].blks
       /\ pc' = "Data"
       /\ seg' = seg /\ blk' = k
    \/ /\ k >= Images[seg].blks
       /\ pc' = IF seg < Len(Images) THEN "Begin" ELSE AfterImages
       /\ seg' = seg + 1 /\ blk' = 0

\* readPacket returns 2 and doCommand ESP_SUCCESS.
GoodReply ==
    /\ waiting
    /\ rx # <<>>
    /\ rx[1] = Reply(Op, TRUE)
    /\ rx' = Tail(rx)
    /\ waiting' = FALSE
    /\ try' = 0
    /\ \/ pc = "Begin" /\ Proceed(0)
       \/ pc = "Data" /\ Proceed(blk + 1)
       \/ pc = "RunBegin" /\ pc' = "RunEnd" /\ UNCHANGED <<seg, blk>>
       \/ pc = "RunEnd" /\ pc' = "Done" /\ UNCHANGED <<seg, blk>>
    /\ UNCHANGED <<toDev, toHost, dev, flash, faults, rests>>

\* ResetDevice(mode, true): the reset line is pulsed with GPIO0 high.
ResetToRun ==
    /\ pc = "ResetRun"
    /\ pc' = "Done"
    /\ dev' = [dev EXCEPT !.mode = "app"]
    /\ UNCHANGED <<waiting, seg, blk, try, rx, toDev, toHost, flash, faults,
                   rests>>

\* The replies arrive in the receive buffer.
Deliver ==
    /\ toHost # <<>>
    /\ rx' = Append(rx, toHost[1])
    /\ toHost' = Tail(toHost)
    /\ UNCHANGED <<pc, waiting, seg, blk, try, toDev, dev, flash, faults, rests>>

(***************************************************************************)
(* The boot loader of the device.                                          *)
(***************************************************************************)

Take(answer) ==
    /\ toDev' = Tail(toDev)
    /\ toHost' = IF answer = <<>> THEN toHost ELSE Append(toHost, answer[1])
    /\ UNCHANGED <<pc, waiting, seg, blk, try, rx, faults, rests>>

\* FLASH_BEGIN: erase the blocks and remember where they start.
DeviceBegin ==
    /\ toDev # <<>> /\ toDev[1].op = "begin"
    /\ dev.mode \in {"loader", "flash"}
    /\ dev' = [mode |-> "flash", base |-> toDev[1].addr]
    /\ flash' = [b \in Blocks |->
                    IF b \in toDev[1].addr .. toDev[1].addr + toDev[1].blks - 1
                    THEN Erased ELSE flash[b]]
    /\ Take(<<Reply("begin", TRUE)>>)

\* FLASH_DATA: program one block.  Programming only clears bits, so a block
\* that was not erased and holds other data is spoilt.
DeviceData ==
    /\ toDev # <<>> /\ toDev[1].op = "data"
    /\ dev.mode = "flash"
    /\ LET b == dev.base + toDev[1].seq
           d == Own(toDev[1].img, toDev[1].seq)
       IN  flash' = [c \in Blocks |->
                        IF c # b THEN flash[c]
                        ELSE IF flash[c] \in {Erased, d} THEN d ELSE Garbled]
    /\ dev' = dev
    /\ Take(<<Reply("data", TRUE)>>)

\* FLASH_END with a zero argument: start the program in the Flash.
DeviceEnd ==
    /\ toDev # <<>> /\ toDev[1].op = "end"
    /\ dev.mode = "flash"
    /\ dev' = [dev EXCEPT !.mode = "app"]
    /\ flash' = flash
    /\ Take(<<Reply("end", TRUE)>>)

\* A frame whose checksum is wrong, or a command that needs a FLASH_BEGIN.
DeviceRefuses ==
    /\ toDev # <<>>
    /\ \/ toDev[1].op = "junk" /\ dev.mode \in {"loader", "flash"}
       \/ toDev[1].op \in {"data", "end"} /\ dev.mode = "loader"
    /\ UNCHANGED <<dev, flash>>
    /\ Take(<<Reply(toDev[1].op, FALSE)>>)

\* A device that runs its program, or nothing at all, does not answer.
DeviceSilent ==
    /\ toDev # <<>>
    /\ dev.mode \in {"app", "off"}
    /\ UNCHANGED <<dev, flash>>
    /\ Take(<<>>)

\* A frame without its end, and the start of the next one ends it: it is
\* refused or passed over, and the next command is found or passed over too.
DeviceJoins ==
    /\ Len(toDev) > 1 /\ toDev[1].op = "partial"
    /\ \E next \in {Tail(toDev), Tail(Tail(toDev))} :
          toDev' \in {next, <<JunkCommand>> \o next}
    /\ UNCHANGED <<pc, waiting, seg, blk, try, rx, toHost, dev, flash, faults,
                   rests>>

(***************************************************************************)
(* What goes wrong.                                                        *)
(***************************************************************************)

LoseCommand ==
    /\ toDev # <<>> /\ Fault("lost_command")
    /\ toDev' = Tail(toDev)
    /\ UNCHANGED <<pc, waiting, seg, blk, try, rx, toHost, dev, flash, rests>>

DamageCommand ==
    /\ toDev # <<>> /\ Fault("damaged_command")
    /\ toDev' = [toDev EXCEPT ![1] = JunkCommand]
    /\ UNCHANGED <<pc, waiting, seg, blk, try, rx, toHost, dev, flash, rests>>

LoseReply ==
    /\ toHost # <<>> /\ Fault("lost_reply")
    /\ toHost' = Tail(toHost)
    /\ UNCHANGED <<pc, waiting, seg, blk, try, rx, toDev, dev, flash, rests>>

DamageReply ==
    /\ toHost # <<>> /\ Fault("damaged_reply")
    /\ toHost' = [toHost EXCEPT ![1] = Junk]
    /\ UNCHANGED <<pc, waiting, seg, blk, try, rx, toDev, dev, flash, rests>>

\* Bytes that belong to no reply.
Noise ==
    /\ LeftOver
    /\ rx' = Append(rx, Junk)
    /\ UNCHANGED <<pc, waiting, seg, blk, try, toDev, toHost, dev, flash, faults>>

\* The device restarts in its boot loader, or stops answering.
DeviceReset ==
    /\ dev.mode \in {"loader", "flash"} /\ Fault("device_reset")
    /\ \E m \in {"loader", "off"} : dev' = [dev EXCEPT !.mode = m]
    /\ UNCHANGED <<pc, waiting, seg, blk, try, rx, toDev, toHost, flash, rests>>

-----------------------------------------------------------------------------
Host == \/ SendCommand \/ SendFails \/ ReadFails
        \/ BadReply \/ GoodReply \/ Timeout \/ ResetToRun

Device == \/ DeviceBegin \/ DeviceData \/ DeviceEnd
          \/ DeviceRefuses \/ DeviceSilent \/ DeviceJoins

Environment == \/ LoseCommand \/ DamageCommand \/ LoseReply \/ DamageReply
               \/ Noise \/ DeviceReset

Next == Host \/ Device \/ Deliver \/ Environment

Spec == Init /\ [][Next]_vars

\* The host is a sequential program whose waits are bounded by a deadline.
FairHost == Spec /\ WF_vars(Host)

-----------------------------------------------------------------------------
(* Properties *)

Modes == {"loader", "flash", "app", "off"}

\* The variables have their types; blk stays within the image being written.
TypeOK ==
    /\ pc \in CommandPcs \cup {"ResetRun", "Done", "Failed"}
    /\ waiting \in BOOLEAN
    /\ seg \in 1 .. Len(Images) + 1
    /\ blk \in Nat
    /\ try \in 0 .. MaxTries
    /\ rx \in Seq(Replies) /\ toHost \in Seq(Replies)
    /\ toDev \in Seq(Commands)
    /\ dev \in [mode : Modes, base : Nat]
    /\ flash \in [Blocks -> Contents]
    /\ faults \in 0 .. MaxFaults /\ rests \in 0 .. MaxRests
    /\ pc \in {"Begin", "Data"} => seg <= Len(Images)
    /\ pc = "Data" => blk < Images[seg].blks

\* The line answers in time, and nothing has been left over on it so far.
Orderly == ~LateReplies /\ rests = 0

\* Every block the host counts as acknowledged is in the Flash.
BlocksStored ==
    \A s \in 1 .. Len(Images) : \A b \in Area(s) :
        (s < seg \/ (s = seg /\ b < Images[s].addr + blk))
            => flash[b] = Own(s, b - Images[s].addr)

\* As long as the line is orderly, what is acknowledged is stored.  A reply
\* does not say which FLASH_DATA it answers, so this depends on which attempt
\* the host takes a reply for: esp.cpp:520-526.
AckedStored == Orderly => BlocksStored

\* "%u bytes written successfully" (esp.cpp:530): when the tool has ended
\* after the last image and nothing is on its way any more, all is stored.
SuccessMeansStored ==
    pc = "Done" /\ seg > Len(Images) /\ toDev = <<>>
        => \A s \in 1 .. Len(Images) :
              \A b \in Area(s) : flash[b] = Own(s, b - Images[s].addr)

\* Whatever the line does, late and lost and repeated commands included, no
\* block ever gets the data of another block or is programmed twice with
\* different data, and the blocks of no image keep what they held.
InPlace ==
    \A b \in Blocks :
        \/ flash[b] \in Proper(b)
        \/ flash[b] = Stale
        \/ flash[b] = Erased /\ Proper(b) # {}

\* The new program is started by this tool only after all images were
\* announced, and then all of it is there, when the line has been orderly.
RunsOnlyComplete ==
    Orderly /\ dev.mode = "app" => seg > Len(Images) /\ BlocksStored

\* A download that ends in a block it could not get through, the device being
\* where FLASH_BEGIN put it, has met a fault or a piece left over for each of
\* its attempts: no attempt is lost to the answer of an earlier one
\* (esp.cpp:520-524).  One fault may be enough, if it leaves pieces behind.
RetriesSurvive ==
    pc = "Failed" /\ (try > 1 \/ (try > 0 /\ blk > 0)) /\ dev.mode = "flash"
        => faults + rests >= MaxTries

\* As long as the line is orderly, the download does what FlashPromise says.
Promise == INSTANCE FlashPromise WITH
              written <- seg - 1,
              running <- (dev.mode = "app"),
              disturbed <- ~Orderly
PromiseKept == Promise!Spec

\* The program comes to its end, whatever the line and the device do: every
\* wait has a deadline and every retry a bound.
Terminates == <>(pc \in {"Done", "Failed"})

=============================================================================
