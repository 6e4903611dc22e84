---------------------------- MODULE FlashReading ----------------------------
(***************************************************************************)
(* Reading a part of the Flash (ESP::FlashRead with readByte, src/esp.cpp):*)
(* the commands that load and start a small program on the device, made    *)
(* through PacketReader, and then the blocks that program sends by itself, *)
(* each between two frame bytes.  Nothing numbers the blocks and they have *)
(* no checksum: what protects the file is the framing alone.               *)
(*                                                                         *)
(* The program on the device (flashReadStub) is machine code: it is        *)
(* modelled from the parameters FlashRead gives it and from what FlashRead *)
(* expects of it.                                                          *)
(***************************************************************************)
EXTENDS PacketReader

CONSTANTS
    Content,  \* the bytes of the Flash from the address that is read
    Lengths,  \* the lengths that may be asked for
    BLK       \* ESP_FLASH_BLK_SIZE

ASSUME ReadingAssumption ==
    /\ Len(Session) > 1  \* the connection, and what starts the program
    /\ BLK \in Nat \ {0}
    /\ Lengths \subseteq Nat \ {0}
    /\ Content \in Seq(Byte)
    /\ \A n \in Lengths : n + BLK <= Len(Content)

VARIABLES
    length,  \* bytes asked for
    stub,    \* the program on the device has been started and has not sent yet
    phase,   \* what the host reads next: a "start" marker, the "data" of a
             \* block, its "end" marker; or how FlashRead ended
    blk,     \* blocks that have been read
    got,     \* bytes read of this one
    file     \* the bytes written to the file

stream == <<length, stub, phase, blk, got, file>>

-----------------------------------------------------------------------------
(* Blocks *)

BlkSize == IF length <= BLK THEN length ELSE BLK

\* Mutation: the last block is forgotten when it is not full.
BlkCntDown == IF length <= BLK THEN 1 ELSE length \div BLK

BlkCnt == IF length <= BLK THEN 1 ELSE (length + BLK - 1) \div BLK

\* What the program sends: BlkCnt blocks of BlkSize bytes, encoded as packets
\* are.
Blocks == FlattenSeq([i \in 1 .. BlkCnt |->
              Packet(SubSeq(Content, (i - 1) * BlkSize + 1, i * BlkSize))])

FInit == /\ Init
         /\ length \in Lengths
         /\ stub = FALSE /\ phase = "start" /\ blk = 0 /\ got = 0 /\ file = <<>>

-----------------------------------------------------------------------------
(* The commands: flashBegin, ramBegin, ramData, ramFinish *)

\* The last command starts the program when the device has accepted it.
Started == /\ pc = "Send" /\ step = Len(Session)
           /\ line' = line \o Answer(Cmd)

Command == /\ Host
           /\ stub' = (stub \/ Started)
           /\ UNCHANGED <<length, phase, blk, got, file>>

-----------------------------------------------------------------------------
(* The program on the device and the line *)

StubSends == /\ stub /\ stub' = FALSE
             /\ line' = line \o Blocks
             /\ UNCHANGED <<caller, reader, last, rx, faults>>
             /\ UNCHANGED <<length, phase, blk, got, file>>

Deliver == Arrive /\ UNCHANGED stream

Disturb == Environment /\ UNCHANGED stream

-----------------------------------------------------------------------------
(* readByte *)

Reader == phase \in {"start", "data", "end"} /\ pc = "Done"

\* Mutation: two bytes are waited for everywhere.
WantsTwo == 2

\* needBytes: two when the byte is decoded.
Wants == IF phase = "data" THEN 2 ELSE 1

Take(n) == /\ Reader /\ Len(rx) >= Wants
           /\ rx' = SubSeq(rx, n + 1, Len(rx))
           /\ UNCHANGED <<caller, reader, last, line, faults>>

StartMarker ==
    /\ phase = "start" /\ Take(1)
    /\ phase' = IF rx[1] = 192 THEN "data" ELSE "failed"
    /\ UNCHANGED <<length, stub, blk, got, file>>

\* A byte beyond the length that was asked for is not stored.
Stored(b) == IF blk * BlkSize + got < length THEN Append(file, b) ELSE file

DataByte ==
    /\ phase = "data" /\ Len(rx) >= Wants
    /\ LET b == SlipByte(rx)
       IN  /\ Take(b.used)
           /\ \/ /\ b.stat \notin {1, 2}
                 /\ phase' = "failed"
                 /\ UNCHANGED <<got, file>>
              \/ /\ b.stat \in {1, 2}
                 /\ got' = got + 1
                 /\ phase' = IF got + 1 = BlkSize THEN "end" ELSE "data"
                 /\ file' = Stored(b.byte)
    /\ UNCHANGED <<length, stub, blk>>

\* Mutation: the end marker is read and not looked at.
EndMarkerAny ==
    /\ phase = "end" /\ Take(1)
    /\ blk' = blk + 1 /\ got' = 0
    /\ phase' = IF blk + 1 = BlkCnt THEN "done" ELSE "start"
    /\ UNCHANGED <<length, stub, file>>

EndMarker ==
    /\ phase = "end" /\ Take(1)
    /\ IF rx[1] # 192
       THEN phase' = "failed" /\ UNCHANGED <<blk, got>>
       ELSE /\ blk' = blk + 1 /\ got' = 0
            /\ phase' = IF blk + 1 = BlkCnt THEN "done" ELSE "start"
    /\ UNCHANGED <<length, stub, file>>

\* Each byte has a deadline of its own: nothing more comes, or what comes is
\* late.
ByteTimeout ==
    /\ Reader
    /\ \/ line = <<>> /\ ~stub /\ Len(rx) < Wants /\ UNCHANGED faults
       \/ Fault("late")
    /\ phase' = "failed"
    /\ UNCHANGED <<caller, reader, last, rx, line>>
    /\ UNCHANGED <<length, stub, blk, got, file>>

-----------------------------------------------------------------------------
HostReads == StartMarker \/ DataByte \/ EndMarker \/ ByteTimeout

FNext == Command \/ StubSends \/ Deliver \/ Disturb \/ HostReads

fvars == <<vars, stream>>

FSpec == FInit /\ [][FNext]_fvars

\* The host is a sequential program each of whose waits has a deadline; the
\* program on the device and the line deliver what they have.
FairRead == /\ FSpec
            /\ WF_fvars(Command) /\ WF_fvars(HostReads)
            /\ WF_fvars(StubSends) /\ WF_fvars(Deliver)

-----------------------------------------------------------------------------
(* Properties *)

Asked == SubSeq(Content, 1, length)

\* As long as the line spoils no byte the file is at every moment a prefix of
\* what was asked for, and FlashRead reports success (esp.cpp:379) only when it
\* is all of it: an attempt of SYNC that was answered late, a block longer than
\* what is left or a deadline between two blocks put nothing else in it.
FileIsFlash ==
    Clean =>
        /\ IsPrefix(file, Asked)
        /\ phase = "done" => file = Asked

\* One fault of any kind spoils at most one byte of a file that FlashRead calls
\* good: the markers (esp.cpp:352, :374) catch a block that has become a byte
\* longer or shorter, whichever its bytes, so nothing is shifted. Two faults are
\* too many: a late reply to SYNC, spoilt into the answer of the last command, is
\* taken for it, and a block of ten bytes is then filled with the real answer.
NothingShifted ==
    phase = "done" /\ Len(faults) <= 1 =>
        /\ Len(file) = length
        /\ \A i, j \in 1 .. length :
               file[i] # Asked[i] /\ file[j] # Asked[j] => i = j

\* Reading comes to an end: with success when nothing goes wrong, although
\* readByte waits for two bytes before it decodes one (esp.cpp:1588) and the
\* last byte of a block is followed by one byte only.
ReadConcludes ==
    <>(phase = "done" \/ ((phase = "failed" \/ pc = "Failed") /\ faults # <<>>))
=============================================================================
