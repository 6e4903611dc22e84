---------------------------- MODULE PacketReader ----------------------------
(***************************************************************************)
(* The exchange of SLIP packets with the boot loader, byte by byte:        *)
(* ESP::readPacket with the decoding of SerialChannel::ReadByte, the       *)
(* encoding of SerialChannel::WriteByte, and the callers that decide what  *)
(* follows a packet: doCommand, Sync with the replies it discards, and     *)
(* Connect (src/esp.cpp, src/serial.cpp).                                  *)
(*                                                                         *)
(* The host works through Session: it connects (SYNC is the first command) *)
(* and then makes commands that are not repeated when they fail, as        *)
(* ReadMAC does with ReadReg.  The device and the line are modelled from   *)
(* how src/ uses them; the lines that reset the device are left out.       *)
(***************************************************************************)
EXTENDS Integers, SequencesExt

CONSTANTS
    Session,      \* the commands: [op, val], val the four bytes of the answer
    SyncReplies,  \* replies the device sends for one SYNC
    MaxSyncs,     \* attempts of Connect: 4 resets with 4 attempts each
    Faults,       \* what may go wrong
    WrongBytes,   \* what a spoilt byte may become
    MaxFaults     \* bound on the number of faults in a behaviour

FaultKinds == {"lost_byte", "spoilt_byte", "stray_byte", "no_answer",
               "bad_status", "send_error", "late"}
ByteFaults == {"lost_byte", "spoilt_byte", "stray_byte"}

Byte == 0 .. 255
SYNC == 8          \* ESP_SYNC
HDR_LEN == 8

ASSUME SessionAssumption ==
    /\ Session \in Seq([op : Byte \ {0}, val : [1 .. 4 -> Byte]])
    /\ Session # <<>> /\ Session[1].op = SYNC
    /\ \A i \in 2 .. Len(Session) : Session[i].op # SYNC  \* only Connect sends it
    /\ SyncReplies \in Nat \ {0} /\ MaxSyncs \in Nat \ {0}
    /\ Faults \subseteq FaultKinds /\ WrongBytes \subseteq Byte
    /\ MaxFaults \in Nat

VARIABLES
    pc,      \* "Send", then readPacket for "Reply" or "Drain"; or the end
    step,    \* command of Session being made
    syncs,   \* attempts of Connect that failed
    state,   \* state of readPacket
    hdr,     \* bytes of the header, decoded
    body,    \* bytes of the response body, decoded
    taken,   \* bytes this call of readPacket has read
    last,    \* the latest call of readPacket that returned
    rx,      \* bytes available to the host
    line,    \* bytes on their way to the host
    faults   \* the faults so far, in order

caller == <<pc, step, syncs>>
reader == <<state, hdr, body, taken>>
vars == <<pc, step, syncs, state, hdr, body, taken, last, rx, line, faults>>

-----------------------------------------------------------------------------
(* SLIP *)

\* WriteByte(b, true).
Escaped(b) == CASE b = 192 -> <<219, 220>>
                [] b = 219 -> <<219, 221>>
                [] OTHER   -> <<b>>

\* The bytes that writePacket puts between the two frame bytes.
Encoded(s) == FlattenSeq([i \in DOMAIN s |-> Escaped(s[i])])

\* writePacket: the bytes of a packet with the content s.
Packet(s) == <<192>> \o Encoded(s) \o <<192>>

\* Mutation: any byte may follow an escape.
SlipByteLenient(q) ==
    CASE q[1] = 192 -> [stat |-> -1, byte |-> 192, used |-> 1]
      [] q[1] \notin {192, 219} -> [stat |-> 1, byte |-> q[1], used |-> 1]
      [] q[1] = 219 /\ Len(q) = 1 -> [stat |-> -2, byte |-> 219, used |-> 1]
      [] OTHER ->
            [stat |-> 2,
             byte |-> CASE q[2] = 220 -> 192 [] q[2] = 221 -> 219 [] OTHER -> q[2],
             used |-> 2]

\* ReadByte(data, true) with the bytes q available.
SlipByte(q) ==
    CASE q[1] = 192 -> [stat |-> -1, byte |-> 192, used |-> 1]
      [] q[1] \notin {192, 219} -> [stat |-> 1, byte |-> q[1], used |-> 1]
      [] q[1] = 219 /\ Len(q) = 1 -> [stat |-> -2, byte |-> 219, used |-> 1]
      [] OTHER ->
            [stat |-> IF q[2] \in {220, 221} THEN 2 ELSE -3,
             byte |-> CASE q[2] = 220 -> 192 [] q[2] = 221 -> 219 [] OTHER -> q[2],
             used |-> 2]

-----------------------------------------------------------------------------
(* Replies *)

Cmd == Session[step]

\* A reply of the device: header and status.
Reply(c, status) == <<1, c.op, Len(status), 0>> \o c.val \o status

Status == <<0, 0>>
BadStatus == <<1, 5>>

\* What the device sends in answer to the command c.
Answer(c) ==
    FlattenSeq([i \in 1 .. (IF c.op = SYNC THEN SyncReplies ELSE 1) |->
                   Packet(Reply(c, Status))])

\* bodyLen, once the header is there.
BodyLen(h) == h[3] + 256 * h[4]

\* Mutation: one byte is enough everywhere.
NeedsOne == 1

\* needBytes.
Needs == IF state \in {"header", "body"} THEN 2 ELSE 1

-----------------------------------------------------------------------------
Init ==
    /\ pc = "Send" /\ step = 1 /\ syncs = 0
    /\ state = "begin" /\ hdr = <<>> /\ body = <<>> /\ taken = <<>>
    /\ last = [step |-> 0, result |-> "none", bytes |-> <<>>, content |-> <<>>]
    /\ rx = <<>> /\ line = <<>> /\ faults = <<>>

Fault(f) == /\ f \in Faults
            /\ Len(faults) < MaxFaults
            /\ faults' = Append(faults, f)

Reading == pc \in {"Reply", "Drain"}

Ready == Reading /\ Len(rx) >= Needs

Fresh == state' = "begin" /\ hdr' = <<>> /\ body' = <<>> /\ taken' = <<>>

\* doCommand has failed: Connect tries SYNC again, every other caller gives up.
CommandFailed ==
    /\ step' = step
    /\ IF Cmd.op = SYNC
       THEN /\ syncs' = syncs + 1
            /\ pc' = IF syncs + 1 < MaxSyncs THEN "Send" ELSE "Failed"
       ELSE pc' = "Failed" /\ syncs' = syncs

\* Mutation: off by one at the end of the session.
NextCommandPast ==
    /\ syncs' = syncs
    /\ pc' = IF step <= Len(Session) THEN "Send" ELSE "Done"
    /\ step' = IF step <= Len(Session) THEN step + 1 ELSE step

NextCommand ==
    /\ syncs' = syncs
    /\ pc' = IF step < Len(Session) THEN "Send" ELSE "Done"
    /\ step' = IF step < Len(Session) THEN step + 1 ELSE step

\* Mutation: one additional reply at most is discarded.
ContinueDrainOnce(r) ==
    CASE pc = "Drain" -> NextCommand
      [] pc = "Reply" /\ r # "ok" -> CommandFailed
      [] pc = "Reply" /\ r = "ok" /\ Cmd.op # SYNC -> NextCommand
      [] OTHER -> pc' = "Drain" /\ UNCHANGED <<step, syncs>>

\* What the caller of readPacket does with its result r: doCommand, and the
\* loop of Sync that discards the additional replies.
Continue(r) ==
    CASE pc = "Drain" /\ r = "ok" -> UNCHANGED caller
      [] pc = "Drain" /\ r # "ok" -> NextCommand
      [] pc = "Reply" /\ r # "ok" -> CommandFailed
      [] pc = "Reply" /\ r = "ok" /\ Cmd.op # SYNC -> NextCommand
      [] OTHER -> pc' = "Drain" /\ UNCHANGED <<step, syncs>>

\* readPacket returns r after it has read n bytes more.  A failed Sync flushes
\* what has been received.
Return(r, n) ==
    /\ last' = [step |-> step, result |-> r,
                bytes |-> taken \o SubSeq(rx, 1, n), content |-> hdr \o body]
    /\ rx' = IF pc = "Reply" /\ Cmd.op = SYNC /\ r # "ok" THEN <<>>
             ELSE SubSeq(rx, n + 1, Len(rx))
    /\ Fresh
    /\ Continue(r)

\* readPacket goes on in the state s after it has read n bytes more.
GoOn(s, n) ==
    /\ state' = s
    /\ taken' = taken \o SubSeq(rx, 1, n)
    /\ rx' = SubSeq(rx, n + 1, Len(rx))
    /\ UNCHANGED <<pc, step, syncs, last>>

-----------------------------------------------------------------------------
(* The host *)

\* sendCommand: FlushComm, then the packet; the device answers.
SendCommand ==
    /\ pc = "Send"
    /\ rx' = <<>>
    /\ pc' = "Reply"
    /\ \/ /\ line' = line \o Answer(Cmd)
          /\ UNCHANGED faults
       \/ Fault("no_answer") /\ UNCHANGED line
       \/ Fault("bad_status") /\ line' = line \o Packet(Reply(Cmd, BadStatus))
    /\ UNCHANGED <<step, syncs, state, hdr, body, taken, last>>

SendFails ==
    /\ pc = "Send"
    /\ Fault("send_error")
    /\ rx' = <<>>
    /\ CommandFailed
    /\ UNCHANGED <<state, hdr, body, taken, last, line>>

\* PKT_BEGIN and PKT_END: a frame byte.
FrameByte ==
    /\ Ready /\ state \in {"begin", "end"}
    /\ \/ /\ rx[1] # 192
          /\ Return("frame", 1)
       \/ /\ rx[1] = 192 /\ state = "begin"
          /\ GoOn("header", 1)
          /\ UNCHANGED <<hdr, body>>
       \/ /\ rx[1] = 192 /\ state = "end"
          /\ Return(IF body = Status THEN "ok" ELSE "refused", 1)
    /\ UNCHANGED <<line, faults>>

\* PKT_HEADER and PKT_BODY: a byte that does not decode.
WrongByte ==
    /\ Ready /\ state \in {"header", "body"}
    /\ LET b == SlipByte(rx)
       IN  /\ b.stat \notin {1, 2}
           /\ Return(IF b.stat \in {0, -2} THEN "data" ELSE "frame", b.used)
    /\ UNCHANGED <<line, faults>>

\* Mutation: the kind of command that is answered is not looked at.
HeaderAcceptedAny(h) == h[1] = 1

HeaderAccepted(h) == h[1] = 1 /\ h[2] = Cmd.op

HeaderByte ==
    /\ Ready /\ state = "header"
    /\ LET b == SlipByte(rx)
           h == Append(hdr, b.byte)
       IN  /\ b.stat \in {1, 2}
           /\ \/ /\ Len(h) < HDR_LEN
                 /\ GoOn("header", b.used) /\ hdr' = h /\ body' = body
              \/ /\ Len(h) = HDR_LEN /\ ~HeaderAccepted(h)
                 /\ Return("header", b.used)
              \/ /\ Len(h) = HDR_LEN /\ HeaderAccepted(h)
                 /\ GoOn(IF BodyLen(h) > 0 THEN "body" ELSE "end", b.used)
                 /\ hdr' = h /\ body' = body
    /\ UNCHANGED <<line, faults>>

BodyByte ==
    /\ Ready /\ state = "body"
    /\ LET b == SlipByte(rx)
       IN  /\ b.stat \in {1, 2}
           /\ body' = Append(body, b.byte)
           /\ GoOn(IF Len(body) + 1 >= BodyLen(hdr) THEN "end" ELSE "body",
                   b.used)
    /\ UNCHANGED <<hdr, line, faults>>

\* Mutation: the deadline is looked at only between packets.
TimeoutBetween ==
    /\ Reading /\ state = "begin"
    /\ \/ line = <<>> /\ ~Ready /\ UNCHANGED faults
       \/ Fault("late")
    /\ Return("timeout", 0)
    /\ UNCHANGED line

\* The deadline of readPacket passes: nothing more comes, or what comes is
\* late.
Timeout ==
    /\ Reading
    /\ \/ line = <<>> /\ ~Ready /\ UNCHANGED faults
       \/ Fault("late")
    /\ Return("timeout", 0)
    /\ UNCHANGED line

-----------------------------------------------------------------------------
(* The line *)

Arrive ==
    /\ line # <<>>
    /\ rx' = Append(rx, Head(line))
    /\ line' = Tail(line)
    /\ UNCHANGED <<pc, step, syncs, state, hdr, body, taken, last, faults>>

LoseByte ==
    /\ line # <<>> /\ Fault("lost_byte")
    /\ line' = Tail(line)
    /\ UNCHANGED <<pc, step, syncs, state, hdr, body, taken, last, rx>>

SpoilByte ==
    /\ line # <<>> /\ Fault("spoilt_byte")
    /\ \E b \in WrongBytes : line' = <<b>> \o Tail(line)
    /\ UNCHANGED <<pc, step, syncs, state, hdr, body, taken, last, rx>>

StrayByte ==
    /\ Fault("stray_byte")
    /\ \E b \in WrongBytes : rx' = Append(rx, b)
    /\ UNCHANGED <<pc, step, syncs, state, hdr, body, taken, last, line>>

-----------------------------------------------------------------------------
Host == \/ SendCommand \/ SendFails \/ FrameByte \/ WrongByte
        \/ HeaderByte \/ BodyByte \/ Timeout

Environment == LoseByte \/ SpoilByte \/ StrayByte

Next == Host \/ Arrive \/ Environment

Spec == Init /\ [][Next]_vars

\* The host is a sequential program each of whose waits has a deadline, and the
\* line delivers what is on it.
FairSpec == Spec /\ WF_vars(Host) /\ WF_vars(Arrive)

-----------------------------------------------------------------------------
(* Properties *)

Results == {"none", "frame", "data", "header", "timeout", "refused", "ok"}

\* The variables have their types; no more is stored than the header says.
TypeOK ==
    /\ pc \in {"Send", "Reply", "Drain", "Done", "Failed"}
    /\ step \in 1 .. Len(Session) /\ syncs \in 0 .. MaxSyncs
    /\ state \in {"begin", "header", "body", "end"}
    /\ hdr \in Seq(Byte) /\ Len(hdr) <= HDR_LEN
    /\ body \in Seq(Byte)
    /\ body # <<>> => Len(hdr) = HDR_LEN /\ Len(body) <= BodyLen(hdr)
    /\ taken \in Seq(Byte) /\ rx \in Seq(Byte) /\ line \in Seq(Byte)
    /\ last.step \in 0 .. Len(Session) /\ last.result \in Results
    /\ last.bytes \in Seq(Byte) /\ last.content \in Seq(Byte)
    /\ faults \in Seq(FaultKinds) /\ Len(faults) <= MaxFaults

\* A packet is taken for a good reply (esp.cpp:1841) only when the bytes read
\* from the line are exactly the packet whose content was decoded: none is
\* skipped and none belongs to the packet after it, and the content answers
\* the kind of command that was sent with a status of two zeros.
AcceptedIsPacket ==
    last.result = "ok" =>
        /\ last.bytes = Packet(last.content)
        /\ SubSeq(last.content, 1, 4) = <<1, Session[last.step].op, 2, 0>>
        /\ SubSeq(last.content, HDR_LEN + 1, Len(last.content)) = Status

\* The line has not spoilt a byte.
Clean == \A f \in ByteFaults : ~Contains(faults, f)

\* The value taken from a reply is the one the device sent for this very
\* command, as long as the line spoils no byte: what is left of an earlier
\* command when its deadline has passed, whole or cut by a flush, is never
\* taken for the answer to the next one (esp.cpp:1715, :184).
ValuesTrue ==
    last.result = "ok" /\ Clean => SubSeq(last.content, 5, 8) = Session[last.step].val

\* readPacket waits for two bytes before it decodes one, so an escape is never
\* cut from the byte it belongs to (esp.cpp:1672): ReadByte's result -2 does
\* not occur.
EscapesWhole == last.result # "data"

\* When nothing goes wrong the connection leaves no reply to SYNC behind that
\* could be taken for the answer to the first command, wherever in time the
\* replies fall.
Quiet ==
    pc = "Send" /\ step > 1 /\ faults = <<>> => rx = <<>> /\ line = <<>>

\* A session without faults succeeds, however the bytes of the replies are
\* spread over time; with them it comes to an end, every wait having a deadline
\* and Connect a bound on its attempts.
Concludes == <>(pc = "Done" \/ (pc = "Failed" /\ faults # <<>>))
=============================================================================
