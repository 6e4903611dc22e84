----------------------------- MODULE SerialQueue -----------------------------
(***************************************************************************)
(* The queue between the serial port and the program: class SerialQueue    *)
(* (src/serial.cpp, src/serial.h) and the reading members of SerialChannel *)
(* that use it.  The queue is one array; its used part is count bytes from *)
(* index head.  Refresh moves what the driver holds into the array, which  *)
(* it enlarges as needed (maxSize is zero wherever the program makes a     *)
(* SerialQueue).                                                           *)
(*                                                                         *)
(* The driver of the operating system is modelled from how serial.cpp      *)
(* calls it: FIONREAD, read and tcflush.  Bytes arrive at any moment       *)
(* between two calls of the program.                                       *)
(***************************************************************************)
EXTENDS Integers, Sequences

CONSTANTS
    Byte,         \* the values of a byte
    CopyOrders,   \* how memcpy may treat overlapping memory:
                  \* subset of {"ascending", "descending"}
    ReadErrors,   \* TRUE: read() may fail on a port that reports data
    UIntMax,      \* largest unsigned value
    MaxReceived,  \* bound: bytes that arrive in a behaviour
    MaxGet        \* bound: bytes asked for by one GetData

ASSUME QueueAssumption ==
    /\ Byte # {}
    /\ CopyOrders \subseteq {"ascending", "descending"} /\ CopyOrders # {}
    /\ ReadErrors \in BOOLEAN
    /\ UIntMax \in Nat /\ MaxReceived \in Nat /\ MaxGet \in Nat

VARIABLES
    data,      \* m_data: function on the indices of the array
    curSize,   \* m_curSize
    head,      \* m_head
    count,     \* m_count
    driver,    \* bytes the driver holds
    want,      \* count of the GetData call that is under way, 0 if none
    out,       \* bytes handed out, in order
    received   \* number of bytes that arrived

vars == <<data, curSize, head, count, driver, want, out, received>>

NoByte == CHOOSE b \in Byte : TRUE   \* fresh memory: any value would do

Size(n) == 0 .. n - 1

-----------------------------------------------------------------------------
Init ==
    /\ data = [i \in Size(0) |-> NoByte] /\ curSize = 0
    /\ head = 0 /\ count = 0
    /\ driver = <<>> /\ want = 0 /\ out = <<>> /\ received = 0

\* The content of the used part of the array.
Content == [i \in 1 .. count |-> data[head + i - 1]]

(***************************************************************************)
(* memcpy(m_data, m_data + m_head, m_count) (serial.cpp:761-762): the two  *)
(* ranges overlap when head < count, and the order of the copy then shows. *)
(* From the end, element i receives what element i + head holds by then.   *)
(***************************************************************************)
Moved(order) ==
    [i \in Size(curSize) |->
        CASE i >= count -> data[i]
          [] i < count /\ order = "ascending" -> data[head + i]
          [] OTHER -> data[i + head * ((count - 1 - i) \div head + 1)]]

\* The array with room for n more bytes, its content at the front.
Grown(n) ==
    [i \in Size(count + n) |-> IF i < count THEN data[head + i] ELSE NoByte]

\* Mutation: the content stays where it is when there is room.
ArraysUnmoved(n) == IF n > curSize - count THEN {Grown(n)} ELSE {data}

\* The array Refresh reads n bytes into: a new one when they do not fit,
\* else the old one with its content moved to the front.
Arrays(n) ==
    IF n > curSize - count THEN {Grown(n)}
    ELSE IF count > 0 /\ head > 0 THEN {Moved(order) : order \in CopyOrders}
    ELSE {data}

\* Mutation: the array is made for the new bytes alone.
RoomForNew(n) == IF n > curSize - count THEN n ELSE curSize

RoomFor(n) == IF n > curSize - count THEN count + n ELSE curSize


(***************************************************************************)
(* Refresh (serial.cpp:728-772) with the driver's count n: the state of    *)
(* the queue after it.  The driver may hand over fewer bytes than it has;  *)
(* when read() fails its result -1 is added to the unsigned m_count.       *)
(***************************************************************************)
Refreshed ==
    IF driver = <<>>
    THEN {[data |-> data, curSize |-> curSize, head |-> head, count |-> count,
           driver |-> driver]}
    ELSE LET n == Len(driver)
         IN  {[data |-> [i \in Size(RoomFor(n)) |->
                            IF i \in count .. count + k - 1
                            THEN driver[i - count + 1] ELSE a[i]],
               curSize |-> RoomFor(n),
               head |-> 0,
               count |-> count + k,
               driver |-> SubSeq(driver, k + 1, n)] :
                  a \in Arrays(n), k \in 0 .. n}
             \cup
             {[data |-> a, curSize |-> RoomFor(n), head |-> 0,
               count |-> (count + UIntMax) % (UIntMax + 1),
               driver |-> driver] :
                  a \in IF ReadErrors THEN Arrays(n) ELSE {}}

\* Mutation: m_head is not advanced past what was copied out.
BecomeSameHead(q, n) ==
    /\ data' = q.data /\ curSize' = q.curSize /\ driver' = q.driver
    /\ head' = q.head
    /\ count' = q.count - n
    /\ out' = out \o [i \in 1 .. n |-> q.data[q.head + i - 1]]

\* Mutation: m_head is moved the wrong way.
BecomeHeadBack(q, n) ==
    /\ data' = q.data /\ curSize' = q.curSize /\ driver' = q.driver
    /\ head' = q.head - n
    /\ count' = q.count - n
    /\ out' = out \o [i \in 1 .. n |-> q.data[q.head + i - 1]]

\* The variables of the queue become those of q, the first n bytes of its
\* content having been copied out.
Become(q, n) ==
    /\ data' = q.data /\ curSize' = q.curSize /\ driver' = q.driver
    /\ head' = q.head + n
    /\ count' = q.count - n
    /\ out' = out \o [i \in 1 .. n |-> q.data[q.head + i - 1]]

Lesser(m, n) == IF m < n THEN m ELSE n

-----------------------------------------------------------------------------
\* A byte arrives in the driver.
Receive ==
    /\ received < MaxReceived
    /\ \E b \in Byte : driver' = Append(driver, b)
    /\ received' = received + 1
    /\ UNCHANGED <<data, curSize, head, count, want, out>>

\* Refresh, and Available, which calls it and adds what the driver holds.
Refresh ==
    /\ want = 0
    /\ \E q \in Refreshed : Become(q, 0)
    /\ UNCHANGED <<want, received>>

\* SerialChannel::Read: a Refresh limits the count, so GetData finds it all in
\* the queue and its loop runs once.
Read(n) ==
    /\ want = 0 /\ n > 0
    /\ \E q \in Refreshed :
          /\ n <= q.count
          /\ Become(q, n)
    /\ UNCHANGED <<want, received>>

\* GetData(buf, n) is called, whatever is there.
GetData(n) ==
    /\ want = 0 /\ n > 0
    /\ want' = n
    /\ UNCHANGED <<data, curSize, head, count, driver, out, received>>

\* Mutation: the count still to be read is not reduced.
GetPartForgets ==
    /\ want > 0
    /\ \E q \in Refreshed : Become(q, Lesser(want, q.count))
    /\ UNCHANGED <<want, received>>

\* One turn of the loop of GetData (serial.cpp:692-709).
GetPart ==
    /\ want > 0
    /\ \E q \in Refreshed :
          /\ Become(q, Lesser(want, q.count))
          /\ want' = want - Lesser(want, q.count)
    /\ received' = received

\* Flush (serial.cpp:778-788).
Flush ==
    /\ want = 0
    /\ head' = 0 /\ count' = 0
    /\ driver' = <<>>
    /\ UNCHANGED <<data, curSize, want, out, received>>

\* Init (serial.cpp:671-677), when the port is closed and opened again.  The
\* array stays; the driver may or may not have kept what it holds.
Reopen ==
    /\ want = 0
    /\ head' = 0 /\ count' = 0
    /\ driver' \in {driver, <<>>}
    /\ UNCHANGED <<data, curSize, want, out, received>>

Program == \/ Refresh \/ GetPart \/ Flush \/ Reopen
           \/ \E n \in 1 .. MaxGet : Read(n) \/ GetData(n)

Next == Receive \/ Program

Spec == Init /\ [][Next]_vars

\* The loop of GetData goes on; the driver keeps handing over what it has.
FairSpec == Spec /\ WF_vars(GetPart)

-----------------------------------------------------------------------------
(* Properties *)

TypeOK ==
    /\ curSize \in Nat /\ head \in Nat /\ count \in Nat /\ want \in Nat
    /\ data \in [Size(curSize) -> Byte]
    /\ driver \in Seq(Byte) /\ out \in Seq(Byte)
    /\ received \in 0 .. MaxReceived

\* The used part of the queue lies in its array: SerialRead returns the number
\* of bytes it placed in the buffer (serial.cpp:338-339), so m_count never
\* counts bytes that are not there.
WithinArray == head + count <= curSize

\* Bytes are handed out once each and in order.
Fifo == INSTANCE ByteFifo WITH fifo <- Content \o driver
FifoKept == Fifo!Spec

\* GetData returns once the bytes it was asked for have arrived.
GetReturns == (want > 0 /\ count + Len(driver) >= want) ~> want = 0
=============================================================================
