------------------------- MODULE FlashDownloadProofs -------------------------
(***************************************************************************)
(* Theorems about FlashDownload, for every list of images, every Flash     *)
(* size, every number of attempts and every number of faults.              *)
(***************************************************************************)
EXTENDS FlashDownload, SequenceTheorems, FunctionTheorems,
        FiniteSetTheorems, TLAPS

-----------------------------------------------------------------------------
(* Sequences *)

\* What the steps of a FIFO queue do to it: looking at its head, removing it,
\* replacing it, appending an element.
LEMMA QueueSteps ==
    ASSUME NEW S, NEW q \in Seq(S)
    PROVE  /\ <<>> \in Seq(S)
           /\ Len(q) \in Nat /\ (Len(q) = 0 <=> q = <<>>)
           /\ q # <<>> => /\ q[1] \in S
                          /\ Tail(q) \in Seq(S) /\ Len(Tail(q)) = Len(q) - 1
                          /\ \A x \in S : [q EXCEPT ![1] = x] \in Seq(S)
           /\ \A x \in S : Append(q, x) \in Seq(S) /\ <<x>> \o q \in Seq(S)
  <1>1. q # <<>> => 1 \in 1 .. Len(q)
    BY EmptySeq
  <1>2. q # <<>> => q[1] \in S
    BY <1>1, ElementOfSeq
  <1>3. q # <<>> => \A x \in S : [q EXCEPT ![1] = x] \in Seq(S)
    BY <1>1, ExceptSeq
  <1>4. q # <<>> => Tail(q) \in Seq(S) /\ Len(Tail(q)) = Len(q) - 1
    BY HeadTailProperties
  <1>5. \A x \in S : <<x>> \o q \in Seq(S)
    BY ConcatProperties
  <1> QED
    BY <1>2, <1>3, <1>4, <1>5

\* The messages the actions make are among the messages of the model.
LEMMA MessagesTyped ==
    /\ JunkCommand \in Commands /\ EndCommand \in Commands
    /\ PartialCommand \in Commands /\ BeginCommand(0, 0) \in Commands
    /\ \A s \in 1 .. Len(Images) :
          /\ BeginCommand(Images[s].addr, Images[s].blks) \in Commands
          /\ \A k \in Blocks : DataCommand(s, k) \in Commands
    /\ Junk \in Replies
    /\ \A good \in BOOLEAN : \A o \in {"begin", "data", "end"} :
          Reply(o, good) \in Replies
  <1>1. /\ JunkCommand \in Commands /\ EndCommand \in Commands
        /\ PartialCommand \in Commands /\ BeginCommand(0, 0) \in Commands
    BY DEF Commands
  <1>2. ASSUME NEW s \in 1 .. Len(Images)
        PROVE  BeginCommand(Images[s].addr, Images[s].blks) \in Commands
    BY DEF Commands
  <1>3. ASSUME NEW s \in 1 .. Len(Images), NEW k \in Blocks
        PROVE  DataCommand(s, k) \in Commands
    BY DEF Commands
  <1>4. Junk \in Replies
    BY DEF Replies
  <1>5. ASSUME NEW good \in BOOLEAN, NEW o \in {"begin", "data", "end"}
        PROVE  Reply(o, good) \in Replies
    BY DEF Replies
  <1> QED
    BY <1>1, <1>2, <1>3, <1>4, <1>5

\* The fields of an image are numbers, and its blocks are Flash blocks.
LEMMA ImageFields ==
    ASSUME NEW s \in 1 .. Len(Images)
    PROVE  /\ Images[s].addr \in Nat /\ Images[s].blks \in Nat
           /\ \A k \in Nat : k < Images[s].blks =>
                 /\ k \in Blocks
                 /\ Images[s].addr + k \in Area(s)
                 /\ Images[s].addr + k \in Blocks
  <1>1. Images[s] \in [addr : Nat, blks : Nat]
    BY ImagesAssumption, ElementOfSeq
  <1>2. Area(s) \subseteq Blocks
    BY ImagesAssumption
  <1>3. FlashBlocks \in Nat
    BY SizesAssumption
  <1>4. Images[s].addr \in Nat /\ Images[s].blks \in Nat
    BY <1>1
  <1>5. ASSUME NEW k \in Nat, k < Images[s].blks
        PROVE  k \in Blocks /\ Images[s].addr + k \in Area(s) \cap Blocks
    <2>1. Images[s].addr + k \in Area(s)
      BY <1>4, <1>5 DEF Area
    <2>2. Images[s].addr + k \in 0 .. FlashBlocks - 1
      BY <1>2, <2>1 DEF Blocks
    <2> QED
      BY <1>3, <1>4, <1>5, <2>1, <2>2 DEF Blocks
  <1> QED
    BY <1>4, <1>5

-----------------------------------------------------------------------------
(* Types *)

\* Attempts are counted within their bound, only a command is waited for, and
\* the run step comes after the last image.
Attempts ==
    /\ waiting => pc \in CommandPcs
    /\ pc \in CommandPcs /\ ~waiting => try < Tries
    /\ pc \in {"RunBegin", "RunEnd", "ResetRun", "Done"} => seg = Len(Images) + 1

TypeInv == TypeOK /\ Attempts

LEMMA CommandTyped ==
    ASSUME TypeInv, pc \in CommandPcs
    PROVE  Command \in Commands
  <1>1. pc \in {"Begin", "Data"} => seg \in 1 .. Len(Images)
    BY DEF TypeInv, TypeOK
  <1>2. pc = "Data" => blk \in Blocks
    BY <1>1, ImageFields DEF TypeInv, TypeOK
  <1> QED
    BY <1>1, <1>2, MessagesTyped DEF Command, CommandPcs

LEMMA TypeInit == Init => TypeInv
  <1> SUFFICES ASSUME Init PROVE TypeInv
    OBVIOUS
  <1>1. Len(Images) \in Nat \ {0}
    BY ImagesAssumption, EmptySeq
  <1>2. rx \in Seq(Replies) /\ toHost \in Seq(Replies) /\ toDev \in Seq(Commands)
    BY EmptySeq DEF Init
  <1>3. flash \in [Blocks -> Contents]
    BY DEF Init, Contents
  <1>4. Attempts
    BY DEF Init, Attempts, CommandPcs, Tries
  <1>5. dev \in [mode : Modes, base : Nat]
    BY DEF Init, Modes
  <1>6. waiting \in BOOLEAN /\ pc \in CommandPcs
    BY DEF Init, CommandPcs
  <1>7. /\ try \in 0 .. MaxTries /\ seg \in 1 .. Len(Images) + 1 /\ seg <= Len(Images)
        /\ blk \in Nat /\ faults \in 0 .. MaxFaults /\ rests \in 0 .. MaxRests
    BY <1>1, SizesAssumption DEF Init
  <1>8. pc # "Data"
    BY DEF Init
  <1> QED
    BY <1>2, <1>3, <1>4, <1>5, <1>6, <1>7, <1>8 DEF TypeInv, TypeOK

LEMMA TypeStep == TypeInv /\ [Next]_vars => TypeInv'
  <1> SUFFICES ASSUME TypeInv, [Next]_vars PROVE TypeInv'
    OBVIOUS
  <1> USE SizesAssumption
  <1>c. /\ <<>> \in Seq(Commands)
        /\ toDev # <<>> => /\ toDev[1] \in Commands
                           /\ Tail(toDev) \in Seq(Commands)
                           /\ \A x \in Commands :
                                 [toDev EXCEPT ![1] = x] \in Seq(Commands)
        /\ \A x \in Commands : /\ Append(toDev, x) \in Seq(Commands)
                               /\ Append(<<>>, x) \in Seq(Commands)
                               /\ \A q \in Seq(Commands) : <<x>> \o q \in Seq(Commands)
    BY QueueSteps DEF TypeInv, TypeOK
  <1>h. /\ <<>> \in Seq(Replies)
        /\ toHost # <<>> => /\ toHost[1] \in Replies
                            /\ Tail(toHost) \in Seq(Replies)
                            /\ \A x \in Replies :
                                  [toHost EXCEPT ![1] = x] \in Seq(Replies)
        /\ \A x \in Replies : /\ Append(toHost, x) \in Seq(Replies)
                              /\ <<x>> \o toHost \in Seq(Replies)
    BY QueueSteps DEF TypeInv, TypeOK
  <1>r. /\ rx # <<>> => Tail(rx) \in Seq(Replies)
        /\ \A x \in Replies : Append(rx, x) \in Seq(Replies)
    BY QueueSteps DEF TypeInv, TypeOK
  <1>n. Len(Images) \in Nat \ {0}
    BY ImagesAssumption, EmptySeq
  <1>f. \A s \in 1 .. Len(Images) : Images[s].blks \in Nat
    BY ImageFields
  <1>1. CASE SendCommand
    <2>1. toDev' \in Seq(Commands)
      <3>1. PICK unsent \in {toDev, <<>>} : toDev' = Append(unsent, Command)
        BY <1>1 DEF SendCommand, Unflushed
      <3> QED
        BY <3>1, <1>1, <1>c, <1>h, <1>r, CommandTyped DEF SendCommand, TypeInv, TypeOK
    <2>2. rx' \in Seq(Replies)
      BY <1>1, <1>c, <1>h, <1>r DEF SendCommand, TypeInv, TypeOK
    <2>3. try' \in 0 .. MaxTries
      BY <1>1 DEF SendCommand, TypeInv, TypeOK, Attempts, Tries
    <2> QED
      BY <1>1, <2>1, <2>2, <2>3
      DEF SendCommand, TypeInv, TypeOK, Attempts, Tries, CommandPcs
  <1>2. CASE SendFails
    <2>1. toDev' \in Seq(Commands) /\ rx' \in Seq(Replies)
      BY <1>2, <1>c, <1>h, <1>r, MessagesTyped
      DEF SendFails, Unflushed, TypeInv, TypeOK
    <2>2. try' \in 0 .. MaxTries
      BY <1>2 DEF SendFails, TypeInv, TypeOK, Attempts, Tries
    <2>3. Attempts'
      BY <1>2 DEF SendFails, AttemptFailed, TypeInv, TypeOK, Attempts, Tries,
                  CommandPcs
    <2>4. /\ pc' \in CommandPcs \cup {"Done", "Failed"}
          /\ pc' \in {"Begin", "Data"} => pc' = pc
          /\ faults' \in 0 .. MaxFaults /\ rests' \in 0 .. MaxRests
      BY <1>2 DEF SendFails, AttemptFailed, Fault, LeftOver, TypeInv, TypeOK,
                  CommandPcs
    <2>5. waiting' = FALSE /\ UNCHANGED <<seg, blk, toHost, dev, flash>>
      BY <1>2 DEF SendFails, AttemptFailed
    <2> QED
      BY <2>1, <2>2, <2>3, <2>4, <2>5 DEF TypeInv, TypeOK
  <1>3. CASE ReadFails
    BY <1>3 DEF ReadFails, Fault, TypeInv, TypeOK, Attempts, Tries, CommandPcs
  <1>4. CASE BadReply
    <2>1. rx' \in Seq(Replies)
      BY <1>4, <1>c, <1>h, <1>r DEF BadReply, TypeInv, TypeOK
    <2>2. /\ toHost' \in Seq(Replies)
          /\ rests' = rests \/ LeftOver
      BY <1>4, <1>h, MessagesTyped DEF BadReply, TypeInv, TypeOK
    <2>4. rests' \in 0 .. MaxRests
      BY <2>2 DEF LeftOver, TypeInv, TypeOK
    <2>3. /\ waiting /\ AttemptFailed(try)
          /\ UNCHANGED <<try, toDev, dev, flash, faults>>
      BY <1>4 DEF BadReply
    <2> QED
      BY <2>1, <2>2, <2>3, <2>4
      DEF AttemptFailed, TypeInv, TypeOK, Attempts, Tries, CommandPcs
  <1>5. CASE GoodReply
    <2>1. rx' \in Seq(Replies)
      BY <1>5, <1>c, <1>h, <1>r DEF GoodReply, TypeInv, TypeOK
    <2>2. /\ ~waiting' /\ waiting' \in BOOLEAN
          /\ try' = 0 /\ try' < MaxTries /\ try' \in 0 .. MaxTries
          /\ UNCHANGED <<toDev, toHost, dev, flash, faults, rests>>
      <3>1. /\ waiting' = FALSE /\ try' = 0
            /\ UNCHANGED <<toDev, toHost, dev, flash, faults, rests>>
        BY <1>5 DEF GoodReply
      <3>2. ~waiting' /\ waiting' \in BOOLEAN
        BY <3>1, Zenon
      <3>3. try' < MaxTries /\ try' \in 0 .. MaxTries
        BY <3>1
      <3> QED
        BY <3>1, <3>2, <3>3
    <2>3. CASE pc \in {"RunBegin", "RunEnd"}
      <3>1. /\ pc' \in {"RunEnd", "Done"} /\ seg' = Len(Images) + 1
            /\ blk' = blk
        BY <1>5, <2>3 DEF GoodReply, TypeInv, Attempts
      <3>2. Attempts'
        BY <2>2, <3>1 DEF Attempts, Tries, CommandPcs
      <3> QED
        BY <2>1, <2>2, <3>1, <3>2, <1>n DEF TypeInv, TypeOK, CommandPcs
    <2>4. CASE pc \in {"Begin", "Data"}
      <3>1. PICK k \in Nat : Proceed(k)
        BY <1>5, <2>4 DEF GoodReply, TypeInv, TypeOK
      <3>2. seg \in 1 .. Len(Images)
        BY <2>4 DEF TypeInv, TypeOK
      <3>3. CASE k < Images[seg].blks
        <4>1. pc' = "Data" /\ seg' = seg /\ blk' = k
          BY <3>1, <3>2, <3>3, <1>f DEF Proceed
        <4>2. Attempts'
          BY <2>2, <4>1 DEF Attempts, Tries, CommandPcs
        <4> QED
          BY <2>1, <2>2, <3>2, <3>3, <4>1, <4>2, <1>n
          DEF TypeInv, TypeOK, CommandPcs
      <3>4. CASE k >= Images[seg].blks
        <4>1. /\ pc' = IF seg < Len(Images) THEN "Begin" ELSE AfterImages
              /\ seg' = seg + 1 /\ blk' = 0
          BY <3>1, <3>2, <3>4, <1>f DEF Proceed
        <4>2. AfterImages \in {"RunBegin", "ResetRun", "Done"}
          BY DEF AfterImages
        <4>3. \/ pc' = "Begin" /\ seg' \in 1 .. Len(Images)
              \/ /\ pc' \in {"RunBegin", "ResetRun", "Done"}
                 /\ seg' = Len(Images) + 1
          BY <3>2, <4>1, <4>2, <1>n
        <4>4. Attempts'
          BY <2>2, <4>3 DEF Attempts, Tries, CommandPcs
        <4> QED
          BY <2>1, <2>2, <4>1, <4>3, <4>4, <1>n DEF TypeInv, TypeOK, CommandPcs
      <3> QED
        BY <3>3, <3>4, <3>2, <1>f
    <2> QED
      BY <1>5, <2>3, <2>4 DEF GoodReply
  <1>6. CASE Timeout
    BY <1>6
    DEF Timeout, AttemptFailed, TypeInv, TypeOK, Attempts, Tries, CommandPcs
  <1>7. CASE ResetToRun
    BY <1>7 DEF ResetToRun, TypeInv, TypeOK, Attempts, Tries, CommandPcs, Modes
  <1>8. CASE Device /\ ~DeviceJoins
    <2>1. toDev # <<>> /\ toDev' = Tail(toDev)
      BY <1>8 DEF Device, DeviceBegin, DeviceData, DeviceEnd, DeviceRefuses,
                  DeviceSilent, Take
    <2>2. toDev' \in Seq(Commands) /\ toDev[1] \in Commands
      BY <2>1, <1>c, <1>h, <1>r DEF TypeInv, TypeOK
    <2>3. toHost' \in Seq(Replies)
      <3>1. ASSUME NEW r \in Replies, Take(<<r>>)
            PROVE  toHost' \in Seq(Replies)
        BY <3>1, <1>h DEF Take
      <3>2. CASE DeviceBegin \/ DeviceData \/ DeviceEnd
        BY <3>1, <3>2, MessagesTyped DEF DeviceBegin, DeviceData, DeviceEnd
      <3>3. CASE DeviceRefuses
        <4>1. Reply(toDev[1].op, FALSE) \in Replies
          BY <3>3, MessagesTyped DEF DeviceRefuses, Junk
        <4> QED
          BY <3>1, <3>3, <4>1 DEF DeviceRefuses
      <3>4. CASE DeviceSilent
        BY <3>4 DEF DeviceSilent, Take, TypeInv, TypeOK
      <3> QED
        BY <1>8, <3>2, <3>3, <3>4 DEF Device
    <2>4. dev' \in [mode : Modes, base : Nat]
      <3>1. toDev[1].op = "begin" => toDev[1].addr \in Nat
        BY <2>2, ImageFields
        DEF Commands, BeginCommand, DataCommand, EndCommand, JunkCommand,
            PartialCommand
      <3> QED
        BY <1>8, <3>1
        DEF Device, DeviceBegin, DeviceData, DeviceEnd, DeviceRefuses,
            DeviceSilent, TypeInv, TypeOK, Modes
    <2>5. flash' \in [Blocks -> Contents]
      <3>1. CASE DeviceBegin
        BY <3>1 DEF DeviceBegin, TypeInv, TypeOK, Contents
      <3>2. CASE DeviceData
        <4>1. Own(toDev[1].img, toDev[1].seq) \in Contents
          BY <3>2, <2>2
          DEF DeviceData, Commands, BeginCommand, DataCommand, EndCommand,
              JunkCommand, PartialCommand, Contents
        <4> QED
          BY <3>2, <4>1 DEF DeviceData, TypeInv, TypeOK, Contents
      <3> QED
        BY <1>8, <3>1, <3>2
        DEF Device, DeviceEnd, DeviceRefuses, DeviceSilent, TypeInv, TypeOK
    <2>6. UNCHANGED <<pc, waiting, seg, blk, try, rx, faults, rests>>
      BY <1>8 DEF Device, DeviceBegin, DeviceData, DeviceEnd, DeviceRefuses,
                  DeviceSilent, Take
    <2> QED
      BY <2>2, <2>3, <2>4, <2>5, <2>6 DEF TypeInv, TypeOK, Attempts, Tries
  <1>9. CASE Deliver
    <2>1. rx' \in Seq(Replies) /\ toHost' \in Seq(Replies)
      BY <1>9, <1>c, <1>h, <1>r DEF Deliver, TypeInv, TypeOK
    <2> QED
      BY <1>9, <2>1 DEF Deliver, TypeInv, TypeOK, Attempts, Tries
  <1>10. CASE Environment
    <2>1. toDev' \in Seq(Commands)
      BY <1>10, <1>c, <1>h, <1>r, MessagesTyped
      DEF Environment, LoseCommand, DamageCommand, LoseReply, DamageReply,
          Noise, DeviceReset, TypeInv, TypeOK
    <2>2. toHost' \in Seq(Replies) /\ rx' \in Seq(Replies)
      BY <1>10, <1>c, <1>h, <1>r, MessagesTyped
      DEF Environment, LoseCommand, DamageCommand, LoseReply, DamageReply,
          Noise, DeviceReset, TypeInv, TypeOK
    <2>3. dev' \in [mode : Modes, base : Nat]
      BY <1>10
      DEF Environment, LoseCommand, DamageCommand, LoseReply, DamageReply,
          Noise, DeviceReset, TypeInv, TypeOK, Modes
    <2>4. /\ UNCHANGED <<pc, waiting, seg, blk, try, flash>>
          /\ faults' \in 0 .. MaxFaults /\ rests' \in 0 .. MaxRests
      BY <1>10
      DEF Environment, LoseCommand, DamageCommand, LoseReply, DamageReply,
          Noise, DeviceReset, Fault, LeftOver, TypeInv, TypeOK
    <2> QED
      BY <2>1, <2>2, <2>3, <2>4 DEF TypeInv, TypeOK, Attempts, Tries
  <1>11. CASE UNCHANGED vars
    BY <1>11 DEF vars, TypeInv, TypeOK, Attempts, Tries
  <1>12. CASE DeviceJoins
    <2>1. /\ toDev \in Seq(Commands) /\ Len(toDev) > 1
          /\ UNCHANGED <<pc, waiting, seg, blk, try, rx, toHost, dev, flash,
                         faults, rests>>
      BY <1>12 DEF DeviceJoins, TypeInv, TypeOK
    <2>2. Tail(toDev) \in Seq(Commands) /\ Len(Tail(toDev)) = Len(toDev) - 1
      BY <2>1, EmptySeq, HeadTailProperties
    <2>3. Tail(Tail(toDev)) \in Seq(Commands)
      <3>1. Tail(toDev) # <<>>
        <4>1. Len(toDev) \in Nat /\ Len(Tail(toDev)) # 0
          BY <2>1, <2>2, LenProperties
        <4> QED
          BY <4>1, EmptySeq
      <3> QED
        BY <2>2, <3>1, HeadTailProperties
    <2>4. toDev' \in Seq(Commands)
      BY <1>12, <1>c, <2>2, <2>3, MessagesTyped DEF DeviceJoins
    <2> QED
      BY <2>1, <2>4 DEF TypeInv, TypeOK, Attempts, Tries
  <1> QED
    BY <1>1, <1>2, <1>3, <1>4, <1>5, <1>6, <1>7, <1>8, <1>9, <1>10, <1>11, <1>12
    DEF Next, Host

\* Whatever the line does, the variables keep their types: the attempts stay
\* within their bound and blkIdx within the image (esp.cpp:478-527).
THEOREM TypeCorrect == Spec => []TypeOK
  <1>1. TypeInv => TypeOK
    BY DEF TypeInv
  <1> QED
    BY TypeInit, TypeStep, <1>1, PTL DEF Spec

-----------------------------------------------------------------------------
(* An orderly line: one command or one reply on its way at a time *)

\* Queues of at most one element.
LEMMA SingleSteps ==
    ASSUME NEW x, NEW y
    PROVE  /\ Append(<<>>, x) = <<x>> /\ Tail(<<x>>) = <<>>
           /\ <<x>> # <<>> /\ <<x>>[1] = x
           /\ [<<x>> EXCEPT ![1] = y] = <<y>>
           /\ <<x>> = <<y>> => x = y
  OBVIOUS

\* What the kinds of command look like.
LEMMA CommandFields ==
    /\ JunkCommand.op = "junk" /\ PartialCommand.op = "partial"
    /\ EndCommand.op = "end"
    /\ \A a, n : /\ BeginCommand(a, n).op = "begin"
                 /\ BeginCommand(a, n).addr = a
                 /\ BeginCommand(a, n).blks = n
    /\ \A s, k : /\ DataCommand(s, k).op = "data"
                 /\ DataCommand(s, k).img = s
                 /\ DataCommand(s, k).seq = k
    /\ pc \in CommandPcs => Command.op = Op
  BY DEF JunkCommand, PartialCommand, EndCommand, BeginCommand, DataCommand,
         Command, Op, CommandPcs

\* The device has done what the current command asks for.
Served ==
    /\ pc = "Begin" =>
          /\ dev.mode = "flash" => dev.base = Images[seg].addr
          /\ \A b \in Area(seg) : flash[b] = Erased
    /\ pc = "Data" => flash[Images[seg].addr + blk] = Own(seg, blk)

\* A good reply says that the command the host waits for was served.
Fits(r) == r = Reply(Op, TRUE) => Served

\* What is on its way: nothing, the command the host waits for, or the reply.
InFlight ==
    \/ toDev = <<>> /\ toHost = <<>> /\ rx = <<>>
    \/ /\ waiting
       /\ toHost = <<>> /\ rx = <<>>
       /\ toDev = <<Command>> \/ toDev = <<JunkCommand>>
    \/ /\ waiting
       /\ toDev = <<>> /\ rx = <<>>
       /\ \E r \in Replies : toHost = <<r>> /\ Fits(r)
    \/ /\ waiting
       /\ toDev = <<>> /\ toHost = <<>>
       /\ \E r \in Replies : rx = <<r>> /\ Fits(r)

\* While the blocks of an image are sent, the device counts them from the
\* start of that image, and none of its blocks holds anything else.
Prepared ==
    /\ pc = "Begin" => blk = 0
    /\ pc = "Data" =>
          /\ dev.mode = "flash" => dev.base = Images[seg].addr
          /\ \A b \in Area(seg) :
                flash[b] \in {Erased, Own(seg, b - Images[seg].addr)}
    /\ dev.mode = "app" => pc \in {"RunEnd", "Done"}

OrderlyInv == InFlight /\ Prepared /\ BlocksStored

\* The blocks of two images differ.
LEMMA AreasApart ==
    ASSUME NEW s \in 1 .. Len(Images), NEW t \in 1 .. Len(Images), s # t,
           NEW b \in Area(s)
    PROVE  b \notin Area(t)
  BY ImagesAssumption

\* A block of an image is its address and a number below its count.
LEMMA AreaIndex ==
    ASSUME NEW s \in 1 .. Len(Images), NEW b \in Area(s)
    PROVE  /\ b - Images[s].addr \in Nat
           /\ b - Images[s].addr < Images[s].blks
           /\ b = Images[s].addr + (b - Images[s].addr)
           /\ b \in Blocks
  <1>1. b \in Blocks
    BY ImagesAssumption
  <1>2. Images[s].addr \in Nat /\ Images[s].blks \in Nat
    BY ImageFields
  <1> QED
    BY <1>1, <1>2 DEF Area

LEMMA OrderlyInit == Init => OrderlyInv
  <1> SUFFICES ASSUME Init PROVE OrderlyInv
    OBVIOUS
  <1>1. InFlight
    BY DEF Init, InFlight
  <1>2. Prepared
    BY DEF Init, Prepared
  <1>3. BlocksStored
    <2> SUFFICES ASSUME NEW s \in 1 .. Len(Images), NEW b \in Area(s)
                 PROVE  ~(s < seg \/ (s = seg /\ b < Images[s].addr + blk))
      BY DEF BlocksStored
    <2> QED
      BY ImageFields, AreaIndex DEF Init
  <1> QED
    BY <1>1, <1>2, <1>3 DEF OrderlyInv

\* The host has had no answer, or a bad one: what is stored and prepared stays.
LEMMA AttemptFailedStep ==
    ASSUME TypeInv, OrderlyInv, NEW n \in Nat, AttemptFailed(n),
           pc \in CommandPcs, UNCHANGED <<dev, flash>>,
           toDev' = <<>>, toHost' = <<>>, rx' = <<>>
    PROVE  OrderlyInv'
  <1>1. InFlight'
    BY DEF InFlight
  <1>2. seg' = seg /\ blk' = blk /\ (pc' \in {"Begin", "Data", "RunEnd"} => pc' = pc)
    BY DEF AttemptFailed, CommandPcs
  <1>3. pc = "RunEnd" => pc' \in {"RunEnd", "Done"}
    BY DEF AttemptFailed
  <1>4. Prepared'
    BY <1>2, <1>3 DEF OrderlyInv, Prepared, CommandPcs, Area, Own
  <1>5. BlocksStored'
    BY <1>2 DEF OrderlyInv, BlocksStored, Area, Own
  <1> QED
    BY <1>1, <1>4, <1>5 DEF OrderlyInv

\* Blocks 0 .. k-1 of the current image are stored and the host goes on.
LEMMA ProceedStep ==
    ASSUME TypeInv, OrderlyInv, NEW k \in Nat, Proceed(k),
           pc \in {"Begin", "Data"}, UNCHANGED <<dev, flash>>,
           toDev' = <<>>, toHost' = <<>>, rx' = <<>>,
           \A b \in Area(seg) : flash[b] \in {Erased, Own(seg, b - Images[seg].addr)},
           \A b \in Area(seg) : b < Images[seg].addr + k
               => flash[b] = Own(seg, b - Images[seg].addr),
           dev.mode = "flash" => dev.base = Images[seg].addr
    PROVE  OrderlyInv'
  <1>0. seg \in 1 .. Len(Images) /\ dev.mode # "app"
    BY DEF TypeInv, TypeOK, OrderlyInv, Prepared
  <1>1. InFlight'
    BY DEF InFlight
  <1>2. CASE k < Images[seg].blks
    <2>1. pc' = "Data" /\ seg' = seg /\ blk' = k
      BY <1>0, <1>2, ImageFields DEF Proceed
    <2>2. Prepared'
      BY <1>0, <2>1 DEF Prepared, Area, Own
    <2>3. BlocksStored'
      <3> SUFFICES ASSUME NEW s \in 1 .. Len(Images), NEW b \in Area(s),
                          s < seg \/ (s = seg /\ b < Images[s].addr + k)
                   PROVE  flash[b] = Own(s, b - Images[s].addr)
        BY <2>1 DEF BlocksStored, Area, Own
      <3> QED
        BY DEF OrderlyInv, BlocksStored
    <2> QED
      BY <1>1, <2>2, <2>3 DEF OrderlyInv
  <1>3. CASE k >= Images[seg].blks
    <2>1. /\ seg' = seg + 1 /\ blk' = 0
          /\ pc' \in {"Begin", "RunBegin", "ResetRun", "Done"}
      BY <1>0, <1>3, ImageFields DEF Proceed, AfterImages
    <2>2. Prepared'
      BY <1>0, <2>1 DEF Prepared
    <2>3. BlocksStored'
      <3> SUFFICES ASSUME NEW s \in 1 .. Len(Images), NEW b \in Area(s),
                          s < seg + 1 \/ (s = seg + 1 /\ b < Images[s].addr)
                   PROVE  flash[b] = Own(s, b - Images[s].addr)
        BY <2>1, ImageFields DEF BlocksStored, Area, Own
      <3>1. CASE s < seg
        BY <3>1 DEF OrderlyInv, BlocksStored
      <3>2. CASE s = seg
        BY <3>2, <1>3, ImageFields, AreaIndex
      <3>3. CASE s = seg + 1 /\ b < Images[s].addr
        BY <3>3, ImageFields, AreaIndex
      <3> QED
        BY <1>0, <3>1, <3>2, <3>3
    <2> QED
      BY <1>1, <2>2, <2>3 DEF OrderlyInv
  <1> QED
    BY <1>0, <1>2, <1>3, ImageFields

\* The device takes the one command that is on its way.
LEMMA DeviceStep ==
    ASSUME TypeInv, OrderlyInv, Device
    PROVE  OrderlyInv'
  <1>0. ~DeviceJoins
    <2>1. ASSUME NEW x, toDev = <<x>> PROVE Len(toDev) = 1
      BY <2>1
    <2>2. toDev = <<>> => Len(toDev) = 0
      OBVIOUS
    <2>3. \/ toDev = <<>> \/ toDev = <<Command>> \/ toDev = <<JunkCommand>>
      BY DEF OrderlyInv, InFlight
    <2>4. DeviceJoins => Len(toDev) > 1
      BY DEF DeviceJoins
    <2>5. Len(toDev) \in {0, 1}
      BY <2>1, <2>2, <2>3
    <2>6. ~(Len(toDev) > 1)
      BY <2>5
    <2> QED
      BY <2>4, <2>6, Zenon
  <1>1. /\ toDev # <<>> /\ toDev' = Tail(toDev)
        /\ UNCHANGED <<pc, waiting, seg, blk, try, rx, faults>>
    BY <1>0 DEF Device, DeviceBegin, DeviceData, DeviceEnd, DeviceRefuses,
           DeviceSilent, Take
  <1>2. /\ waiting /\ toHost = <<>> /\ rx = <<>>
        /\ toDev = <<Command>> \/ toDev = <<JunkCommand>>
        /\ pc \in CommandPcs
    BY <1>1 DEF OrderlyInv, InFlight, TypeInv, Attempts
  <1>3. toDev' = <<>>
    BY <1>1, <1>2, SingleSteps
  <1>4. \/ toDev[1] = Command /\ toDev[1].op = Op
        \/ toDev[1].op = "junk"
    BY <1>2, SingleSteps, CommandFields
  <1>5. Op \in {"begin", "data", "end"}
    BY DEF Op
  <1>6. ASSUME NEW r \in Replies, Take(<<r>>), Fits(r)'
        PROVE  InFlight'
    <2>1. toHost' = <<r>>
      BY <1>2, <1>6, SingleSteps DEF Take
    <2> QED
      BY <1>1, <1>2, <1>3, <1>6, <2>1 DEF InFlight
  <1>7. CASE DeviceBegin
    <2>1. /\ toDev[1] = Command /\ pc \in {"Begin", "RunBegin"}
          /\ dev'.mode = "flash" /\ dev'.base = toDev[1].addr
          /\ Take(<<Reply("begin", TRUE)>>)
      BY <1>2, <1>4, <1>7 DEF DeviceBegin, Op, CommandPcs
    <2>2. \A b \in Blocks :
             flash'[b] = IF b \in toDev[1].addr
                                  .. toDev[1].addr + toDev[1].blks - 1
                         THEN Erased ELSE flash[b]
      BY <1>7 DEF DeviceBegin
    <2>3. CASE pc = "Begin"
      <3>1. /\ seg \in 1 .. Len(Images) /\ blk = 0
            /\ toDev[1].addr = Images[seg].addr
            /\ toDev[1].blks = Images[seg].blks
        BY <2>1, <2>3, CommandFields
        DEF Command, TypeInv, TypeOK, OrderlyInv, Prepared
      <3>2. \A b \in Blocks :
               flash'[b] = IF b \in Area(seg) THEN Erased ELSE flash[b]
        BY <2>2, <3>1 DEF Area
      <3>3. \A b \in Area(seg) : flash'[b] = Erased
        BY <3>1, <3>2, AreaIndex
      <3>4. Served'
        BY <1>1, <2>1, <2>3, <3>1, <3>3 DEF Served, Area
      <3>5. InFlight'
        BY <1>6, <2>1, <3>4, MessagesTyped DEF Fits
      <3>6. Prepared'
        BY <1>1, <2>1, <2>3, <3>1 DEF Prepared
      <3>7. BlocksStored'
        <4> SUFFICES ASSUME NEW s \in 1 .. Len(Images), NEW b \in Area(s),
                            s < seg \/ (s = seg /\ b < Images[s].addr + blk)
                     PROVE  flash'[b] = Own(s, b - Images[s].addr)
          BY <1>1 DEF BlocksStored, Area, Own
        <4>1. s # seg
          BY <3>1, ImageFields, AreaIndex
        <4>2. b \in Blocks /\ b \notin Area(seg)
          BY <3>1, <4>1, AreaIndex, AreasApart
        <4> QED
          BY <3>2, <4>1, <4>2 DEF OrderlyInv, BlocksStored
      <3> QED
        BY <3>5, <3>6, <3>7 DEF OrderlyInv
    <2>4. CASE pc = "RunBegin"
      <3>1. toDev[1].addr = 0 /\ toDev[1].blks = 0
        BY <2>1, <2>4, CommandFields DEF Command
      <3>2. \A b \in Blocks : flash'[b] = flash[b]
        BY <2>2, <3>1 DEF Blocks
      <3>3. Served'
        BY <1>1, <2>4 DEF Served
      <3>4. InFlight'
        BY <1>6, <2>1, <3>3, MessagesTyped DEF Fits
      <3>5. Prepared'
        BY <1>1, <2>1, <2>4 DEF Prepared
      <3>6. BlocksStored'
        BY <1>1, <3>2, AreaIndex DEF OrderlyInv, BlocksStored, Area, Own
      <3> QED
        BY <3>4, <3>5, <3>6 DEF OrderlyInv
    <2> QED
      BY <2>1, <2>3, <2>4
  <1>8. CASE DeviceData
    <2>1. /\ toDev[1] = Command /\ pc = "Data"
          /\ dev.mode = "flash" /\ dev' = dev
          /\ Take(<<Reply("data", TRUE)>>)
      BY <1>2, <1>4, <1>8 DEF DeviceData, Op, CommandPcs
    <2>2. /\ seg \in 1 .. Len(Images) /\ blk \in Nat /\ blk < Images[seg].blks
          /\ dev.base = Images[seg].addr
      BY <2>1 DEF TypeInv, TypeOK, OrderlyInv, Prepared
    <2>3. toDev[1].seq = blk /\ toDev[1].img = seg
      BY <2>1, CommandFields DEF Command
    <2> DEFINE here == Images[seg].addr + blk
    <2>4. \A c \in Blocks :
             flash'[c] = IF c # here THEN flash[c]
                         ELSE IF flash[c] \in {Erased, Own(seg, blk)}
                              THEN Own(seg, blk) ELSE Garbled
      BY <1>8, <2>2, <2>3 DEF DeviceData
    <2>5. here \in Area(seg) /\ here \in Blocks /\ here - Images[seg].addr = blk
      BY <2>2, ImageFields
    <2>6. flash[here] \in {Erased, Own(seg, blk)}
      BY <2>1, <2>5 DEF OrderlyInv, Prepared
    <2>7. flash'[here] = Own(seg, blk)
      BY <2>4, <2>5, <2>6
    <2>8. Served'
      BY <1>1, <2>1, <2>7 DEF Served, Own
    <2>9. InFlight'
      BY <1>6, <2>1, <2>8, MessagesTyped DEF Fits
    <2>10. Prepared'
      <3>1. \A b \in Area(seg) :
               flash'[b] \in {Erased, Own(seg, b - Images[seg].addr)}
        BY <2>1, <2>2, <2>4, <2>5, <2>7, AreaIndex DEF OrderlyInv, Prepared
      <3> QED
        BY <1>1, <2>1, <2>2, <3>1 DEF Prepared, Area, Own
    <2>11. BlocksStored'
      <3> SUFFICES ASSUME NEW s \in 1 .. Len(Images), NEW b \in Area(s),
                          s < seg \/ (s = seg /\ b < Images[s].addr + blk)
                   PROVE  flash'[b] = Own(s, b - Images[s].addr)
        BY <1>1 DEF BlocksStored, Area, Own
      <3>1. b # here
        BY <2>2, <2>5, AreasApart, ImageFields, AreaIndex
      <3>2. b \in Blocks
        BY AreaIndex
      <3> QED
        BY <2>4, <3>1, <3>2 DEF OrderlyInv, BlocksStored
    <2> QED
      BY <2>9, <2>10, <2>11 DEF OrderlyInv
  <1>9. CASE DeviceEnd
    <2>1. /\ pc = "RunEnd" /\ Take(<<Reply("end", TRUE)>>)
          /\ flash' = flash /\ dev'.base = dev.base
      BY <1>2, <1>4, <1>9 DEF DeviceEnd, Op, CommandPcs, TypeInv, TypeOK
    <2>2. Served'
      BY <1>1, <2>1 DEF Served
    <2>3. InFlight'
      BY <1>6, <2>1, <2>2, MessagesTyped DEF Fits
    <2>4. Prepared' /\ BlocksStored'
      BY <1>1, <2>1 DEF OrderlyInv, Prepared, BlocksStored, Area, Own
    <2> QED
      BY <2>3, <2>4 DEF OrderlyInv
  <1>10. CASE DeviceRefuses \/ DeviceSilent
    <2>1. dev' = dev /\ flash' = flash
      BY <1>10 DEF DeviceRefuses, DeviceSilent
    <2>2. Prepared' /\ BlocksStored'
      BY <1>1, <2>1 DEF OrderlyInv, Prepared, BlocksStored, Area, Own
    <2>3. InFlight'
      <3>1. CASE DeviceSilent
        BY <1>1, <1>2, <1>3, <3>1 DEF InFlight, DeviceSilent, Take
      <3>2. CASE DeviceRefuses
        <4>1. /\ Take(<<Reply(toDev[1].op, FALSE)>>)
              /\ toDev[1].op \in {"begin", "data", "end", "junk"}
          BY <1>4, <1>5, <3>2 DEF DeviceRefuses
        <4>2. Reply(toDev[1].op, FALSE) \in Replies
          BY <4>1, MessagesTyped DEF Junk
        <4>3. Reply(toDev[1].op, FALSE) # Reply(Op, TRUE)'
          BY DEF Reply
        <4> QED
          BY <1>6, <4>1, <4>2, <4>3 DEF Fits
      <3> QED
        BY <1>10, <3>1, <3>2
    <2> QED
      BY <2>2, <2>3 DEF OrderlyInv
  <1> QED
    BY <1>0, <1>7, <1>8, <1>9, <1>10 DEF Device

\* A line on which something was left over does not become orderly again.
LEMMA OrderlyBefore ==
    ASSUME TypeInv, [Next]_vars, Orderly'
    PROVE  Orderly
  <1>1. rests \in Nat /\ LateReplies' = LateReplies
    BY SizesAssumption DEF TypeInv, TypeOK
  <1>2. rests' = rests \/ rests' = rests + 1
    BY DEF Next, Host, SendCommand, SendFails, ReadFails, BadReply, GoodReply,
           Timeout, ResetToRun, Device, DeviceBegin, DeviceData, DeviceEnd,
           DeviceRefuses, DeviceSilent, DeviceJoins, Take, Deliver, Environment,
           LoseCommand, DamageCommand, LoseReply, DamageReply, Noise,
           DeviceReset, LeftOver, vars
  <1> QED
    BY <1>1, <1>2 DEF Orderly

\* On an orderly line every step keeps the invariant.
LEMMA OrderlyStep ==
    ASSUME Orderly, Orderly', TypeInv, OrderlyInv, [Next]_vars
    PROVE  OrderlyInv'
  <1>o. ~LeftOver
    BY DEF Orderly, LeftOver
  <1>1. CASE SendCommand
    <2>1. toDev = <<>> /\ toHost = <<>>
      BY <1>1 DEF SendCommand, OrderlyInv, InFlight
    <2>2. toDev' = <<Command>> /\ toHost' = <<>> /\ rx' = <<>> /\ waiting'
      BY <1>1, <2>1, SingleSteps DEF SendCommand, Unflushed
    <2>3. UNCHANGED <<pc, seg, blk, dev, flash>>
      BY <1>1 DEF SendCommand
    <2>4. Command' = Command
      BY <2>3 DEF Command
    <2>5. InFlight'
      BY <2>2, <2>4 DEF InFlight
    <2>6. Prepared' /\ BlocksStored'
      BY <2>3 DEF OrderlyInv, Prepared, BlocksStored, Area, Own
    <2> QED
      BY <2>5, <2>6 DEF OrderlyInv
  <1>2. CASE SendFails
    <2>1. toDev' = <<>> /\ toHost' = <<>> /\ rx' = <<>>
      BY <1>2, <1>o DEF SendFails, OrderlyInv, InFlight, Unflushed
    <2>2. try + 1 \in Nat
      BY DEF TypeInv, TypeOK
    <2> QED
      BY <1>2, <2>1, <2>2, AttemptFailedStep DEF SendFails
  <1>3. CASE ReadFails
    <2>1. /\ UNCHANGED <<waiting, seg, blk, rx, toDev, toHost, dev, flash>>
          /\ pc = "Data" /\ pc' = "Failed" /\ ~waiting
      BY <1>3 DEF ReadFails
    <2>2. InFlight'
      BY <2>1 DEF OrderlyInv, InFlight
    <2>3. Prepared' /\ BlocksStored'
      BY <2>1 DEF OrderlyInv, Prepared, BlocksStored, Area, Own
    <2> QED
      BY <2>2, <2>3 DEF OrderlyInv
  <1>4. CASE BadReply
    <2>1. \E r : rx = <<r>>
      BY <1>4 DEF BadReply, OrderlyInv, InFlight
    <2>2. toDev' = <<>> /\ toHost' = <<>> /\ rx' = <<>>
      BY <1>4, <1>o, <2>1, SingleSteps DEF BadReply, OrderlyInv, InFlight
    <2> QED
      BY <1>4, <2>2, AttemptFailedStep
      DEF BadReply, TypeInv, TypeOK, Attempts
  <1>5. CASE Timeout
    <2>1. toDev' = <<>> /\ toHost' = <<>> /\ rx' = <<>>
      BY <1>5 DEF Timeout, Orderly
    <2> QED
      BY <1>5, <2>1, AttemptFailedStep DEF Timeout, TypeInv, TypeOK, Attempts
  <1>6. CASE GoodReply
    <2>1. /\ toDev = <<>> /\ toHost = <<>>
          /\ \E r \in Replies : rx = <<r>> /\ Fits(r)
      BY <1>6 DEF GoodReply, OrderlyInv, InFlight
    <2>2. Served
      BY <1>6, <2>1, SingleSteps DEF GoodReply, Fits
    <2>3. /\ toDev' = <<>> /\ toHost' = <<>> /\ rx' = <<>>
          /\ UNCHANGED <<dev, flash>>
      BY <1>6, <2>1, SingleSteps DEF GoodReply
    <2>4. CASE pc = "Begin" /\ Proceed(0)
      <3>1. seg \in 1 .. Len(Images)
        BY <2>4 DEF TypeInv, TypeOK
      <3>2. \A b \in Area(seg) : ~(b < Images[seg].addr + 0)
        BY <3>1, ImageFields, AreaIndex
      <3> QED
        BY <2>2, <2>3, <2>4, <3>2, ProceedStep DEF Served
    <2>5. CASE pc = "Data" /\ Proceed(blk + 1)
      <3>1. seg \in 1 .. Len(Images) /\ blk \in Nat
        BY <2>5 DEF TypeInv, TypeOK
      <3>2. ASSUME NEW b \in Area(seg), b < Images[seg].addr + (blk + 1)
            PROVE  flash[b] = Own(seg, b - Images[seg].addr)
        <4>1. CASE b < Images[seg].addr + blk
          BY <3>1, <4>1 DEF OrderlyInv, BlocksStored
        <4>2. CASE b = Images[seg].addr + blk
          <5>1. b - Images[seg].addr = blk
            BY <3>1, <4>2, ImageFields
          <5> QED
            BY <2>2, <2>5, <4>2, <5>1 DEF Served
        <4> QED
          BY <3>1, <3>2, <4>1, <4>2, ImageFields, AreaIndex
      <3> QED
        BY <2>3, <2>5, <3>1, <3>2, ProceedStep DEF OrderlyInv, Prepared
    <2>6. CASE /\ UNCHANGED <<seg, blk>>
               /\ \/ pc = "RunBegin" /\ pc' = "RunEnd"
                  \/ pc = "RunEnd" /\ pc' = "Done"
      BY <2>3, <2>6 DEF OrderlyInv, InFlight, Prepared, BlocksStored, Area, Own
    <2> QED
      BY <1>6, <2>4, <2>5, <2>6 DEF GoodReply
  <1>7. CASE ResetToRun
    <2>1. /\ pc = "ResetRun" /\ pc' = "Done"
          /\ UNCHANGED <<waiting, seg, blk, rx, toDev, toHost, flash>>
      BY <1>7 DEF ResetToRun
    <2>2. InFlight'
      BY <2>1 DEF OrderlyInv, InFlight, TypeInv, Attempts, CommandPcs
    <2>3. Prepared' /\ BlocksStored'
      BY <2>1 DEF OrderlyInv, Prepared, BlocksStored, Area, Own
    <2> QED
      BY <2>2, <2>3 DEF OrderlyInv
  <1>8. CASE Device
    BY <1>8, DeviceStep
  <1>9. CASE Deliver
    <2>1. PICK r \in Replies : /\ toHost = <<r>> /\ Fits(r)
                               /\ waiting /\ toDev = <<>> /\ rx = <<>>
      BY <1>9 DEF Deliver, OrderlyInv, InFlight
    <2>2. /\ rx' = <<r>> /\ toHost' = <<>>
          /\ UNCHANGED <<pc, waiting, seg, blk, try, toDev, dev, flash, faults>>
      BY <1>9, <2>1, SingleSteps DEF Deliver
    <2>3. Fits(r)'
      BY <2>1, <2>2 DEF Fits, Served, Op, Area, Own
    <2>4. InFlight'
      BY <2>1, <2>2, <2>3 DEF InFlight
    <2>5. Prepared' /\ BlocksStored'
      BY <2>2 DEF OrderlyInv, Prepared, BlocksStored, Area, Own
    <2> QED
      BY <2>4, <2>5 DEF OrderlyInv
  <1>10. CASE LoseCommand \/ DamageCommand
    <2>1. /\ toDev # <<>>
          /\ toDev' = Tail(toDev) \/ toDev' = [toDev EXCEPT ![1] = JunkCommand]
          /\ UNCHANGED <<pc, waiting, seg, blk, try, rx, toHost, dev, flash>>
      BY <1>10 DEF LoseCommand, DamageCommand
    <2>2. /\ waiting /\ toHost' = <<>> /\ rx' = <<>>
          /\ toDev' = <<>> \/ toDev' = <<JunkCommand>>
      <3>1. PICK x : toDev = <<x>> /\ waiting /\ toHost = <<>> /\ rx = <<>>
        BY <2>1 DEF OrderlyInv, InFlight
      <3> QED
        BY <2>1, <3>1, SingleSteps
    <2>3. InFlight'
      BY <2>1, <2>2 DEF InFlight
    <2>4. Prepared' /\ BlocksStored'
      BY <2>1 DEF OrderlyInv, Prepared, BlocksStored, Area, Own
    <2> QED
      BY <2>3, <2>4 DEF OrderlyInv
  <1>11. CASE LoseReply \/ DamageReply
    <2>1. /\ toHost # <<>>
          /\ toHost' = Tail(toHost) \/ toHost' = [toHost EXCEPT ![1] = Junk]
          /\ UNCHANGED <<pc, waiting, seg, blk, try, rx, toDev, dev, flash>>
      BY <1>11 DEF LoseReply, DamageReply
    <2>2. /\ waiting /\ toDev' = <<>> /\ rx' = <<>>
          /\ toHost' = <<>> \/ toHost' = <<Junk>>
      BY <2>1, SingleSteps DEF OrderlyInv, InFlight
    <2>3. Fits(Junk)'
      BY DEF Fits, Junk, Reply
    <2>4. InFlight'
      BY <2>1, <2>2, <2>3, MessagesTyped DEF InFlight
    <2>5. Prepared' /\ BlocksStored'
      BY <2>1 DEF OrderlyInv, Prepared, BlocksStored, Area, Own
    <2> QED
      BY <2>4, <2>5 DEF OrderlyInv
  <1>12. CASE Noise
    BY <1>12, <1>o DEF Noise
  <1>13. CASE DeviceReset
    <2>1. /\ UNCHANGED <<pc, waiting, seg, blk, try, rx, toDev, toHost, flash>>
          /\ dev'.mode \in {"loader", "off"}
      BY <1>13 DEF DeviceReset, TypeInv, TypeOK
    <2>2. Command' = Command /\ Op' = Op
      BY <2>1 DEF Command, Op
    <2>3. Served => Served'
      BY <2>1 DEF Served, Area, Own
    <2>4. \A r \in Replies : Fits(r) => Fits(r)'
      BY <2>2, <2>3 DEF Fits
    <2>5. InFlight'
      BY <2>1, <2>2, <2>4 DEF OrderlyInv, InFlight
    <2>6. Prepared' /\ BlocksStored'
      BY <2>1 DEF OrderlyInv, Prepared, BlocksStored, Area, Own
    <2> QED
      BY <2>5, <2>6 DEF OrderlyInv
  <1>14. CASE UNCHANGED vars
    BY <1>14 DEF vars, OrderlyInv, InFlight, Prepared, BlocksStored, Fits,
                 Served, Command, Op, Area, Own
  <1> QED
    BY <1>1, <1>2, <1>3, <1>4, <1>5, <1>6, <1>7, <1>8, <1>9, <1>10, <1>11,
       <1>12, <1>13, <1>14
    DEF Next, Host, Environment

\* As long as the line is orderly, a block the host counts as acknowledged is
\* in the Flash: a FLASH_DATA reply is never taken for another one
\* (esp.cpp:520-526).
THEOREM AckedBlocksStored == Spec => []AckedStored
  <1>1. Init => TypeInv /\ (Orderly => OrderlyInv)
    BY TypeInit, OrderlyInit
  <1>2. TypeInv /\ (Orderly => OrderlyInv) /\ [Next]_vars
           => (TypeInv /\ (Orderly => OrderlyInv))'
    BY TypeStep, OrderlyBefore, OrderlyStep
  <1>3. (Orderly => OrderlyInv) => AckedStored
    BY DEF OrderlyInv, AckedStored
  <1> QED
    BY <1>1, <1>2, <1>3, PTL DEF Spec

\* As long as the line is orderly, this tool starts the new program only after
\* all the images were announced as written, and all their blocks are there
\* (esp_tool.cpp:276-283, 1357-1364).
THEOREM RunsCompleteProgram == Spec => []RunsOnlyComplete
  <1>1. Init => TypeInv /\ (Orderly => OrderlyInv)
    BY TypeInit, OrderlyInit
  <1>2. TypeInv /\ (Orderly => OrderlyInv) /\ [Next]_vars
           => (TypeInv /\ (Orderly => OrderlyInv))'
    BY TypeStep, OrderlyBefore, OrderlyStep
  <1>3. TypeInv /\ (Orderly => OrderlyInv) => RunsOnlyComplete
    BY ImagesAssumption, EmptySeq
    DEF TypeInv, Attempts, OrderlyInv, Prepared, RunsOnlyComplete
  <1> QED
    BY <1>1, <1>2, <1>3, PTL DEF Spec

-----------------------------------------------------------------------------
(* The download implements FlashPromise *)

\* A step of the download is a step of the promise, or changes nothing of it.
LEMMA PromiseStep ==
    ASSUME Orderly, Orderly', TypeInv, OrderlyInv, OrderlyInv', [Next]_vars
    PROVE  [Promise!Next]_(Promise!vars)
  <1> USE DEF Promise!vars
  <1>o. UNCHANGED ~Orderly
    OBVIOUS
  <1>0. /\ seg \in Nat /\ Len(Images) \in Nat
        /\ dev \in [mode : Modes, base : Nat]
        /\ flash \in [Blocks -> Contents]
    BY ImagesAssumption, EmptySeq DEF TypeInv, TypeOK
  <1>1. CASE seg' = seg /\ flash' = flash /\ dev' = dev
    BY <1>1
  <1>2. CASE GoodReply
    <2>1. flash' = flash /\ dev' = dev
      BY <1>2 DEF GoodReply
    <2>2. CASE seg' = seg
      BY <1>1, <2>1, <2>2
    <2>3. CASE seg' # seg
      <3>1. /\ pc \in {"Begin", "Data"} /\ seg \in 1 .. Len(Images)
            /\ seg' = seg + 1
        BY <1>2, <2>3 DEF GoodReply, Proceed, TypeInv, TypeOK
      <3>2. Promise!Complete(seg)
        <4>1. \A b \in Area(seg) : flash[b] = Own(seg, b - Images[seg].addr)
          BY <2>1, <3>1 DEF OrderlyInv, BlocksStored, Area, Own
        <4> QED
          BY <4>1 DEF Promise!Complete, Promise!Area, Promise!Content, Area, Own
      <3>3. Promise!Announce(seg)
        BY <1>0, <2>1, <3>1, <3>2 DEF Promise!Announce
      <3> QED
        BY <3>1, <3>3 DEF Promise!Next
    <2> QED
      BY <2>2, <2>3
  <1>3. CASE ResetToRun
    <2>1. /\ pc = "ResetRun" /\ seg' = seg /\ flash' = flash
          /\ dev'.mode = "app"
      BY <1>0, <1>3 DEF ResetToRun
    <2>2. Promise!Start
      BY <1>0, <2>1 DEF Promise!Start, TypeInv, Attempts
    <2> QED
      BY <2>2 DEF Promise!Next
  <1>4. CASE DeviceEnd
    <2>1. pc = "RunEnd"
      <3>1. toDev # <<>> /\ toDev[1].op = "end"
        BY <1>4 DEF DeviceEnd
      <3>2. waiting /\ (toDev = <<Command>> \/ toDev = <<JunkCommand>>)
        BY <3>1 DEF OrderlyInv, InFlight
      <3>3. pc \in CommandPcs /\ Op = "end"
        BY <3>1, <3>2, SingleSteps, CommandFields DEF TypeInv, Attempts
      <3> QED
        BY <3>3 DEF Op, CommandPcs
    <2>2. seg' = seg /\ flash' = flash /\ dev'.mode = "app"
      BY <1>0, <1>4 DEF DeviceEnd, Take
    <2>3. Promise!Start
      BY <1>0, <2>1, <2>2 DEF Promise!Start, TypeInv, Attempts
    <2> QED
      BY <2>3 DEF Promise!Next
  <1>5. CASE DeviceReset
    <2>1. /\ seg' = seg /\ flash' = flash
          /\ dev.mode # "app" /\ dev'.mode # "app"
      BY <1>0, <1>5 DEF DeviceReset
    <2> QED
      BY <2>1
  <1>6. CASE DeviceBegin \/ DeviceData
    <2>1. /\ toDev # <<>> /\ toDev[1].op \in {"begin", "data"}
          /\ seg' = seg /\ pc' = pc /\ blk' = blk
          /\ dev.mode # "app" /\ dev'.mode # "app"
      <3>1. CASE DeviceBegin
        BY <3>1 DEF DeviceBegin, Take
      <3>2. CASE DeviceData
        BY <3>2 DEF DeviceData, Take
      <3> QED
        BY <1>6, <3>1, <3>2
    <2>2. /\ waiting /\ toDev[1] = Command
          /\ pc \in {"Begin", "Data", "RunBegin"}
          /\ toDev[1].op = Op
      <3>1. waiting /\ (toDev = <<Command>> \/ toDev = <<JunkCommand>>)
        BY <2>1 DEF OrderlyInv, InFlight
      <3>2. pc \in CommandPcs /\ toDev[1] = Command /\ toDev[1].op = Op
        BY <2>1, <3>1, SingleSteps, CommandFields DEF TypeInv, Attempts
      <3> QED
        BY <2>1, <3>1, <3>2 DEF Op, CommandPcs
    <2>3. CASE pc = "RunBegin"
      <3>1. DeviceBegin /\ toDev[1].addr = 0 /\ toDev[1].blks = 0
        BY <1>6, <2>2, <2>3, CommandFields DEF Command, Op, DeviceData
      <3>2. flash' = flash
        BY <1>0, <3>1 DEF DeviceBegin, Blocks
      <3> QED
        BY <2>1, <3>2
    <2>4. CASE pc = "Begin"
      <3>1. DeviceBegin /\ seg \in 1 .. Len(Images)
            /\ toDev[1].addr = Images[seg].addr /\ toDev[1].blks = Images[seg].blks
        BY <1>6, <2>2, <2>4, CommandFields
        DEF Command, Op, DeviceData, TypeInv, TypeOK
      <3>2. flash' = [b \in Blocks |->
                         IF b \in Promise!Area(seg) THEN Erased ELSE flash[b]]
        BY <3>1 DEF DeviceBegin, Promise!Area
      <3>3. Promise!Work(seg)
        BY <1>0, <2>1, <3>1, <3>2, ImagesAssumption
        DEF Promise!Work, Promise!Blocks, Promise!Area, Promise!Erased,
            Blocks, Erased, Area
      <3> QED
        BY <3>1, <3>3 DEF Promise!Next
    <2>5. CASE pc = "Data"
      <3>1. DeviceData /\ seg \in 1 .. Len(Images)
            /\ toDev[1].seq = blk /\ toDev[1].img = seg
            /\ dev.base = Images[seg].addr
        BY <1>6, <2>2, <2>5, CommandFields
        DEF Command, Op, DeviceBegin, DeviceData, TypeInv, TypeOK, OrderlyInv,
            Prepared
      <3> DEFINE here == Images[seg].addr + blk
      <3>2. /\ here \in Area(seg) /\ here \in Blocks
            /\ here - Images[seg].addr = blk
        BY <2>5, <3>1, ImageFields DEF TypeInv, TypeOK
      <3>3. flash' = [c \in Blocks |-> IF c # here THEN flash[c]
                                       ELSE Own(seg, blk)]
        BY <2>5, <3>1, <3>2 DEF DeviceData, OrderlyInv, Prepared
      <3>4. Promise!Work(seg)
        BY <1>0, <2>1, <3>1, <3>2, <3>3, ImagesAssumption
        DEF Promise!Work, Promise!Blocks, Promise!Area, Promise!Content,
            Blocks, Area, Own
      <3> QED
        BY <3>1, <3>4 DEF Promise!Next
    <2> QED
      BY <2>2, <2>3, <2>4, <2>5
  <1>7. CASE SendCommand \/ SendFails \/ ReadFails \/ BadReply \/ Timeout
    BY <1>1, <1>7 DEF SendCommand, SendFails, ReadFails, BadReply, Timeout,
                      AttemptFailed
  <1>8. CASE DeviceRefuses \/ DeviceSilent \/ DeviceJoins \/ Deliver
    BY <1>1, <1>8 DEF DeviceRefuses, DeviceSilent, DeviceJoins, Deliver, Take
  <1>9. CASE Environment /\ ~DeviceReset
    BY <1>1, <1>9 DEF Environment, LoseCommand, DamageCommand, LoseReply,
                      DamageReply, Noise
  <1>10. CASE UNCHANGED vars
    BY <1>1, <1>10 DEF vars
  <1> QED
    BY <1>2, <1>3, <1>4, <1>5, <1>6, <1>7, <1>8, <1>9, <1>10
    DEF Next, Host, Device, Environment

\* As long as the line is orderly the download does what FlashPromise says:
\* nothing outside the image being written changes, an image is announced only
\* when it is stored, and the program is started only when all are.
THEOREM PromiseImplemented == Spec => PromiseKept
  <1>1. Init => TypeInv /\ (Orderly => OrderlyInv)
    BY TypeInit, OrderlyInit
  <1>2. TypeInv /\ (Orderly => OrderlyInv) /\ [Next]_vars
           => (TypeInv /\ (Orderly => OrderlyInv))'
    BY TypeStep, OrderlyBefore, OrderlyStep
  <1>3. Init => Promise!Init
    BY DEF Init, Promise!Init, Promise!Blocks, Promise!Stale, Blocks, Stale,
           Orderly
  <1>4. ASSUME TypeInv, Orderly => OrderlyInv, (Orderly => OrderlyInv)',
               [Next]_vars
        PROVE  [Promise!Next]_(Promise!vars)
    <2>1. CASE Orderly'
      BY <1>4, <2>1, OrderlyBefore, PromiseStep
    <2>2. CASE ~Orderly'
      <3>1. Promise!Disturb
        BY <2>2 DEF Promise!Disturb
      <3> QED
        BY <3>1 DEF Promise!Next
    <2> QED
      BY <2>1, <2>2
  <1> QED
    BY <1>1, <1>2, <1>3, <1>4, PTL DEF Spec, PromiseKept, Promise!Spec

-----------------------------------------------------------------------------
(* Any line: one FLASH_BEGIN at a time *)

\* The device counts the blocks of FLASH_DATA from the start of image s, and
\* nothing of before is left in the blocks of that image.
ReadyFor(s) ==
    /\ dev.base = Images[s].addr
    /\ \A b \in Area(s) : flash[b] # Stale

\* The host waits for the reply to a FLASH_BEGIN, or has given it up; after
\* that it sends nothing more.
BeginOpen ==
    \/ pc \in {"Begin", "RunBegin"} /\ waiting
    \/ pc \in {"Done", "Failed"}

Holds(q, m)  == \E i \in 1 .. Len(q) : q[i] = m
Single(q, m) == \A i, j \in 1 .. Len(q) : q[i] = m /\ q[j] = m => i = j

Begun == Reply("begin", TRUE)

\* A FLASH_BEGIN on its way to the device is the last command, and it is the
\* one the host has open.
BeginCommands ==
    \A i \in 1 .. Len(toDev) : toDev[i].op = "begin" =>
        /\ i = Len(toDev)
        /\ BeginOpen
        /\ pc = "Begin" => toDev[i] = Command
        /\ ~Holds(toHost, Begun) /\ ~Holds(rx, Begun)

\* A good reply to it means that the device has served it; there is one at
\* most, and no command behind it.
BeginReplies ==
    /\ Holds(toHost, Begun) \/ Holds(rx, Begun) =>
          BeginOpen /\ (pc = "Begin" => ReadyFor(seg)) /\ toDev = <<>>
    /\ Single(toHost, Begun) /\ Single(rx, Begun)
    /\ ~(Holds(toHost, Begun) /\ Holds(rx, Begun))

\* A FLASH_DATA on its way, however late, meets the image it belongs to.
DataCommands ==
    \A i \in 1 .. Len(toDev) : toDev[i].op = "data" =>
        /\ toDev[i].img \in 1 .. Len(Images)
        /\ toDev[i].seq \in Nat /\ toDev[i].seq < Images[toDev[i].img].blks
        /\ ReadyFor(toDev[i].img)

AnyLinkInv ==
    /\ waiting => try > 0
    /\ BeginCommands
    /\ BeginReplies
    /\ DataCommands
    /\ pc = "Data" => ReadyFor(seg)
    /\ InPlace

\* What the steps of a FIFO queue do to its elements.
LEMMA QueueElements ==
    ASSUME NEW S, NEW q \in Seq(S), NEW x \in S
    PROVE  /\ Len(Append(q, x)) = Len(q) + 1
           /\ Append(q, x)[Len(q) + 1] = x
           /\ \A i \in 1 .. Len(q) : Append(q, x)[i] = q[i]
           /\ Len(<<x>> \o q) = Len(q) + 1 /\ (<<x>> \o q)[1] = x
           /\ \A i \in 1 .. Len(<<x>> \o q) :
                 i # 1 => (<<x>> \o q)[i] = q[i - 1] /\ i - 1 \in 1 .. Len(q)
           /\ q # <<>> => /\ Len(q) \in Nat \ {0} /\ 1 \in 1 .. Len(q)
                          /\ \A i \in 1 .. Len(Tail(q)) : /\ Tail(q)[i] = q[i + 1]
                                                          /\ i + 1 \in 1 .. Len(q)
                          /\ Len([q EXCEPT ![1] = x]) = Len(q)
                          /\ \A i \in 1 .. Len(q) :
                                [q EXCEPT ![1] = x][i] = IF i = 1 THEN x ELSE q[i]
  <1>1. q # <<>> => Len(q) \in Nat \ {0} /\ 1 \in 1 .. Len(q)
    BY EmptySeq
  <1>2. q # <<>> => \A i \in 1 .. Len(Tail(q)) : Tail(q)[i] = q[i + 1]
                                                 /\ i + 1 \in 1 .. Len(q)
    BY <1>1, HeadTailProperties
  <1>3. q # <<>> => /\ Len([q EXCEPT ![1] = x]) = Len(q)
                    /\ \A i \in 1 .. Len(q) :
                          [q EXCEPT ![1] = x][i] = IF i = 1 THEN x ELSE q[i]
    BY <1>1, ExceptSeq
  <1>4. /\ <<x>> \in Seq(S) /\ Len(<<x>>) = 1 /\ <<x>>[1] = x
        /\ Len(q) \in Nat
    BY LenProperties
  <1>5. /\ Len(<<x>> \o q) = 1 + Len(q)
        /\ \A i \in 1 .. Len(<<x>>) + Len(q) :
              (<<x>> \o q)[i] = IF i <= Len(<<x>>) THEN <<x>>[i]
                                ELSE q[i - Len(<<x>>)]
    BY <1>4, ConcatProperties
  <1>6. /\ Len(<<x>> \o q) = Len(q) + 1 /\ (<<x>> \o q)[1] = x
        /\ \A i \in 1 .. Len(<<x>> \o q) :
              i # 1 => (<<x>> \o q)[i] = q[i - 1] /\ i - 1 \in 1 .. Len(q)
    BY <1>4, <1>5
  <1>7. /\ Len(Append(q, x)) = Len(q) + 1 /\ Append(q, x)[Len(q) + 1] = x
        /\ \A i \in 1 .. Len(q) : Append(q, x)[i] = q[i]
    BY AppendProperties
  <1> QED
    BY <1>1, <1>2, <1>3, <1>6, <1>7

\* Nothing but a FLASH_BEGIN takes what was made ready away.
LEMMA ReadyStays ==
    ASSUME NEW s \in 1 .. Len(Images), ReadyFor(s), dev'.base = dev.base,
           \A b \in Blocks : flash[b] # Stale => flash'[b] # Stale
    PROVE  ReadyFor(s)'
  BY AreaIndex DEF ReadyFor, Area

LEMMA AnyLinkInit == Init => AnyLinkInv
  BY EmptySeq DEF Init, AnyLinkInv, BeginCommands, BeginReplies, DataCommands,
                  InPlace, Holds, Single

\* The commands after a step that sends neither FLASH_BEGIN nor FLASH_DATA.
CommandsGo ==
    \/ toDev' \in {toDev, <<>>}
    \/ toDev # <<>> /\ toDev' \in {Tail(toDev), [toDev EXCEPT ![1] = JunkCommand]}
    \/ ~BeginOpen /\ \E q \in {toDev, <<>>} : toDev' = Append(q, PartialCommand)
    \/ Len(toDev) > 1 /\ \E q \in {Tail(toDev), Tail(Tail(toDev))} :
                            toDev' \in {q, <<JunkCommand>> \o q}

\* The queues after a step that does not send a good reply to the former either.
Quieter ==
    /\ CommandsGo
    /\ \/ toHost' \in {toHost, <<Junk>> \o toHost}
       \/ toHost # <<>> /\ toHost' \in {Tail(toHost), [toHost EXCEPT ![1] = Junk]}
       \/ \E r \in Replies : r # Reply("begin", TRUE) /\ toHost' = Append(toHost, r)
    /\ \/ rx' \in {rx, <<>>}
       \/ rx # <<>> /\ rx' = Tail(rx)
       \/ \E r \in Replies : r # Reply("begin", TRUE) /\ rx' = Append(rx, r)

\* A message that is added or put in the place of another leaves the ones of
\* another kind as many as they were, or less.
LEMMA QueueKeeps ==
    ASSUME NEW S, NEW q \in Seq(S), NEW x \in S, NEW m, x # m, NEW r,
           \/ r \in {q, <<>>, Append(q, x), <<x>> \o q}
           \/ q # <<>> /\ r \in {Tail(q), [q EXCEPT ![1] = x]}
    PROVE  /\ Holds(r, m) => Holds(q, m)
           /\ Single(q, m) => Single(r, m)
  <1>0. Len(q) \in Nat
    BY LenProperties
  <1>1. CASE r = q
    BY <1>1
  <1>2. CASE r = <<>>
    BY <1>2 DEF Holds, Single
  <1>3. CASE r = Append(q, x)
    <2>1. /\ Len(r) = Len(q) + 1 /\ r[Len(q) + 1] = x
          /\ \A i \in 1 .. Len(q) : r[i] = q[i]
      BY <1>3, QueueElements
    <2>2. \A i \in 1 .. Len(r) : r[i] = m => i \in 1 .. Len(q) /\ q[i] = m
      BY <1>0, <2>1
    <2> QED
      BY <2>2 DEF Holds, Single
  <1>4. CASE q # <<>> /\ r = Tail(q)
    <2>1. \A i \in 1 .. Len(r) : r[i] = q[i + 1] /\ i + 1 \in 1 .. Len(q)
      BY <1>4, QueueElements
    <2>2. Holds(r, m) => Holds(q, m)
      BY <2>1 DEF Holds
    <2>3. ASSUME Single(q, m), NEW i \in 1 .. Len(r), NEW j \in 1 .. Len(r),
                 r[i] = m, r[j] = m
          PROVE  i = j
      <3>1. i + 1 = j + 1
        BY <2>1, <2>3 DEF Single
      <3>2. i \in Int /\ j \in Int
        OBVIOUS
      <3> QED
        BY <3>1, <3>2
    <2> QED
      BY <2>2, <2>3 DEF Single
  <1>5. CASE q # <<>> /\ r = [q EXCEPT ![1] = x]
    <2>1. /\ Len(r) = Len(q)
          /\ \A i \in 1 .. Len(q) : r[i] = IF i = 1 THEN x ELSE q[i]
      BY <1>5, QueueElements
    <2>2. \A i \in 1 .. Len(r) : r[i] = m => i \in 1 .. Len(q) /\ q[i] = m
      BY <2>1
    <2> QED
      BY <2>2 DEF Holds, Single
  <1>6. CASE r = <<x>> \o q
    <2>1. /\ \A i \in 1 .. Len(r) : i # 1 => r[i] = q[i - 1] /\ i - 1 \in 1 .. Len(q)
          /\ r[1] = x
      BY <1>6, QueueElements
    <2>2. \A i \in 1 .. Len(r) : r[i] = m => i - 1 \in 1 .. Len(q) /\ q[i - 1] = m
      BY <2>1
    <2>3. ASSUME Single(q, m), NEW i \in 1 .. Len(r), NEW j \in 1 .. Len(r),
                 r[i] = m, r[j] = m
          PROVE  i = j
      <3>1. i - 1 = j - 1
        BY <2>2, <2>3 DEF Single
      <3>2. i \in Int /\ j \in Int
        OBVIOUS
      <3> QED
        BY <3>1, <3>2
    <2>4. Holds(r, m) => Holds(q, m)
      BY <2>2 DEF Holds
    <2> QED
      BY <2>3, <2>4 DEF Single
  <1> QED
    BY <1>1, <1>2, <1>3, <1>4, <1>5, <1>6

\* A FLASH_BEGIN or FLASH_DATA in the queue after such a step was in it before,
\* and is the last if it was and is open.
LEMMA CommandsFrom ==
    ASSUME TypeInv, CommandsGo,
           NEW i \in 1 .. Len(toDev'), toDev'[i].op \in {"begin", "data"}
    PROVE  \E j \in 1 .. Len(toDev) : /\ toDev'[i] = toDev[j]
                                      /\ BeginOpen /\ j = Len(toDev)
                                            => i = Len(toDev')
  <1>1. toDev \in Seq(Commands) /\ JunkCommand \in Commands
    BY MessagesTyped DEF TypeInv, TypeOK
  <1>2. Len(toDev) \in Nat
    BY <1>1, LenProperties
  <1>3. CASE toDev' = toDev
    BY <1>3
  <1>4. CASE toDev' = <<>>
    BY <1>4
  <1>5. CASE toDev # <<>> /\ toDev' = Tail(toDev)
    <2>1. toDev'[i] = toDev[i + 1] /\ i + 1 \in 1 .. Len(toDev)
      BY <1>1, <1>5, QueueElements
    <2>2. Len(toDev') = Len(toDev) - 1
      BY <1>1, <1>5, HeadTailProperties
    <2>3. i \in Int /\ (i + 1 = Len(toDev) => i = Len(toDev'))
      BY <1>2, <2>2
    <2> QED
      BY <2>1, <2>3
  <1>6. CASE toDev # <<>> /\ toDev' = [toDev EXCEPT ![1] = JunkCommand]
    <2>1. /\ Len(toDev') = Len(toDev)
          /\ toDev'[i] = IF i = 1 THEN JunkCommand ELSE toDev[i]
      BY <1>1, <1>6, QueueElements
    <2> QED
      BY <2>1, CommandFields
  <1>7. ASSUME ~BeginOpen, NEW q \in {toDev, <<>>},
               toDev' = Append(q, PartialCommand)
        PROVE  \E j \in 1 .. Len(toDev) : toDev'[i] = toDev[j]
    <2>1. q \in Seq(Commands) /\ PartialCommand \in Commands /\ Len(q) \in Nat
      BY <1>1, <1>7, MessagesTyped, EmptySeq, LenProperties
    <2>2. /\ Len(toDev') = Len(q) + 1 /\ toDev'[Len(q) + 1] = PartialCommand
          /\ \A k \in 1 .. Len(q) : toDev'[k] = q[k]
      BY <1>7, <2>1, QueueElements
    <2>3. i # Len(q) + 1
      BY <2>2, CommandFields
    <2>4. i \in 1 .. Len(q) /\ toDev'[i] = q[i]
      BY <2>1, <2>2, <2>3
    <2> QED
      BY <1>7, <2>4
  <1>8. ASSUME Len(toDev) > 1, NEW q \in {Tail(toDev), Tail(Tail(toDev))},
               toDev' \in {q, <<JunkCommand>> \o q}
        PROVE  \E j \in 1 .. Len(toDev) : /\ toDev'[i] = toDev[j]
                                          /\ j = Len(toDev) => i = Len(toDev')
    <2>1. /\ Tail(toDev) \in Seq(Commands) /\ Len(Tail(toDev)) = Len(toDev) - 1
          /\ \A k \in 1 .. Len(Tail(toDev)) : Tail(toDev)[k] = toDev[k + 1]
      BY <1>1, <1>8, HeadTailProperties
    <2>2. Tail(toDev) # <<>>
      <3>1. Len(Tail(toDev)) # 0
        <4>1. Len(toDev) \in Nat /\ Len(toDev) > 1
          BY <1>2, <1>8
        <4>2. Len(Tail(toDev)) = Len(toDev) - 1
          BY <2>1
        <4>3. \A n \in Nat : n > 1 => n - 1 # 0
          OBVIOUS
        <4> QED
          BY <4>1, <4>2, <4>3, Zenon
      <3> QED
        BY <3>1, EmptySeq
    <2>3. /\ Tail(Tail(toDev)) \in Seq(Commands)
          /\ Len(Tail(Tail(toDev))) = Len(toDev) - 2
          /\ \A k \in 1 .. Len(Tail(Tail(toDev))) :
                Tail(Tail(toDev))[k] = Tail(toDev)[k + 1]
      BY <1>2, <2>1, <2>2, HeadTailProperties
    <2>4. PICK d \in {1, 2} : /\ q \in Seq(Commands) /\ Len(q) = Len(toDev) - d
                              /\ \A k \in 1 .. Len(q) : q[k] = toDev[k + d]
      <3>1. CASE q = Tail(toDev)
        BY <2>1, <3>1
      <3>2. CASE q = Tail(Tail(toDev))
        <4>1. ASSUME NEW k \in 1 .. Len(q) PROVE q[k] = toDev[k + 2]
          <5>1. q[k] = Tail(toDev)[k + 1] /\ k + 1 \in 1 .. Len(Tail(toDev))
            BY <1>2, <2>1, <2>3, <3>2
          <5> QED
            BY <2>1, <5>1
        <4> QED
          BY <2>3, <3>2, <4>1
      <3> QED
        BY <1>8, <3>1, <3>2
    <2>5. CASE toDev' = q
      <3>1. i + d \in 1 .. Len(toDev) /\ toDev'[i] = toDev[i + d]
        BY <1>2, <2>4, <2>5
      <3>2. i + d = Len(toDev) => i = Len(toDev')
        BY <1>2, <2>4, <2>5
      <3> QED
        BY <3>1, <3>2
    <2>6. CASE toDev' = <<JunkCommand>> \o q
      <3>1. /\ Len(toDev') = Len(q) + 1 /\ toDev'[1] = JunkCommand
            /\ i # 1 => toDev'[i] = q[i - 1] /\ i - 1 \in 1 .. Len(q)
        <4>1. q \in Seq(Commands) /\ JunkCommand \in Commands
          BY <1>1, <2>4
        <4>2. /\ Len(<<JunkCommand>> \o q) = Len(q) + 1
              /\ (<<JunkCommand>> \o q)[1] = JunkCommand
              /\ \A k \in 1 .. Len(<<JunkCommand>> \o q) :
                    k # 1 => /\ (<<JunkCommand>> \o q)[k] = q[k - 1]
                             /\ k - 1 \in 1 .. Len(q)
          BY <4>1, QueueElements
        <4> QED
          BY <2>6, <4>2
      <3>2. i # 1
        BY <3>1, CommandFields
      <3>3. /\ i - 1 + d \in 1 .. Len(toDev) /\ toDev'[i] = toDev[i - 1 + d]
            /\ i - 1 + d = Len(toDev) => i = Len(toDev')
        BY <1>2, <2>4, <3>1, <3>2
      <3> QED
        BY <3>3
    <2> QED
      BY <1>8, <2>5, <2>6
  <1> QED
    BY <1>3, <1>4, <1>5, <1>6, <1>7, <1>8 DEF CommandsGo

LEMMA FlashKept == InPlace /\ flash' = flash => InPlace'
  BY DEF InPlace, Proper, Area, Own

\* Such a step keeps the invariant when the base address stays, what it does to
\* the Flash is in place, no new command is opened, and an open one stays so.
LEMMA QuietStep ==
    ASSUME TypeInv, AnyLinkInv, Quieter, dev'.base = dev.base, InPlace',
           \A b \in Blocks : flash[b] # Stale => flash'[b] # Stale,
           BeginOpen => BeginOpen' /\ (pc' = "Begin" => pc = "Begin" /\ seg' = seg),
           pc' = "Data" => pc = "Data" /\ seg' = seg,
           waiting' => try' > 0
    PROVE  AnyLinkInv'
  <1>1. toHost \in Seq(Replies) /\ rx \in Seq(Replies)
    BY DEF TypeInv, TypeOK
  <1>2. Begun \in Replies /\ Junk \in Replies /\ Junk # Begun
    BY MessagesTyped DEF Begun, Junk, Reply
  <1>3. /\ Holds(toHost', Begun) => Holds(toHost, Begun)
        /\ Single(toHost, Begun) => Single(toHost', Begun)
    <2>1. PICK x \in Replies :
             /\ x # Begun
             /\ \/ toHost' \in {toHost, <<>>, Append(toHost, x), <<x>> \o toHost}
                \/ toHost # <<>> /\ toHost' \in {Tail(toHost), [toHost EXCEPT ![1] = x]}
      BY <1>2 DEF Quieter, CommandsGo, Begun
    <2> QED
      BY <1>1, <2>1, QueueKeeps
  <1>4. /\ Holds(rx', Begun) => Holds(rx, Begun)
        /\ Single(rx, Begun) => Single(rx', Begun)
    <2>1. PICK x \in Replies :
             /\ x # Begun
             /\ \/ rx' \in {rx, <<>>, Append(rx, x)}
                \/ rx # <<>> /\ rx' \in {Tail(rx), [rx EXCEPT ![1] = x]}
      BY <1>2 DEF Quieter, CommandsGo, Begun
    <2> QED
      BY <1>1, <2>1, QueueKeeps
  <1>5. Begun' = Begun
    BY DEF Begun
  <1>6. \A s \in 1 .. Len(Images) : ReadyFor(s) => ReadyFor(s)'
    BY ReadyStays
  <1>7. BeginCommands'
    <2> SUFFICES ASSUME NEW i \in 1 .. Len(toDev'), toDev'[i].op = "begin"
                 PROVE  /\ i = Len(toDev') /\ BeginOpen'
                        /\ pc' = "Begin" => toDev'[i] = Command'
                        /\ ~Holds(toHost', Begun) /\ ~Holds(rx', Begun)
      BY <1>5 DEF BeginCommands
    <2>1. PICK j \in 1 .. Len(toDev) : /\ toDev'[i] = toDev[j]
                                       /\ BeginOpen /\ j = Len(toDev)
                                             => i = Len(toDev')
      BY CommandsFrom DEF Quieter
    <2>2. /\ j = Len(toDev) /\ BeginOpen
          /\ pc = "Begin" => toDev[j] = Command
          /\ ~Holds(toHost, Begun) /\ ~Holds(rx, Begun)
      BY <2>1 DEF AnyLinkInv, BeginCommands
    <2>3. pc' = "Begin" => Command' = Command
      BY <2>2 DEF Command, BeginOpen
    <2> QED
      BY <1>3, <1>4, <2>1, <2>2, <2>3
  <1>8. BeginReplies'
    <2>1. ASSUME Holds(toHost', Begun) \/ Holds(rx', Begun)
          PROVE  BeginOpen' /\ (pc' = "Begin" => ReadyFor(seg)') /\ toDev' = <<>>
      <3>1. BeginOpen /\ (pc = "Begin" => ReadyFor(seg)) /\ toDev = <<>>
        BY <1>3, <1>4, <2>1 DEF AnyLinkInv, BeginReplies
      <3>2. toDev' = <<>>
        BY <3>1 DEF Quieter, CommandsGo
      <3>3. ASSUME pc' = "Begin" PROVE ReadyFor(seg)'
        <4>1. pc = "Begin" /\ seg' = seg /\ seg \in 1 .. Len(Images)
          BY <3>1, <3>3 DEF BeginOpen, TypeInv, TypeOK
        <4> QED
          BY <1>6, <3>1, <4>1 DEF ReadyFor, Area
      <3> QED
        BY <3>1, <3>2, <3>3
    <2> QED
      BY <1>3, <1>4, <1>5, <2>1 DEF AnyLinkInv, BeginReplies
  <1>9. DataCommands'
    <2> SUFFICES ASSUME NEW i \in 1 .. Len(toDev'), toDev'[i].op = "data"
                 PROVE  /\ toDev'[i].img \in 1 .. Len(Images)
                        /\ toDev'[i].seq \in Nat
                        /\ toDev'[i].seq < Images[toDev'[i].img].blks
                        /\ ReadyFor(toDev[i].img)'
      BY DEF DataCommands
    <2>1. PICK j \in 1 .. Len(toDev) : toDev'[i] = toDev[j]
      BY CommandsFrom DEF Quieter
    <2>2. /\ toDev[j].img \in 1 .. Len(Images)
          /\ toDev[j].seq \in Nat /\ toDev[j].seq < Images[toDev[j].img].blks
          /\ ReadyFor(toDev[j].img)
      BY <2>1 DEF AnyLinkInv, DataCommands
    <2> QED
      BY <1>6, <2>1, <2>2 DEF ReadyFor, Area
  <1>10. pc' = "Data" => ReadyFor(seg)'
    <2> SUFFICES ASSUME pc' = "Data" PROVE ReadyFor(seg)'
      OBVIOUS
    <2>1. pc = "Data" /\ seg' = seg /\ seg \in 1 .. Len(Images) /\ ReadyFor(seg)
      BY DEF AnyLinkInv, TypeInv, TypeOK
    <2> QED
      BY <1>6, <2>1 DEF ReadyFor, Area
  <1> QED
    BY <1>7, <1>8, <1>9, <1>10 DEF AnyLinkInv

\* A command is sent: none is open, and the new one is the last.
LEMMA SendKeepsAnyLink ==
    ASSUME TypeInv, AnyLinkInv, SendCommand
    PROVE  AnyLinkInv'
  <1>1. /\ pc \in CommandPcs /\ ~waiting /\ waiting' /\ rx' = <<>>
        /\ try' = try + 1 /\ try \in Nat
        /\ UNCHANGED <<pc, seg, blk, toHost, dev, flash>>
    BY DEF SendCommand, TypeInv, TypeOK
  <1>2. ~BeginOpen
    BY <1>1 DEF BeginOpen, CommandPcs
  <1>3. PICK unsent \in {toDev, <<>>} : toDev' = Append(unsent, Command)
    BY DEF SendCommand, Unflushed
  <1>4. unsent \in Seq(Commands) /\ Command \in Commands
    BY <1>1, CommandTyped, EmptySeq DEF TypeInv, TypeOK
  <1>5. /\ Len(unsent) \in Nat
        /\ Len(toDev') = Len(unsent) + 1 /\ toDev'[Len(unsent) + 1] = Command
        /\ \A i \in 1 .. Len(unsent) : toDev'[i] = unsent[i]
    BY <1>3, <1>4, LenProperties, QueueElements
  <1>6. \A i \in 1 .. Len(toDev') : i = Len(toDev') \/ i \in 1 .. Len(unsent)
    BY <1>5
  <1>7. \A i \in 1 .. Len(unsent) : unsent[i] = toDev[i] /\ i \in 1 .. Len(toDev)
    BY <1>3, EmptySeq
  <1>8. ~Holds(toHost', Begun) /\ ~Holds(rx', Begun) /\ Begun' = Begun
    <2>1. ~Holds(toHost, Begun) /\ Begun' = Begun
      BY <1>2 DEF AnyLinkInv, BeginReplies, Begun
    <2>2. ~Holds(<<>>, Begun)
      BY EmptySeq DEF Holds
    <2> QED
      BY <1>1, <2>1, <2>2
  <1>9. Command' = Command /\ \A s : ReadyFor(s)' = ReadyFor(s)
    BY <1>1 DEF Command, ReadyFor, Area
  <1>10. BeginCommands'
    <2> SUFFICES ASSUME NEW i \in 1 .. Len(toDev'), toDev'[i].op = "begin"
                 PROVE  /\ i = Len(toDev') /\ BeginOpen'
                        /\ pc' = "Begin" => toDev'[i] = Command'
      BY <1>8 DEF BeginCommands
    <2>1. i = Len(toDev')
      BY <1>2, <1>5, <1>6, <1>7 DEF AnyLinkInv, BeginCommands
    <2>2. toDev'[i] = Command
      BY <1>5, <2>1
    <2>3. pc \in {"Begin", "RunBegin"}
      BY <1>1, <2>2, CommandFields DEF Op, CommandPcs
    <2> QED
      BY <1>1, <1>9, <2>1, <2>2, <2>3 DEF BeginOpen
  <1>11. BeginReplies'
    BY <1>8 DEF BeginReplies, Holds, Single
  <1>12. DataCommands'
    <2> SUFFICES ASSUME NEW i \in 1 .. Len(toDev'), toDev'[i].op = "data"
                 PROVE  /\ toDev'[i].img \in 1 .. Len(Images)
                        /\ toDev'[i].seq \in Nat
                        /\ toDev'[i].seq < Images[toDev'[i].img].blks
                        /\ ReadyFor(toDev'[i].img)
      BY <1>9 DEF DataCommands, ReadyFor, Area
    <2>1. CASE i \in 1 .. Len(unsent)
      BY <1>5, <1>7, <2>1 DEF AnyLinkInv, DataCommands
    <2>2. CASE i = Len(toDev')
      <3>1. toDev'[i] = Command
        BY <1>5, <2>2
      <3>2. pc = "Data"
        BY <1>1, <3>1, CommandFields DEF Op, CommandPcs
      <3>3. toDev'[i].img = seg /\ toDev'[i].seq = blk
        BY <3>1, <3>2, CommandFields DEF Command
      <3> QED
        BY <3>2, <3>3 DEF AnyLinkInv, TypeInv, TypeOK
    <2> QED
      BY <1>6, <2>1, <2>2
  <1>13. (pc' = "Data" => ReadyFor(seg)') /\ InPlace' /\ (waiting' => try' > 0)
    BY <1>1 DEF AnyLinkInv, ReadyFor, InPlace, Proper, Area, Own
  <1> QED
    BY <1>10, <1>11, <1>12, <1>13 DEF AnyLinkInv

\* The reply to a FLASH_BEGIN is the only one, and the device has served it.
LEMMA GoodReplyKeepsAnyLink ==
    ASSUME TypeInv, AnyLinkInv, GoodReply
    PROVE  AnyLinkInv'
  <1>1. /\ waiting /\ rx # <<>> /\ rx[1] = Reply(Op, TRUE) /\ rx' = Tail(rx)
        /\ waiting' = FALSE /\ UNCHANGED <<toDev, toHost, dev, flash>>
        /\ pc \in CommandPcs
    BY DEF GoodReply, TypeInv, Attempts
  <1>2. CASE pc \in {"Data", "RunEnd"}
    <2>1. ~BeginOpen
      BY <1>2 DEF BeginOpen
    <2>2. pc' = "Data" => pc = "Data" /\ seg' = seg
      BY <1>2 DEF GoodReply, Proceed, AfterImages
    <2>3. InPlace'
      BY <1>1, FlashKept DEF AnyLinkInv
    <2> QED
      BY <1>1, <2>1, <2>2, <2>3, QuietStep DEF Quieter, CommandsGo
  <1>3. CASE pc \in {"Begin", "RunBegin"}
    <2>1. rx \in Seq(Replies) /\ rx[1] = Begun /\ 1 \in 1 .. Len(rx)
      <3>1. rx \in Seq(Replies)
        BY DEF TypeInv, TypeOK
      <3>2. Op = "begin"
        BY <1>3 DEF Op
      <3> QED
        BY <1>1, <3>1, <3>2, QueueElements DEF Begun
    <2>2. /\ Holds(rx, Begun) /\ ~Holds(toHost, Begun) /\ toDev = <<>>
          /\ pc = "Begin" => ReadyFor(seg)
      BY <2>1 DEF AnyLinkInv, BeginReplies, Holds
    <2>3. ~Holds(rx', Begun)
      <3> SUFFICES ASSUME NEW i \in 1 .. Len(Tail(rx)), Tail(rx)[i] = Begun
                   PROVE  FALSE
        BY <1>1 DEF Holds
      <3>1. rx[i + 1] = Begun /\ i + 1 \in 1 .. Len(rx)
        BY <1>1, <2>1, HeadTailProperties, EmptySeq
      <3>2. i + 1 = 1
        BY <2>1, <3>1 DEF AnyLinkInv, BeginReplies, Single
      <3> QED
        BY <3>2
    <2>4. pc' = "Data" => ReadyFor(seg)'
      <3> SUFFICES ASSUME pc' = "Data" PROVE ReadyFor(seg)'
        OBVIOUS
      <3>1. pc = "Begin" /\ seg' = seg
        BY <1>3 DEF GoodReply, Proceed, AfterImages
      <3> QED
        BY <1>1, <2>2, <3>1 DEF ReadyFor, Area
    <2>5. BeginCommands' /\ DataCommands'
      BY <1>1, <2>2, EmptySeq DEF BeginCommands, DataCommands
    <2>6. BeginReplies'
      BY <1>1, <2>2, <2>3 DEF BeginReplies, Holds, Single, Begun
    <2>7. InPlace' /\ ~waiting'
      BY <1>1 DEF AnyLinkInv, InPlace, Proper, Area, Own
    <2> QED
      BY <2>4, <2>5, <2>6, <2>7 DEF AnyLinkInv
  <1> QED
    BY <1>1, <1>2, <1>3 DEF CommandPcs

\* FLASH_BEGIN is served: nothing is behind it, no reply to it is under way,
\* and what it erases belongs to an image.
LEMMA DeviceBeginKeepsAnyLink ==
    ASSUME TypeInv, AnyLinkInv, DeviceBegin
    PROVE  AnyLinkInv'
  <1>1. /\ toDev # <<>> /\ toDev[1].op = "begin"
        /\ dev' = [mode |-> "flash", base |-> toDev[1].addr]
        /\ flash' = [b \in Blocks |->
                        IF b \in toDev[1].addr .. toDev[1].addr + toDev[1].blks - 1
                        THEN Erased ELSE flash[b]]
        /\ toDev' = Tail(toDev) /\ toHost' = Append(toHost, Begun)
        /\ UNCHANGED <<pc, waiting, seg, blk, try, rx>>
    BY DEF DeviceBegin, Take, Begun
  <1>2. toDev \in Seq(Commands) /\ toHost \in Seq(Replies) /\ Begun \in Replies
    BY MessagesTyped DEF TypeInv, TypeOK, Begun
  <1>3. 1 \in 1 .. Len(toDev) /\ toDev[1] \in Commands
    BY <1>1, <1>2, QueueElements
  <1>4. /\ Len(toDev) = 1 /\ BeginOpen /\ (pc = "Begin" => toDev[1] = Command)
        /\ ~Holds(toHost, Begun) /\ ~Holds(rx, Begun)
    BY <1>1, <1>3 DEF AnyLinkInv, BeginCommands
  <1>5. toDev' = <<>>
    <2>1. toDev' \in Seq(Commands) /\ Len(toDev') = 0
      BY <1>1, <1>2, <1>4, HeadTailProperties
    <2> QED
      BY <2>1, EmptySeq
  <1>6. BeginCommands' /\ DataCommands'
    BY <1>5, EmptySeq DEF BeginCommands, DataCommands
  <1>7. \A b \in Blocks : flash'[b] # flash[b] => flash'[b] = Erased /\ Proper(b) # {}
    <2> SUFFICES ASSUME NEW b \in Blocks,
                        b \in toDev[1].addr .. toDev[1].addr + toDev[1].blks - 1
                 PROVE  Proper(b) # {}
      BY <1>1
    <2>1. PICK s \in 1 .. Len(Images) :
             toDev[1] = BeginCommand(Images[s].addr, Images[s].blks)
      <3>1. toDev[1] # BeginCommand(0, 0)
        BY CommandFields
      <3> QED
        BY <1>1, <1>3, <3>1, CommandFields DEF Commands
    <2>2. b \in Area(s)
      BY <2>1, CommandFields DEF Area
    <2> QED
      BY <2>2 DEF Proper
  <1>8. InPlace'
    BY <1>7 DEF AnyLinkInv, InPlace, Proper, Area, Own
  <1>9. pc = "Begin" => ReadyFor(seg)'
    <2> SUFFICES ASSUME pc = "Begin" PROVE ReadyFor(seg)'
      OBVIOUS
    <2>1. seg \in 1 .. Len(Images)
      BY DEF TypeInv, TypeOK
    <2>2. /\ toDev[1].addr = Images[seg].addr /\ toDev[1].blks = Images[seg].blks
      BY <1>4, CommandFields DEF Command
    <2>3. \A b \in Area(seg) : flash'[b] = Erased
      BY <1>1, <2>1, <2>2, AreaIndex DEF Area
    <2>4. Erased # Stale
      BY DEF Erased, Stale
    <2> QED
      BY <1>1, <2>2, <2>3, <2>4 DEF ReadyFor, Area
  <1>10. Holds(toHost, Begun)' => BeginOpen'
    BY <1>1, <1>4 DEF BeginOpen
  <1>11. Single(toHost', Begun) /\ Begun' = Begun
    <2>1. /\ Len(toHost') = Len(toHost) + 1
          /\ \A i \in 1 .. Len(toHost) : toHost'[i] = toHost[i]
      BY <1>1, <1>2, QueueElements
    <2>2. Len(toHost) \in Nat
      BY <1>2, LenProperties
    <2>3. \A i \in 1 .. Len(toHost') : toHost'[i] = Begun => i = Len(toHost) + 1
      BY <1>4, <2>1, <2>2 DEF Holds
    <2> QED
      BY <2>3 DEF Single, Begun
  <1>12. Single(rx', Begun) /\ ~Holds(rx', Begun)
    BY <1>1, <1>4 DEF AnyLinkInv, BeginReplies
  <1>13. BeginReplies'
    <2>1. BeginOpen'
      BY <1>1, <1>4 DEF BeginOpen
    <2> QED
      BY <1>1, <1>5, <1>9, <1>11, <1>12, <2>1 DEF BeginReplies
  <1>14. (pc' = "Data" => ReadyFor(seg)') /\ (waiting' => try' > 0)
    BY <1>1, <1>4 DEF AnyLinkInv, BeginOpen
  <1> QED
    BY <1>6, <1>8, <1>13, <1>14 DEF AnyLinkInv

\* FLASH_DATA is served: the block is the one it belongs to.
LEMMA DeviceDataKeepsAnyLink ==
    ASSUME TypeInv, AnyLinkInv, DeviceData
    PROVE  AnyLinkInv'
  <1> DEFINE m == toDev[1]
             b == dev.base + m.seq
             d == Own(m.img, m.seq)
  <1>1. /\ toDev # <<>> /\ m.op = "data" /\ dev' = dev
        /\ flash' = [c \in Blocks |->
                        IF c # b THEN flash[c]
                        ELSE IF flash[c] \in {Erased, d} THEN d ELSE Garbled]
        /\ toDev' = Tail(toDev) /\ toHost' = Append(toHost, Reply("data", TRUE))
        /\ UNCHANGED <<pc, waiting, seg, blk, try, rx>>
    BY DEF DeviceData, Take
  <1>2. 1 \in 1 .. Len(toDev)
    BY <1>1, EmptySeq DEF TypeInv, TypeOK
  <1>3. /\ m.img \in 1 .. Len(Images) /\ m.seq \in Nat
        /\ m.seq < Images[m.img].blks /\ ReadyFor(m.img)
    BY <1>1, <1>2 DEF AnyLinkInv, DataCommands
  <1>4. b \in Area(m.img) /\ b - Images[m.img].addr = m.seq
    BY <1>3, ImageFields DEF ReadyFor
  <1>5. Proper(b) = {d}
    <2>1. \A t \in 1 .. Len(Images) : b \in Area(t) => t = m.img
      BY <1>3, <1>4, AreasApart
    <2>2. {t \in 1 .. Len(Images) : b \in Area(t)} = {m.img}
      BY <1>3, <1>4, <2>1
    <2> QED
      BY <1>4, <2>2 DEF Proper
  <1>6. flash[b] \in {Erased, d}
    BY <1>3, <1>4, <1>5, AreaIndex DEF AnyLinkInv, InPlace, ReadyFor
  <1>7. InPlace'
    <2> SUFFICES ASSUME NEW c \in Blocks
                 PROVE  \/ flash'[c] \in Proper(c)
                        \/ flash'[c] = Stale
                        \/ flash'[c] = Erased /\ Proper(c) # {}
      BY DEF InPlace, Proper, Area, Own, Stale, Erased
    <2>1. CASE c = b
      BY <1>1, <1>5, <1>6, <2>1
    <2>2. CASE c # b
      BY <1>1, <2>2 DEF AnyLinkInv, InPlace
    <2> QED
      BY <2>1, <2>2
  <1>8. \A c \in Blocks : flash[c] # Stale => flash'[c] # Stale
    <2>1. d # Stale
      <3>1. m.img # 0
        BY <1>3
      <3> QED
        BY <3>1 DEF Own, Stale
    <2> QED
      BY <1>1, <1>6, <2>1
  <1>9. Quieter
    <2>1. Reply("data", TRUE) \in Replies /\ Reply("data", TRUE) # Reply("begin", TRUE)
      BY MessagesTyped DEF Reply
    <2> QED
      BY <1>1, <2>1 DEF Quieter, CommandsGo
  <1>10. BeginOpen' = BeginOpen /\ dev'.base = dev.base /\ (waiting' => try' > 0)
    BY <1>1 DEF BeginOpen, AnyLinkInv
  <1> QED
    BY <1>1, <1>7, <1>8, <1>9, <1>10, QuietStep

\* A reply moves from the line to the receive buffer.
LEMMA DeliverKeepsAnyLink ==
    ASSUME TypeInv, AnyLinkInv, Deliver
    PROVE  AnyLinkInv'
  <1>1. /\ toHost # <<>> /\ rx' = Append(rx, toHost[1]) /\ toHost' = Tail(toHost)
        /\ UNCHANGED <<pc, waiting, seg, blk, try, toDev, dev, flash>>
    BY DEF Deliver
  <1>2. rx \in Seq(Replies) /\ toHost \in Seq(Replies)
    BY DEF TypeInv, TypeOK
  <1>3. 1 \in 1 .. Len(toHost) /\ toHost[1] \in Replies
    BY <1>1, <1>2, EmptySeq, ElementOfSeq
  <1>4. InPlace' /\ BeginOpen' = BeginOpen /\ (waiting' => try' > 0)
    BY <1>1, FlashKept DEF AnyLinkInv, BeginOpen
  <1>5. CASE toHost[1] # Begun
    <2>1. Quieter
      BY <1>1, <1>3, <1>5 DEF Quieter, CommandsGo, Begun
    <2> QED
      BY <1>1, <1>4, <2>1, QuietStep
  <1>6. CASE toHost[1] = Begun
    <2>1. /\ Holds(toHost, Begun) /\ ~Holds(rx, Begun) /\ toDev = <<>>
          /\ BeginOpen /\ (pc = "Begin" => ReadyFor(seg))
      BY <1>3, <1>6 DEF AnyLinkInv, BeginReplies, Holds
    <2>2. ~Holds(toHost', Begun)
      <3> SUFFICES ASSUME NEW i \in 1 .. Len(Tail(toHost)), Tail(toHost)[i] = Begun
                   PROVE  FALSE
        BY <1>1 DEF Holds
      <3>1. toHost[i + 1] = Begun /\ i + 1 \in 1 .. Len(toHost)
        BY <1>1, <1>2, <1>3, QueueElements
      <3>2. i + 1 = 1
        BY <1>3, <1>6, <3>1 DEF AnyLinkInv, BeginReplies, Single
      <3> QED
        BY <3>2
    <2>3. Single(rx', Begun)
      <3>1. /\ Len(rx') = Len(rx) + 1 /\ Len(rx) \in Nat
            /\ \A i \in 1 .. Len(rx) : rx'[i] = rx[i]
        BY <1>1, <1>2, <1>3, QueueElements, LenProperties
      <3>2. \A i \in 1 .. Len(rx') : rx'[i] = Begun => i = Len(rx) + 1
        BY <2>1, <3>1 DEF Holds
      <3> QED
        BY <3>2 DEF Single
    <2>4. BeginReplies'
      <3>1. Begun' = Begun /\ Single(toHost', Begun)
        BY <2>2 DEF Begun, Holds, Single
      <3>2. pc' = "Begin" => ReadyFor(seg)'
        BY <1>1, <2>1 DEF ReadyFor, Area
      <3> QED
        BY <1>1, <1>4, <2>1, <2>2, <2>3, <3>1, <3>2 DEF BeginReplies
    <2>5. BeginCommands' /\ DataCommands'
      BY <1>1, <2>1, EmptySeq DEF BeginCommands, DataCommands
    <2>6. pc' = "Data" => ReadyFor(seg)'
      BY <1>1 DEF AnyLinkInv, ReadyFor, Area
    <2> QED
      BY <1>4, <2>4, <2>5, <2>6 DEF AnyLinkInv
  <1> QED
    BY <1>5, <1>6

\* An attempt at FLASH_BEGIN that fails is the only one there is.
LEMMA FailureCloses ==
    ASSUME TypeInv, NEW n \in Nat, n > 0, AttemptFailed(n),
           ~waiting \/ pc \in CommandPcs
    PROVE  /\ BeginOpen => BeginOpen' /\ pc' # "Begin"
           /\ pc' = "Data" => pc = "Data" /\ seg' = seg
           /\ ~waiting'
  BY DEF AttemptFailed, Tries, BeginOpen, CommandPcs

LEMMA AnyLinkStep == TypeInv /\ AnyLinkInv /\ [Next]_vars => AnyLinkInv'
  <1> SUFFICES ASSUME TypeInv, AnyLinkInv, [Next]_vars PROVE AnyLinkInv'
    OBVIOUS
  <1>t. /\ try \in Nat /\ (waiting => try > 0 /\ pc \in CommandPcs)
        /\ Junk \in Replies /\ Junk # Reply("begin", TRUE)
    BY MessagesTyped DEF TypeInv, TypeOK, Attempts, AnyLinkInv, Junk, Reply
  <1>k. flash' = flash => InPlace'
    BY FlashKept DEF AnyLinkInv
  <1>1. CASE SendCommand
    BY <1>1, SendKeepsAnyLink
  <1>2. CASE SendFails
    <2>1. /\ pc \in CommandPcs /\ AttemptFailed(try + 1) /\ Quieter
          /\ flash' = flash /\ dev' = dev
      BY <1>2 DEF SendFails, Unflushed, Quieter, CommandsGo, BeginOpen, CommandPcs
    <2> QED
      BY <1>t, <1>k, <2>1, FailureCloses, QuietStep
  <1>3. CASE ReadFails
    <2>1. /\ Quieter /\ flash' = flash /\ dev' = dev /\ ~waiting'
          /\ pc = "Data" /\ pc' = "Failed"
      BY <1>3 DEF ReadFails, Quieter, CommandsGo
    <2> QED
      BY <1>k, <2>1, QuietStep DEF BeginOpen
  <1>4. CASE BadReply
    <2>1. /\ waiting /\ AttemptFailed(try) /\ Quieter
          /\ flash' = flash /\ dev' = dev
      BY <1>4 DEF BadReply, Quieter, CommandsGo
    <2> QED
      BY <1>t, <1>k, <2>1, FailureCloses, QuietStep
  <1>5. CASE GoodReply
    BY <1>5, GoodReplyKeepsAnyLink
  <1>6. CASE Timeout
    <2>1. /\ waiting /\ AttemptFailed(try) /\ Quieter
          /\ flash' = flash /\ dev' = dev
      BY <1>6 DEF Timeout, Quieter, CommandsGo
    <2> QED
      BY <1>t, <1>k, <2>1, FailureCloses, QuietStep
  <1>7. CASE ResetToRun
    <2>1. /\ Quieter /\ flash' = flash /\ dev'.base = dev.base
          /\ ~waiting' /\ pc = "ResetRun" /\ pc' = "Done"
      BY <1>7, <1>t DEF ResetToRun, Quieter, CommandsGo, CommandPcs, TypeInv, TypeOK
    <2> QED
      BY <1>k, <2>1, QuietStep DEF BeginOpen
  <1>8. CASE DeviceBegin
    BY <1>8, DeviceBeginKeepsAnyLink
  <1>9. CASE DeviceData
    BY <1>9, DeviceDataKeepsAnyLink
  <1>10. CASE DeviceEnd \/ DeviceRefuses \/ DeviceSilent
    <2>1. /\ flash' = flash /\ dev'.base = dev.base
          /\ UNCHANGED <<pc, waiting, seg, blk, try, rx>>
      BY <1>10 DEF DeviceEnd, DeviceRefuses, DeviceSilent, Take, TypeInv, TypeOK
    <2>2. \E r \in Replies : /\ r # Reply("begin", TRUE)
                             /\ toHost' \in {toHost, Append(toHost, r)}
      <3>1. CASE DeviceEnd
        BY <3>1, MessagesTyped DEF DeviceEnd, Take, Reply
      <3>2. CASE DeviceRefuses
        <4>1. Reply(toDev[1].op, FALSE) \in Replies
          BY <3>2, MessagesTyped DEF DeviceRefuses, Junk
        <4>2. Reply(toDev[1].op, FALSE) # Reply("begin", TRUE)
          BY DEF Reply
        <4> QED
          BY <3>2, <4>1, <4>2 DEF DeviceRefuses, Take
      <3>3. CASE DeviceSilent
        BY <3>3, <1>t DEF DeviceSilent, Take
      <3> QED
        BY <1>10, <3>1, <3>2, <3>3
    <2>3. Quieter
      BY <1>10, <2>1, <2>2
      DEF Quieter, CommandsGo, DeviceEnd, DeviceRefuses, DeviceSilent, Take
    <2> QED
      BY <1>k, <1>t, <2>1, <2>3, QuietStep DEF BeginOpen
  <1>11. CASE Deliver
    BY <1>11, DeliverKeepsAnyLink
  <1>12. CASE Environment \/ UNCHANGED vars
    <2>1. /\ flash' = flash /\ dev'.base = dev.base
          /\ UNCHANGED <<pc, waiting, seg, blk, try>>
      BY <1>12
      DEF Environment, LoseCommand, DamageCommand, LoseReply, DamageReply,
          Noise, DeviceReset, vars, TypeInv, TypeOK
    <2>2. Quieter
      BY <1>12, <1>t
      DEF Environment, LoseCommand, DamageCommand, LoseReply, DamageReply,
          Noise, DeviceReset, vars, Quieter, CommandsGo
    <2> QED
      BY <1>k, <1>t, <2>1, <2>2, QuietStep DEF BeginOpen
  <1>13. CASE DeviceJoins
    <2>1. /\ Quieter /\ flash' = flash /\ dev' = dev
          /\ UNCHANGED <<pc, waiting, seg, blk, try, rx>>
      BY <1>13 DEF DeviceJoins, Quieter, CommandsGo
    <2> QED
      BY <1>k, <1>t, <2>1, QuietStep DEF BeginOpen
  <1> QED
    BY <1>1, <1>2, <1>3, <1>4, <1>5, <1>6, <1>7, <1>8, <1>9, <1>10, <1>11,
       <1>12, <1>13
    DEF Next, Host, Device

\* Whatever the line does, late, repeated, lost and damaged messages and noise
\* included, no block gets the data of another block or is programmed over
\* other data, and what no image covers is not touched (esp.cpp:478-527): one
\* FLASH_BEGIN at a time is open, and no FLASH_DATA outlives the image it
\* belongs to.
THEOREM BlocksInPlace == Spec => []InPlace
  <1>1. TypeInv /\ AnyLinkInv => InPlace
    BY DEF AnyLinkInv
  <1> QED
    BY TypeInit, TypeStep, AnyLinkInit, AnyLinkStep, <1>1, PTL DEF Spec

-----------------------------------------------------------------------------
(* The pieces on the line *)

\* A message that costs the attempt that meets it: a damaged frame, a piece of
\* one, or a frame without its end.
Spoils(m)    == m.op \in {"junk", "partial"}
Spoilers(q)  == {i \in 1 .. Len(q) : Spoils(q[i])}
Pieces(q)    == Cardinality(Spoilers(q))
Weight(m)    == IF Spoils(m) THEN 1 ELSE 0

LEMMA ShiftedSet ==
    ASSUME NEW T \in SUBSET Nat, IsFiniteSet(T)
    PROVE  LET U == {i + 1 : i \in T}
           IN  IsFiniteSet(U) /\ Cardinality(U) = Cardinality(T)
  <1> DEFINE U == {i + 1 : i \in T}
             f == [i \in T |-> i + 1]
  <1>1. \A a, b \in T : f[a] = f[b] => a = b
    BY SMT
  <1>2. f \in Bijection(T, U)
    <2>1. f \in [T -> U]
      OBVIOUS
    <2>2. \A u \in U : \E a \in T : f[a] = u
      OBVIOUS
    <2> QED
      BY <1>1, <2>1, <2>2, Fun_IsBij
  <1>3. ExistsBijection(T, U)
    BY <1>2 DEF ExistsBijection
  <1> QED
    BY <1>3, FS_Bijection

\* What the steps of a FIFO queue do to the number of pieces in it.
LEMMA PiecesSteps ==
    ASSUME NEW S, NEW q \in Seq(S), NEW x \in S
    PROVE  /\ Pieces(q) \in Nat /\ Pieces(<<>>) = 0
           /\ Pieces(Append(q, x)) = Pieces(q) + Weight(x)
           /\ Pieces(<<x>> \o q) = Pieces(q) + Weight(x)
  <1>0. Len(q) \in Nat /\ Spoilers(q) \in SUBSET (1 .. Len(q))
    BY LenProperties DEF Spoilers
  <1>1. IsFiniteSet(Spoilers(q)) /\ Pieces(q) \in Nat
    <2>1. IsFiniteSet(1 .. Len(q))
      BY <1>0, FS_Interval
    <2> QED
      BY <1>0, <2>1, FS_Subset, FS_CardinalityType DEF Pieces
  <1>2. Pieces(<<>>) = 0
    <2>1. Spoilers(<<>>) = {}
      BY DEF Spoilers
    <2> QED
      BY <2>1, FS_EmptySet DEF Pieces
  <1>3. Pieces(Append(q, x)) = Pieces(q) + Weight(x)
    <2>1. /\ Len(Append(q, x)) = Len(q) + 1 /\ Append(q, x)[Len(q) + 1] = x
          /\ \A i \in 1 .. Len(q) : Append(q, x)[i] = q[i]
      BY QueueElements
    <2>2. CASE Spoils(x)
      <3>1. Spoilers(Append(q, x)) = Spoilers(q) \cup {Len(q) + 1}
        BY <1>0, <2>1, <2>2 DEF Spoilers
      <3>2. Len(q) + 1 \notin Spoilers(q)
        BY <1>0
      <3> QED
        BY <1>1, <2>2, <3>1, <3>2, FS_AddElement DEF Pieces, Weight
    <2>3. CASE ~Spoils(x)
      <3>1. Spoilers(Append(q, x)) = Spoilers(q)
        BY <1>0, <2>1, <2>3 DEF Spoilers
      <3> QED
        BY <1>1, <2>3, <3>1 DEF Pieces, Weight
    <2> QED
      BY <2>2, <2>3
  <1>4. Pieces(<<x>> \o q) = Pieces(q) + Weight(x)
    <2> DEFINE U == {i + 1 : i \in Spoilers(q)}
    <2>1. IsFiniteSet(U) /\ Cardinality(U) = Pieces(q)
      <3>1. Spoilers(q) \in SUBSET Nat
        BY <1>0
      <3> QED
        BY <1>1, <3>1, ShiftedSet DEF Pieces
    <2>2. /\ Len(<<x>> \o q) = Len(q) + 1 /\ (<<x>> \o q)[1] = x
          /\ \A i \in 1 .. Len(<<x>> \o q) :
                i # 1 => (<<x>> \o q)[i] = q[i - 1] /\ i - 1 \in 1 .. Len(q)
      BY QueueElements
    <2>3. U = Spoilers(<<x>> \o q) \ {1}
      <3>1. ASSUME NEW i \in Spoilers(q) PROVE i + 1 \in Spoilers(<<x>> \o q) \ {1}
        <4>1. i \in 1 .. Len(q) /\ Spoils(q[i])
          BY DEF Spoilers
        <4>2. i + 1 \in 1 .. Len(<<x>> \o q) /\ i + 1 # 1 /\ (i + 1) - 1 = i
          BY <1>0, <2>2, <4>1
        <4> QED
          BY <2>2, <4>1, <4>2 DEF Spoilers
      <3>2. ASSUME NEW j \in Spoilers(<<x>> \o q) \ {1} PROVE j \in U
        <4>1. j \in 1 .. Len(<<x>> \o q) /\ j # 1 /\ Spoils((<<x>> \o q)[j])
          BY DEF Spoilers
        <4>2. j - 1 \in Spoilers(q) /\ j = (j - 1) + 1
          BY <2>2, <4>1 DEF Spoilers
        <4> QED
          BY <4>2
      <3> QED
        BY <3>1, <3>2
    <2>4. 1 \in Spoilers(<<x>> \o q) <=> Spoils(x)
      BY <1>0, <2>2 DEF Spoilers
    <2>5. CASE Spoils(x)
      <3>1. Spoilers(<<x>> \o q) = U \cup {1} /\ 1 \notin U
        BY <2>3, <2>4, <2>5
      <3> QED
        BY <2>1, <2>5, <3>1, FS_AddElement DEF Pieces, Weight
    <2>6. CASE ~Spoils(x)
      <3>1. Spoilers(<<x>> \o q) = U
        BY <2>3, <2>4, <2>6
      <3> QED
        <4>1. Pieces(<<x>> \o q) = Pieces(q)
          BY <2>1, <3>1 DEF Pieces
        <4>2. Weight(x) = 0
          BY <2>6 DEF Weight
        <4> QED
          BY <1>1, <4>1, <4>2
    <2> QED
      BY <2>5, <2>6
  <1> QED
    BY <1>1, <1>2, <1>3, <1>4

\* The head of a queue, taken away or replaced.
LEMMA PiecesHead ==
    ASSUME NEW S, NEW q \in Seq(S), q # <<>>, NEW x \in S
    PROVE  /\ Pieces(q) = Pieces(Tail(q)) + Weight(q[1])
           /\ Pieces([q EXCEPT ![1] = x]) = Pieces(Tail(q)) + Weight(x)
           /\ Pieces(Tail(q)) \in Nat
  <1>1. /\ Tail(q) \in Seq(S) /\ Len(Tail(q)) = Len(q) - 1 /\ q[1] \in S
        /\ Len(q) \in Nat \ {0}
        /\ \A i \in 1 .. Len(Tail(q)) : Tail(q)[i] = q[i + 1]
        /\ Len([q EXCEPT ![1] = x]) = Len(q)
        /\ [q EXCEPT ![1] = x] \in Seq(S)
        /\ \A i \in 1 .. Len(q) :
              [q EXCEPT ![1] = x][i] = IF i = 1 THEN x ELSE q[i]
    BY QueueSteps, QueueElements
  <1>2. ASSUME NEW r \in Seq(S), NEW y \in S, Len(r) = Len(q), r[1] = y,
               \A i \in 1 .. Len(q) : i # 1 => r[i] = q[i]
        PROVE  Pieces(r) = Pieces(Tail(q)) + Weight(y)
    <2>1. /\ Len(<<y>> \o Tail(q)) = Len(Tail(q)) + 1
          /\ (<<y>> \o Tail(q))[1] = y
          /\ \A i \in 1 .. Len(<<y>> \o Tail(q)) :
                i # 1 => /\ (<<y>> \o Tail(q))[i] = Tail(q)[i - 1]
                         /\ i - 1 \in 1 .. Len(Tail(q))
      BY <1>1, QueueElements
    <2>2. \A i \in 1 .. Len(q) : r[i] = (<<y>> \o Tail(q))[i]
      BY <1>1, <1>2, <2>1
    <2>3. Len(r) = Len(<<y>> \o Tail(q))
      BY <1>1, <1>2, <2>1
    <2>4. Spoilers(r) = Spoilers(<<y>> \o Tail(q))
      BY <1>2, <2>2, <2>3 DEF Spoilers
    <2>5. Pieces(r) = Pieces(<<y>> \o Tail(q))
      BY <2>4 DEF Pieces
    <2> QED
      BY <1>1, <2>5, PiecesSteps
  <1>3. Pieces(q) = Pieces(Tail(q)) + Weight(q[1])
    BY <1>1, <1>2
  <1>4. Pieces([q EXCEPT ![1] = x]) = Pieces(Tail(q)) + Weight(x)
    <2> DEFINE r == [q EXCEPT ![1] = x]
    <2>1. r \in Seq(S) /\ Len(r) = Len(q) /\ r[1] = x
      BY <1>1
    <2>2. \A i \in 1 .. Len(q) : i # 1 => r[i] = q[i]
      BY <1>1
    <2> HIDE DEF r
    <2>3. Pieces(r) = Pieces(Tail(q)) + Weight(x)
      BY <1>2, <2>1, <2>2
    <2> QED
      BY <2>3 DEF r
  <1>5. Pieces(Tail(q)) \in Nat
    BY <1>1, PiecesSteps
  <1> QED
    BY <1>3, <1>4, <1>5

\* The pieces that are under way, and what has been met that can spoil an
\* attempt.
Load   == Pieces(rx) + Pieces(toHost) + Pieces(toDev)
Budget == faults + rests

LEMMA Weights ==
    /\ \A m : Weight(m) \in {0, 1}
    /\ Weight(Junk) = 1 /\ Weight(JunkCommand) = 1 /\ Weight(PartialCommand) = 1
    /\ \A o \in {"begin", "data", "end"} : \A good \in BOOLEAN : Weight(Reply(o, good)) = 0
    /\ pc \in CommandPcs => Weight(Command) = 0
  <1>1. pc \in CommandPcs => Command.op \in {"begin", "data", "end"}
    BY CommandFields DEF Op
  <1>2. pc \in CommandPcs => Weight(Command) = 0
    BY <1>1 DEF Weight, Spoils
  <1> QED
    BY <1>2, CommandFields DEF Weight, Spoils, Junk, Reply

\* A step counts what it puts on the line; a step that costs an attempt counts
\* one more than it puts there.
Kept  == Budget <= Budget' /\ Load' + Budget <= Load + Budget'
Spent == Budget <= Budget' /\ Load' + Budget < Load + Budget'

LEMMA LoadTyped ==
    TypeInv => /\ Load \in Nat /\ Budget \in Nat
               /\ Pieces(rx) \in Nat /\ Pieces(toHost) \in Nat
               /\ Pieces(toDev) \in Nat
  <1> SUFFICES ASSUME TypeInv
               PROVE  /\ Load \in Nat /\ Budget \in Nat
                      /\ Pieces(rx) \in Nat /\ Pieces(toHost) \in Nat
                      /\ Pieces(toDev) \in Nat
    OBVIOUS
  <1>1. Junk \in Replies /\ JunkCommand \in Commands
    BY MessagesTyped
  <1>2. /\ rx \in Seq(Replies) /\ toHost \in Seq(Replies) /\ toDev \in Seq(Commands)
        /\ faults \in Nat /\ rests \in Nat
    BY SizesAssumption DEF TypeInv, TypeOK
  <1>3. Pieces(rx) \in Nat /\ Pieces(toHost) \in Nat /\ Pieces(toDev) \in Nat
    BY <1>1, <1>2, PiecesSteps
  <1> QED
    BY <1>2, <1>3 DEF Load, Budget

LEMMA LoadTypedNext ==
    TypeInv' => /\ (Load \in Nat)' /\ (Budget \in Nat)'
                /\ (Pieces(rx) \in Nat)' /\ (Pieces(toHost) \in Nat)'
                /\ (Pieces(toDev) \in Nat)'
  BY LoadTyped, PTL

\* The account of a step from what it adds to each queue.
LEMMA Account ==
    ASSUME TypeInv, TypeInv', NEW a \in Int, NEW b \in Int, NEW c \in Int,
           NEW n \in Nat, Budget' = Budget + n,
           Pieces(rx') <= Pieces(rx) + a,
           Pieces(toHost') <= Pieces(toHost) + b,
           Pieces(toDev') <= Pieces(toDev) + c
    PROVE  /\ a + b + c <= n => Kept
           /\ a + b + c < n => Spent
  <1>1. /\ Load' = Pieces(rx') + Pieces(toHost') + Pieces(toDev')
        /\ Pieces(rx') = Pieces(rx)' /\ Pieces(toHost') = Pieces(toHost)'
        /\ Pieces(toDev') = Pieces(toDev)'
    BY DEF Load, Pieces, Spoilers, Spoils
  <1>2. /\ Pieces(rx') \in Nat /\ Pieces(toHost') \in Nat /\ Pieces(toDev') \in Nat
        /\ Load' \in Nat /\ Budget' \in Nat
    BY <1>1, LoadTypedNext
  <1>3. Load = Pieces(rx) + Pieces(toHost) + Pieces(toDev)
    BY DEF Load
  <1>4. /\ Pieces(rx) \in Nat /\ Pieces(toHost) \in Nat /\ Pieces(toDev) \in Nat
        /\ Load \in Nat /\ Budget \in Nat
    BY LoadTyped
  <1>5. Load' <= Load + (a + b + c)
    BY <1>1, <1>2, <1>3, <1>4
  <1>6. Budget <= Budget'
    BY <1>4
  <1>7. \A l, k, g \in Nat : \A x \in Int : \A m \in Nat :
           /\ k <= l + x /\ x <= m => k + g <= l + (g + m)
           /\ k <= l + x /\ x < m => k + g < l + (g + m)
    OBVIOUS
  <1>8. a + b + c \in Int
    OBVIOUS
  <1>9. /\ a + b + c <= n => Load' + Budget <= Load + (Budget + n)
        /\ a + b + c < n => Load' + Budget < Load + (Budget + n)
    BY <1>2, <1>4, <1>5, <1>7, <1>8
  <1> QED
    BY <1>6, <1>9 DEF Kept, Spent

\* What each step does to the account.
LEMMA LoadStep ==
    ASSUME TypeInv, [Next]_vars
    PROVE  /\ Kept
           /\ SendFails \/ LoseCommand \/ LoseReply => Spent
           /\ BadReply /\ Spoils(rx[1]) => Spent
           /\ DeviceJoins /\ toDev' = <<>> => Spent
  <1>d. /\ Pieces(toDev) \in Nat /\ Pieces(<<>>) = 0
        /\ \A x \in Commands : /\ Pieces(Append(toDev, x)) = Pieces(toDev) + Weight(x)
                               /\ Pieces(Append(<<>>, x)) = Weight(x)
        /\ toDev # <<>> =>
              /\ Pieces(toDev) = Pieces(Tail(toDev)) + Weight(toDev[1])
              /\ Pieces(Tail(toDev)) \in Nat
              /\ \A x \in Commands :
                    Pieces([toDev EXCEPT ![1] = x]) = Pieces(Tail(toDev)) + Weight(x)
    <2>1. toDev \in Seq(Commands) /\ <<>> \in Seq(Commands) /\ JunkCommand \in Commands
      BY EmptySeq, MessagesTyped DEF TypeInv, TypeOK
    <2>2. \A x \in Commands : Pieces(Append(<<>>, x)) = Pieces(<<>>) + Weight(x)
      BY <2>1, PiecesSteps
    <2>3. Pieces(toDev) \in Nat /\ Pieces(<<>>) = 0
      BY <2>1, PiecesSteps
    <2>4. ASSUME NEW x \in Commands PROVE Pieces(Append(<<>>, x)) = Weight(x)
      <3>1. Weight(x) \in Nat
        BY Weights
      <3>2. Pieces(Append(<<>>, x)) = 0 + Weight(x)
        BY <2>2, <2>3
      <3> QED
        BY <3>1, <3>2
    <2> QED
      BY <2>1, <2>3, <2>4, PiecesSteps, PiecesHead
  <1>h. /\ Pieces(toHost) \in Nat
        /\ \A x \in Replies : /\ Pieces(Append(toHost, x)) = Pieces(toHost) + Weight(x)
                              /\ Pieces(<<x>> \o toHost) = Pieces(toHost) + Weight(x)
        /\ toHost # <<>> =>
              /\ Pieces(toHost) = Pieces(Tail(toHost)) + Weight(toHost[1])
              /\ Pieces(Tail(toHost)) \in Nat /\ toHost[1] \in Replies
              /\ \A x \in Replies :
                    Pieces([toHost EXCEPT ![1] = x]) = Pieces(Tail(toHost)) + Weight(x)
    <2>1. toHost \in Seq(Replies) /\ Junk \in Replies
      BY MessagesTyped DEF TypeInv, TypeOK
    <2>2. toHost # <<>> => toHost[1] \in Replies
      BY <2>1, QueueSteps
    <2> QED
      BY <2>1, <2>2, PiecesSteps, PiecesHead
  <1>r. /\ Pieces(rx) \in Nat
        /\ \A x \in Replies : Pieces(Append(rx, x)) = Pieces(rx) + Weight(x)
        /\ rx # <<>> => /\ Pieces(rx) = Pieces(Tail(rx)) + Weight(rx[1])
                       /\ Pieces(Tail(rx)) \in Nat
    <2>1. rx \in Seq(Replies) /\ Junk \in Replies
      BY MessagesTyped DEF TypeInv, TypeOK
    <2> QED
      BY <2>1, PiecesSteps, PiecesHead
  <1>t. TypeInv' /\ Budget \in Nat /\ faults \in Nat /\ rests \in Nat
    BY TypeStep, LoadTyped, SizesAssumption DEF TypeInv, TypeOK
  <1>w. /\ JunkCommand \in Commands /\ PartialCommand \in Commands /\ Junk \in Replies
        /\ Weight(JunkCommand) = 1 /\ Weight(PartialCommand) = 1 /\ Weight(Junk) = 1
        /\ \A m : Weight(m) \in {0, 1}
    BY MessagesTyped, Weights
  <1>u. UNCHANGED <<faults, rests>> => Budget' = Budget + 0
    BY <1>t DEF Budget
  <1>f. \A f : Fault(f) /\ rests' = rests => Budget' = Budget + 1
    BY <1>t DEF Fault, Budget
  <1>l. LeftOver /\ faults' = faults => Budget' = Budget + 1
    BY <1>t DEF LeftOver, Budget
  <1>s. \A q \in {toDev, <<>>} :
           /\ Pieces(q) <= Pieces(toDev) + 0
           /\ \A x \in Commands :
                 /\ Weight(x) = 0 => Pieces(Append(q, x)) <= Pieces(toDev) + 0
                 /\ Weight(x) = 1 => Pieces(Append(q, x)) <= Pieces(toDev) + 1
    <2>1. ASSUME NEW x \in Commands
          PROVE  /\ Weight(x) = 0 => Pieces(Append(toDev, x)) <= Pieces(toDev) + 0
                 /\ Weight(x) = 1 => Pieces(Append(toDev, x)) <= Pieces(toDev) + 1
                 /\ Weight(x) = 0 => Pieces(Append(<<>>, x)) <= Pieces(toDev) + 0
                 /\ Weight(x) = 1 => Pieces(Append(<<>>, x)) <= Pieces(toDev) + 1
      BY <1>d, <2>1
    <2>2. /\ Pieces(toDev) <= Pieces(toDev) + 0
          /\ Pieces(<<>>) <= Pieces(toDev) + 0
      BY <1>d
    <2> QED
      BY <2>1, <2>2
  <1>k. /\ Pieces(rx) <= Pieces(rx) + 0 /\ Pieces(<<>>) <= Pieces(rx) + 0
        /\ Pieces(toHost) <= Pieces(toHost) + 0
        /\ Pieces(toDev) <= Pieces(toDev) + 0
    BY <1>d, <1>h, <1>r
  <1>1. ASSUME SendCommand PROVE Kept
    <2>1. /\ rx' = <<>> /\ toHost' = toHost /\ Budget' = Budget + 0
          /\ pc \in CommandPcs
      BY <1>1, <1>u DEF SendCommand
    <2>2. Command \in Commands /\ Weight(Command) = 0
      BY <2>1, CommandTyped, Weights
    <2>3. PICK q \in {toDev, <<>>} : toDev' = Append(q, Command)
      BY <1>1 DEF SendCommand, Unflushed
    <2>4. Pieces(toDev') <= Pieces(toDev) + 0
      BY <1>s, <2>2, <2>3
    <2> QED
      BY <1>t, <1>k, <2>1, <2>4, Account
  <1>2. ASSUME SendFails PROVE Kept /\ Spent
    <2>1. rx' = <<>> /\ toHost' = toHost
      BY <1>2 DEF SendFails
    <2>2. PICK q \in {toDev, <<>>} :
             \/ toDev' = q /\ rests' = rests
             \/ toDev' = Append(q, PartialCommand) /\ LeftOver
      BY <1>2 DEF SendFails, Unflushed
    <2>3. CASE toDev' = q /\ rests' = rests
      <3>1. Pieces(toDev') <= Pieces(toDev) + 0
        BY <1>s, <2>3
      <3>2. Budget' = Budget + 1
        BY <1>2, <1>f, <2>3 DEF SendFails
      <3> QED
        BY <1>t, <1>k, <2>1, <3>1, <3>2, Account
    <2>4. CASE toDev' = Append(q, PartialCommand) /\ LeftOver
      <3>1. Pieces(toDev') <= Pieces(toDev) + 1
        BY <1>s, <1>w, <2>4
      <3>2. Budget' = Budget + 2
        BY <1>2, <1>t, <2>4 DEF SendFails, Fault, LeftOver, Budget
      <3> QED
        BY <1>t, <1>k, <2>1, <3>1, <3>2, Account
    <2> QED
      BY <2>2, <2>3, <2>4
  <1>3. ASSUME UNCHANGED <<rx, toDev, toHost>>,
               UNCHANGED <<faults, rests>> \/ ReadFails \/ DeviceReset
        PROVE  Kept
    <2>1. Budget' = Budget + 0 \/ Budget' = Budget + 1
      BY <1>3, <1>u, <1>f DEF ReadFails, DeviceReset
    <2>2. rx' = rx /\ toHost' = toHost /\ toDev' = toDev
      BY <1>3
    <2> QED
      BY <1>t, <1>k, <2>1, <2>2, Account
  <1>4. ASSUME LoseCommand PROVE Kept /\ Spent
    <2>1. Budget' = Budget + 1 /\ rx' = rx /\ toHost' = toHost
      BY <1>f, <1>4 DEF LoseCommand
    <2>2. toDev # <<>> /\ toDev' = Tail(toDev)
      BY <1>4 DEF LoseCommand
    <2>3. Weight(toDev[1]) \in {0, 1}
      BY <1>w
    <2>4. Pieces(toDev') <= Pieces(toDev) + 0
      BY <1>d, <2>2, <2>3
    <2> QED
      BY <1>t, <1>k, <2>1, <2>4, Account
  <1>5. ASSUME LoseReply PROVE Kept /\ Spent
    <2>1. Budget' = Budget + 1 /\ rx' = rx /\ toDev' = toDev
      BY <1>f, <1>5 DEF LoseReply
    <2>2. toHost # <<>> /\ toHost' = Tail(toHost)
      BY <1>5 DEF LoseReply
    <2>3. Weight(toHost[1]) \in {0, 1}
      BY <1>w
    <2>4. Pieces(toHost') <= Pieces(toHost) + 0
      BY <1>h, <2>2, <2>3
    <2> QED
      BY <1>t, <1>k, <2>1, <2>4, Account
  <1>6. ASSUME DamageCommand PROVE Kept
    <2>1. Budget' = Budget + 1 /\ rx' = rx /\ toHost' = toHost
      BY <1>f, <1>6 DEF DamageCommand
    <2>2. toDev # <<>> /\ toDev' = [toDev EXCEPT ![1] = JunkCommand]
      BY <1>6 DEF DamageCommand
    <2>3. Weight(toDev[1]) \in {0, 1}
      BY <1>w
    <2>4. Pieces(toDev') = Pieces(Tail(toDev)) + 1
      BY <1>d, <1>w, <2>2
    <2>5. Pieces(toDev') <= Pieces(toDev) + 1
      BY <1>d, <2>2, <2>3, <2>4
    <2> QED
      BY <1>t, <1>k, <2>1, <2>5, Account
  <1>7. ASSUME DamageReply PROVE Kept
    <2>1. Budget' = Budget + 1 /\ rx' = rx /\ toDev' = toDev
      BY <1>f, <1>7 DEF DamageReply
    <2>2. toHost # <<>> /\ toHost' = [toHost EXCEPT ![1] = Junk]
      BY <1>7 DEF DamageReply
    <2>3. Weight(toHost[1]) \in {0, 1}
      BY <1>w
    <2>4. Pieces(toHost') = Pieces(Tail(toHost)) + 1
      BY <1>h, <1>w, <2>2
    <2>5. Pieces(toHost') <= Pieces(toHost) + 1
      BY <1>h, <2>2, <2>3, <2>4
    <2> QED
      BY <1>t, <1>k, <2>1, <2>5, Account
  <1>8. ASSUME Noise PROVE Kept
    <2>1. Budget' = Budget + 1 /\ toHost' = toHost /\ toDev' = toDev
      BY <1>l, <1>8 DEF Noise
    <2>2. Pieces(rx') <= Pieces(rx) + 1
      BY <1>r, <1>w, <1>8 DEF Noise
    <2> QED
      BY <1>t, <1>k, <2>1, <2>2, Account
  <1>9. ASSUME Deliver PROVE Kept
    <2>1. /\ Budget' = Budget + 0 /\ toDev' = toDev /\ toHost # <<>>
          /\ rx' = Append(rx, toHost[1]) /\ toHost' = Tail(toHost)
      BY <1>u, <1>9 DEF Deliver
    <2>2. /\ Weight(toHost[1]) = 0 =>
                /\ Pieces(rx') <= Pieces(rx) + 0
                /\ Pieces(toHost') <= Pieces(toHost) + 0
          /\ Weight(toHost[1]) = 1 =>
                /\ Pieces(rx') <= Pieces(rx) + 1
                /\ Pieces(toHost') <= Pieces(toHost) + (-1)
      BY <1>h, <1>r, <2>1
    <2>3. Weight(toHost[1]) \in {0, 1}
      BY <1>w
    <2> QED
      BY <1>t, <1>k, <2>1, <2>2, <2>3, Account
  <1>10. ASSUME GoodReply PROVE Kept
    <2>1. /\ Budget' = Budget + 0 /\ toDev' = toDev /\ toHost' = toHost
          /\ rx # <<>> /\ rx' = Tail(rx)
      BY <1>u, <1>10 DEF GoodReply
    <2>2. Weight(rx[1]) \in {0, 1}
      BY <1>w
    <2>3. Pieces(rx') <= Pieces(rx) + 0
      BY <1>r, <2>1, <2>2
    <2> QED
      BY <1>t, <1>k, <2>1, <2>3, Account
  <1>11. ASSUME BadReply PROVE Kept /\ (Spoils(rx[1]) => Spent)
    <2>1. toDev' = toDev /\ rx # <<>> /\ rx' = Tail(rx) /\ faults' = faults
      BY <1>11 DEF BadReply
    <2>2. /\ Weight(rx[1]) \in {0, 1}
          /\ Spoils(rx[1]) => Weight(rx[1]) = 1
      BY <1>w DEF Weight
    <2>3. /\ Pieces(rx') <= Pieces(rx) + 0
          /\ Weight(rx[1]) = 1 => Pieces(rx') <= Pieces(rx) + (-1)
      BY <1>r, <2>1, <2>2
    <2>4. CASE toHost' = toHost /\ rests' = rests
      <3>1. Budget' = Budget + 0
        BY <1>u, <2>1, <2>4
      <3>2. Pieces(toHost') <= Pieces(toHost) + 0
        BY <1>k, <2>4
      <3> QED
        BY <1>t, <1>k, <2>1, <2>2, <2>3, <3>1, <3>2, Account
    <2>5. CASE toHost' = <<Junk>> \o toHost /\ LeftOver
      <3>1. Budget' = Budget + 1
        BY <1>l, <2>1, <2>5
      <3>2. Pieces(toHost') <= Pieces(toHost) + 1
        BY <1>h, <1>w, <2>5
      <3> QED
        BY <1>t, <1>k, <2>1, <2>2, <2>3, <3>1, <3>2, Account
    <2>6. CASE toHost # <<>> /\ toHost' = [toHost EXCEPT ![1] = Junk] /\ LeftOver
      <3>1. Budget' = Budget + 1
        BY <1>l, <2>1, <2>6
      <3>2. Weight(toHost[1]) \in {0, 1}
        BY <1>w
      <3>3. Pieces(toHost') = Pieces(Tail(toHost)) + 1
        BY <1>h, <1>w, <2>6
      <3>4. Pieces(toHost') <= Pieces(toHost) + 1
        BY <1>h, <2>6, <3>2, <3>3
      <3> QED
        BY <1>t, <1>k, <2>1, <2>2, <2>3, <3>1, <3>4, Account
    <2> QED
      BY <1>11, <2>4, <2>5, <2>6 DEF BadReply
  <1>12. ASSUME toDev # <<>>,
                \/ Take(<<>>)
                \/ \E r \in Replies : Weight(r) \in {0, Weight(toDev[1])} /\ Take(<<r>>)
         PROVE  Kept
    <2>1. Budget' = Budget + 0 /\ rx' = rx /\ toDev' = Tail(toDev)
      BY <1>12, <1>u DEF Take
    <2>2. Weight(toDev[1]) \in {0, 1}
      BY <1>w
    <2>3. /\ Pieces(toDev') <= Pieces(toDev) + 0
          /\ Weight(toDev[1]) = 1 => Pieces(toDev') <= Pieces(toDev) + (-1)
      BY <1>d, <1>12, <2>1, <2>2
    <2>4. CASE Take(<<>>)
      <3>1. toHost' = toHost
        BY <2>4 DEF Take
      <3> QED
        BY <1>t, <1>k, <2>1, <2>3, <3>1, Account
    <2>5. CASE \E r \in Replies : Weight(r) \in {0, Weight(toDev[1])} /\ Take(<<r>>)
      <3>1. PICK r \in Replies : Weight(r) \in {0, Weight(toDev[1])} /\ Take(<<r>>)
        BY <2>5
      <3>2. toHost' = Append(toHost, r)
        BY <3>1, SingleSteps DEF Take
      <3>3. Weight(r) \in {0, 1}
        BY <1>w
      <3>4. /\ Weight(r) = 0 => Pieces(toHost') <= Pieces(toHost) + 0
            /\ Weight(r) = 1 => Pieces(toHost') <= Pieces(toHost) + 1
        <4>1. Pieces(toHost') = Pieces(toHost) + Weight(r)
          BY <1>h, <3>1, <3>2
        <4> QED
          BY <1>h, <4>1
      <3>5. CASE Weight(r) = 0
        BY <1>t, <1>k, <2>1, <2>3, <3>4, <3>5, Account
      <3>6. CASE Weight(r) = 1
        <4>1. Weight(toDev[1]) = 1
          BY <2>2, <3>1, <3>6
        <4> QED
          BY <1>t, <1>k, <2>1, <2>3, <3>4, <3>6, <4>1, Account
      <3> QED
        BY <3>3, <3>5, <3>6
    <2> QED
      BY <1>12, <2>4, <2>5
  <1>13. ASSUME DeviceJoins PROVE Kept /\ (toDev' = <<>> => Spent)
    <2>1. /\ Budget' = Budget + 0 /\ rx' = rx /\ toHost' = toHost
          /\ Len(toDev) > 1 /\ toDev[1].op = "partial"
      BY <1>13, <1>u DEF DeviceJoins
    <2>2. PICK q \in {Tail(toDev), Tail(Tail(toDev))} :
             toDev' \in {q, <<JunkCommand>> \o q}
      BY <1>13 DEF DeviceJoins
    <2>3. /\ toDev \in Seq(Commands) /\ toDev # <<>>
          /\ Tail(toDev) \in Seq(Commands) /\ Tail(toDev) # <<>>
          /\ Tail(Tail(toDev)) \in Seq(Commands)
      <3>1. toDev \in Seq(Commands)
        BY DEF TypeInv, TypeOK
      <3>2. toDev # <<>>
        BY <2>1, <3>1, QueueSteps
      <3>3. Tail(toDev) \in Seq(Commands) /\ Len(Tail(toDev)) = Len(toDev) - 1
        BY <3>1, <3>2, QueueSteps
      <3>4. Tail(toDev) # <<>>
        <4>1. Len(toDev) \in Nat
          BY <3>1, QueueSteps
        <4>2. Len(Tail(toDev)) # 0
          BY <2>1, <3>3, <4>1
        <4> QED
          BY <3>3, <4>2, QueueSteps
      <3> QED
        BY <3>1, <3>2, <3>3, <3>4, QueueSteps
    <2>4. Pieces(toDev) = Pieces(Tail(toDev)) + 1
      <3>1. Weight(toDev[1]) = 1
        BY <2>1 DEF Weight, Spoils
      <3> QED
        BY <1>d, <2>3, <3>1
    <2>5. /\ Pieces(Tail(toDev)) \in Nat /\ Pieces(Tail(Tail(toDev))) \in Nat
          /\ Pieces(Tail(Tail(toDev))) <= Pieces(Tail(toDev))
      <3>1. Pieces(Tail(toDev))
               = Pieces(Tail(Tail(toDev))) + Weight(Tail(toDev)[1])
        BY <1>w, <2>3, PiecesHead
      <3>2. Weight(Tail(toDev)[1]) \in {0, 1} /\ Pieces(Tail(Tail(toDev))) \in Nat
        BY <1>w, <2>3, PiecesSteps
      <3> QED
        BY <1>d, <2>3, <3>1, <3>2
    <2>6. Pieces(q) \in Nat /\ Pieces(q) <= Pieces(Tail(toDev)) /\ q \in Seq(Commands)
      <3>1. CASE q = Tail(toDev)
        BY <2>3, <2>5, <3>1
      <3>2. CASE q = Tail(Tail(toDev))
        BY <2>3, <2>5, <3>2
      <3> QED
        BY <2>2, <3>1, <3>2
    <2>7. Pieces(<<JunkCommand>> \o q) = Pieces(q) + 1
      BY <1>w, <2>6, PiecesSteps
    <2>8. /\ Pieces(q) <= Pieces(toDev) + (-1)
          /\ Pieces(<<JunkCommand>> \o q) <= Pieces(toDev) + 0
      BY <2>4, <2>5, <2>6, <2>7
    <2>9. <<JunkCommand>> \o q # <<>>
      BY <1>w, <2>6, QueueElements, EmptySeq
    <2>10. /\ Pieces(toDev') <= Pieces(toDev) + 0
           /\ toDev' = <<>> => Pieces(toDev') <= Pieces(toDev) + (-1)
      <3>1. CASE toDev' = q
        BY <1>d, <2>6, <2>8, <3>1
      <3>2. CASE toDev' = <<JunkCommand>> \o q
        BY <2>8, <2>9, <3>2
      <3> QED
        BY <2>2, <3>1, <3>2
    <2>11. Kept
      BY <1>t, <1>k, <2>1, <2>10, Account
    <2>12. ASSUME toDev' = <<>> PROVE Spent
      BY <1>t, <1>k, <2>1, <2>10, <2>12, Account
    <2> QED
      BY <2>11, <2>12
  <1>14. ASSUME Device PROVE Kept
    <2>1. CASE DeviceBegin
      <3>1. Take(<<Begun>>) /\ toDev # <<>>
        BY <2>1 DEF DeviceBegin, Begun
      <3>2. Begun \in Replies /\ Weight(Begun) = 0
        BY MessagesTyped, Weights DEF Begun
      <3> QED
        BY <1>12, <3>1, <3>2
    <2>2. CASE DeviceData
      <3>1. Take(<<Reply("data", TRUE)>>) /\ toDev # <<>>
        BY <2>2 DEF DeviceData
      <3>2. Reply("data", TRUE) \in Replies /\ Weight(Reply("data", TRUE)) = 0
        BY MessagesTyped, Weights
      <3> QED
        BY <1>12, <3>1, <3>2
    <2>3. CASE DeviceEnd
      <3>1. Take(<<Reply("end", TRUE)>>) /\ toDev # <<>>
        BY <2>3 DEF DeviceEnd
      <3>2. Reply("end", TRUE) \in Replies /\ Weight(Reply("end", TRUE)) = 0
        BY MessagesTyped, Weights
      <3> QED
        BY <1>12, <3>1, <3>2
    <2>4. CASE DeviceRefuses
      <3>1. /\ Take(<<Reply(toDev[1].op, FALSE)>>) /\ toDev # <<>>
            /\ toDev[1].op \in {"junk", "data", "end"}
        BY <2>4 DEF DeviceRefuses
      <3>2. Reply(toDev[1].op, FALSE) \in Replies
        BY <3>1, MessagesTyped DEF Junk
      <3>3. Weight(Reply(toDev[1].op, FALSE)) = Weight(toDev[1])
        BY DEF Weight, Spoils, Reply
      <3> QED
        BY <1>12, <3>1, <3>2, <3>3
    <2>5. CASE DeviceSilent
      <3>1. Take(<<>>) /\ toDev # <<>>
        BY <2>5 DEF DeviceSilent
      <3> QED
        BY <1>12, <3>1
    <2> QED
      BY <1>13, <1>14, <2>1, <2>2, <2>3, <2>4, <2>5 DEF Device
  <1>15. ASSUME Timeout \/ ResetToRun \/ UNCHANGED vars PROVE Kept
    <2>1. UNCHANGED <<rx, toDev, toHost>> /\ UNCHANGED <<faults, rests>>
      BY <1>15 DEF Timeout, ResetToRun, vars
    <2> QED
      BY <1>3, <2>1
  <1>16. ASSUME ReadFails \/ DeviceReset PROVE Kept
    <2>1. UNCHANGED <<rx, toDev, toHost>>
      BY <1>16 DEF ReadFails, DeviceReset
    <2> QED
      BY <1>3, <1>16, <2>1
  <1>17. Kept
    BY <1>1, <1>2, <1>4, <1>5, <1>6, <1>7, <1>8, <1>9, <1>10, <1>11, <1>14,
       <1>15, <1>16
    DEF Next, Host, Environment
  <1> QED
    BY <1>2, <1>4, <1>5, <1>11, <1>13, <1>17
-----------------------------------------------------------------------------
(* Attempts and what they cost *)

AllJunk(q)  == \A j \in 1 .. Len(q) : q[j] = Junk
LastGood(q) == \A i, j \in 1 .. Len(q) : q[i] = Begun /\ i < j => q[j] = Junk

\* While FLASH_BEGIN is open, nothing but pieces is behind the reply to it.
AfterBegin ==
    pc = "Begin" => /\ blk = 0 /\ try <= 1
                    /\ LastGood(toHost) /\ LastGood(rx)
                    /\ Holds(rx, Begun) => AllJunk(toHost)

DataAnswers == {Reply("data", TRUE), Junk}
DataOrders  == {m \in Commands : m.op \in {"data", "junk", "partial"}}

\* While the blocks of an image are sent, nothing but pieces can be taken for
\* a bad reply.
AnswersGood ==
    pc = "Data" /\ dev.mode = "flash" =>
        /\ rx \in Seq(DataAnswers) /\ toHost \in Seq(DataAnswers)
        /\ toDev \in Seq(DataOrders)

LEMMA JunkSteps ==
    ASSUME NEW q \in Seq(Replies)
    PROVE  /\ LastGood(q) => LastGood(Append(q, Junk))
           /\ ~Holds(q, Begun) => /\ LastGood(q)
                                  /\ \A x \in Replies : LastGood(Append(q, x))
           /\ LastGood(q) /\ q # <<>> =>
                 LastGood(Tail(q)) /\ LastGood([q EXCEPT ![1] = Junk])
           /\ LastGood(q) /\ q # <<>> /\ q[1] = Begun => AllJunk(Tail(q))
           /\ AllJunk(q) => /\ ~Holds(q, Begun)
                            /\ q # <<>> => /\ q[1] = Junk /\ AllJunk(Tail(q))
                                           /\ AllJunk([q EXCEPT ![1] = Junk])
  <1>0. Len(q) \in Nat /\ Junk \in Replies /\ Junk # Begun
    BY LenProperties, MessagesTyped DEF Junk, Begun, Reply
  <1>1. \A x \in Replies :
           /\ Len(Append(q, x)) = Len(q) + 1 /\ Append(q, x)[Len(q) + 1] = x
           /\ \A i \in 1 .. Len(q) : Append(q, x)[i] = q[i]
    BY QueueElements
  <1>2. q # <<>> => /\ Len(q) \in Nat \ {0} /\ 1 \in 1 .. Len(q)
                    /\ \A i \in 1 .. Len(Tail(q)) : /\ Tail(q)[i] = q[i + 1]
                                                    /\ i + 1 \in 1 .. Len(q)
                    /\ Len([q EXCEPT ![1] = Junk]) = Len(q)
                    /\ \A i \in 1 .. Len(q) :
                          [q EXCEPT ![1] = Junk][i] = IF i = 1 THEN Junk ELSE q[i]
    BY <1>0, QueueElements
  <1>3. ASSUME LastGood(q) PROVE LastGood(Append(q, Junk))
    <2> SUFFICES ASSUME NEW i \in 1 .. Len(q) + 1, NEW j \in 1 .. Len(q) + 1,
                        Append(q, Junk)[i] = Begun, i < j
                 PROVE  Append(q, Junk)[j] = Junk
      BY <1>0, <1>1 DEF LastGood
    <2>1. CASE j = Len(q) + 1
      BY <1>0, <1>1, <2>1
    <2>2. CASE j # Len(q) + 1
      <3>1. i \in 1 .. Len(q) /\ j \in 1 .. Len(q)
        BY <1>0, <2>2
      <3> QED
        BY <1>0, <1>1, <1>3, <3>1 DEF LastGood
    <2> QED
      BY <2>1, <2>2
  <1>4. ASSUME ~Holds(q, Begun) PROVE LastGood(q)
    BY <1>4 DEF LastGood, Holds
  <1>5. ASSUME ~Holds(q, Begun), NEW x \in Replies PROVE LastGood(Append(q, x))
    <2> SUFFICES ASSUME NEW i \in 1 .. Len(q) + 1, NEW j \in 1 .. Len(q) + 1,
                        Append(q, x)[i] = Begun, i < j
                 PROVE  FALSE
      BY <1>0, <1>1 DEF LastGood
    <2>1. i \in 1 .. Len(q)
      BY <1>0
    <2> QED
      BY <1>1, <1>5, <2>1 DEF Holds
  <1>6. ASSUME LastGood(q), q # <<>> PROVE LastGood(Tail(q))
    <2> SUFFICES ASSUME NEW i \in 1 .. Len(Tail(q)), NEW j \in 1 .. Len(Tail(q)),
                        Tail(q)[i] = Begun, i < j
                 PROVE  Tail(q)[j] = Junk
      BY DEF LastGood
    <2>1. /\ q[i + 1] = Begun /\ Tail(q)[j] = q[j + 1] /\ i + 1 < j + 1
          /\ i + 1 \in 1 .. Len(q) /\ j + 1 \in 1 .. Len(q)
      BY <1>2, <1>6
    <2> QED
      BY <1>6, <2>1 DEF LastGood
  <1>7. ASSUME LastGood(q), q # <<>> PROVE LastGood([q EXCEPT ![1] = Junk])
    BY <1>0, <1>2, <1>7 DEF LastGood
  <1>8. ASSUME LastGood(q), q # <<>>, q[1] = Begun PROVE AllJunk(Tail(q))
    <2> SUFFICES ASSUME NEW j \in 1 .. Len(Tail(q)) PROVE Tail(q)[j] = Junk
      BY DEF AllJunk
    <2>1. Tail(q)[j] = q[j + 1] /\ j + 1 \in 1 .. Len(q) /\ 1 < j + 1
      BY <1>2, <1>8
    <2> QED
      BY <1>2, <1>8, <2>1 DEF LastGood
  <1>9. ASSUME AllJunk(q) PROVE ~Holds(q, Begun)
    BY <1>0, <1>9 DEF AllJunk, Holds
  <1>10. ASSUME AllJunk(q), q # <<>>
         PROVE  /\ q[1] = Junk /\ AllJunk(Tail(q))
                /\ AllJunk([q EXCEPT ![1] = Junk])
    BY <1>2, <1>10 DEF AllJunk
  <1> QED
    BY <1>3, <1>4, <1>5, <1>6, <1>7, <1>8, <1>9, <1>10
\* A sequence is a sequence of its elements.
LEMMA ElementsInSeq ==
    ASSUME NEW S, NEW T, NEW q \in Seq(S), \A i \in 1 .. Len(q) : q[i] \in T
    PROVE  q \in Seq(T)
  <1>1. Len(q) \in Nat /\ q \in [1 .. Len(q) -> S]
    BY LenProperties
  <1>2. q \in [1 .. Len(q) -> T]
    BY <1>1
  <1> QED
    BY <1>1, <1>2, SeqDef

\* What is known while FLASH_BEGIN is open.
LEMMA AfterBeginStep ==
    ASSUME TypeInv, AnyLinkInv, AnyLinkInv', AfterBegin, [Next]_vars
    PROVE  AfterBegin'
  <1> SUFFICES ASSUME pc' = "Begin" PROVE AfterBegin'
    BY DEF AfterBegin
  <1>t. /\ rx \in Seq(Replies) /\ toHost \in Seq(Replies) /\ toDev \in Seq(Commands)
        /\ try \in Nat /\ Begun' = Begun
        /\ Begun \in Replies /\ Junk \in Replies /\ Junk # Begun
    <2>1. rx \in Seq(Replies) /\ toHost \in Seq(Replies) /\ toDev \in Seq(Commands)
      BY DEF TypeInv, TypeOK
    <2>2. try \in Nat
      BY SizesAssumption DEF TypeInv, TypeOK
    <2>3. Begun' = Begun /\ Junk # Begun
      BY DEF Begun, Junk, Reply
    <2> QED
      BY <2>1, <2>2, <2>3, MessagesTyped DEF Begun
  <1>1. CASE pc # "Begin"
    <2>1. GoodReply
      BY <1>1
      DEF Next, Host, Device, Environment, SendCommand, SendFails, ReadFails,
          BadReply, Timeout, ResetToRun, AttemptFailed, DeviceBegin, DeviceData,
          DeviceEnd, DeviceRefuses, DeviceSilent, DeviceJoins, Take, Deliver,
          LoseCommand, DamageCommand, LoseReply, DamageReply, Noise, DeviceReset,
          vars
    <2>2. blk' = 0 /\ try' = 0 /\ ~waiting'
      BY <1>1, <2>1 DEF GoodReply, Proceed
    <2>3. ~Holds(toHost', Begun) /\ ~Holds(rx', Begun)
      BY <1>t, <2>2 DEF AnyLinkInv, BeginReplies, BeginOpen
    <2> QED
      BY <1>t, <2>2, <2>3 DEF AfterBegin, LastGood, AllJunk, Holds
  <1>2. CASE pc = "Begin"
    <2>a. /\ blk = 0 /\ try <= 1 /\ LastGood(toHost) /\ LastGood(rx)
          /\ Holds(rx, Begun) => AllJunk(toHost)
      BY <1>2 DEF AfterBegin
    <2>b. /\ ~Holds(toHost, Begun) \/ ~Holds(rx, Begun)
          /\ Holds(toHost, Begun) \/ Holds(rx, Begun) => toDev = <<>> /\ waiting
      BY <1>2 DEF AnyLinkInv, BeginReplies, BeginOpen
    <2>c. ~SendFails /\ ~BadReply /\ ~Timeout /\ ~ReadFails /\ ~ResetToRun
      <3>1. \A n \in Nat : n > 0 => ~AttemptFailed(n)
        BY <1>2 DEF AttemptFailed, Tries
      <3>2. waiting => try > 0
        BY DEF AnyLinkInv
      <3>3. ~AttemptFailed(try + 1) /\ (waiting => ~AttemptFailed(try))
        BY <1>t, <3>1, <3>2
      <3> QED
        BY <1>2, <3>3 DEF SendFails, BadReply, Timeout, ReadFails, ResetToRun
    <2>1. CASE SendCommand
      <3>1. /\ try' = try + 1 /\ blk' = blk /\ rx' = <<>> /\ toHost' = toHost
            /\ ~waiting /\ try < 1
        BY <1>2, <2>1 DEF SendCommand, TypeInv, Attempts, Tries
      <3>2. ~Holds(toHost, Begun)
        BY <2>b, <3>1
      <3>3. LastGood(toHost) /\ LastGood(<<>>) /\ ~Holds(<<>>, Begun)
        BY <2>a, EmptySeq DEF LastGood, Holds
      <3> QED
        BY <1>t, <2>a, <3>1, <3>3 DEF AfterBegin, LastGood, AllJunk, Holds
    <2>2. CASE GoodReply
      <3>1. blk' = 0 /\ try' = 0 /\ ~waiting'
        BY <1>2, <2>2 DEF GoodReply, Proceed
      <3>2. ~Holds(toHost', Begun) /\ ~Holds(rx', Begun)
        BY <1>t, <3>1 DEF AnyLinkInv, BeginReplies, BeginOpen
      <3> QED
        BY <1>t, <3>1, <3>2 DEF AfterBegin, LastGood, AllJunk, Holds
    <2>3. CASE UNCHANGED <<rx, toHost, blk, try>>
      BY <1>t, <2>a, <2>3 DEF AfterBegin, LastGood, AllJunk, Holds, Junk, Reply
    <2>4. CASE DeviceBegin \/ DeviceData \/ DeviceEnd \/ DeviceRefuses
      <3>1. /\ toDev # <<>> /\ UNCHANGED <<rx, blk, try>>
            /\ \E r \in Replies : toHost' = Append(toHost, r)
        <4>1. CASE DeviceRefuses
          <5>1. Reply(toDev[1].op, FALSE) \in Replies
            BY <4>1, MessagesTyped DEF DeviceRefuses, Junk
          <5> QED
            BY <4>1, <5>1, SingleSteps DEF DeviceRefuses, Take
        <4> QED
          BY <2>4, <4>1, MessagesTyped, SingleSteps
          DEF DeviceBegin, DeviceData, DeviceEnd, Take
      <3>2. ~Holds(toHost, Begun) /\ ~Holds(rx, Begun)
        BY <2>b, <3>1
      <3>3. LastGood(toHost')
        BY <1>t, <3>1, <3>2, JunkSteps
      <3> QED
        BY <1>t, <2>a, <3>1, <3>2, <3>3 DEF AfterBegin, LastGood, AllJunk, Holds
    <2>5. CASE Deliver
      <3>1. /\ toHost # <<>> /\ rx' = Append(rx, toHost[1]) /\ toHost' = Tail(toHost)
            /\ UNCHANGED <<blk, try>>
        BY <2>5 DEF Deliver
      <3>2. toHost[1] \in Replies
        BY <1>t, <3>1, QueueSteps
      <3>3. LastGood(Tail(toHost))
        BY <1>t, <2>a, <3>1, JunkSteps
      <3>4. LastGood(rx')
        <4>1. CASE Holds(rx, Begun)
          <5>1. toHost[1] = Junk
            BY <1>t, <2>a, <3>1, <4>1, JunkSteps
          <5> QED
            BY <1>t, <2>a, <3>1, <5>1, JunkSteps
        <4>2. CASE ~Holds(rx, Begun)
          BY <1>t, <3>1, <3>2, <4>2, JunkSteps
        <4> QED
          BY <4>1, <4>2
      <3>5. Holds(rx', Begun) => AllJunk(toHost')
        <4>1. CASE Holds(rx, Begun)
          BY <1>t, <2>a, <3>1, <4>1, JunkSteps
        <4>2. CASE toHost[1] = Begun
          BY <1>t, <2>a, <3>1, <4>2, JunkSteps
        <4>3. CASE ~Holds(rx, Begun) /\ toHost[1] # Begun
          BY <1>t, <3>1, <3>2, <4>3, QueueKeeps
        <4> QED
          BY <4>1, <4>2, <4>3
      <3> QED
        BY <1>t, <2>a, <3>1, <3>3, <3>4, <3>5 DEF AfterBegin, LastGood, AllJunk, Holds
    <2>6. CASE LoseReply \/ DamageReply
      <3>1. /\ toHost # <<>> /\ UNCHANGED <<rx, blk, try>>
            /\ toHost' \in {Tail(toHost), [toHost EXCEPT ![1] = Junk]}
        BY <2>6 DEF LoseReply, DamageReply
      <3>2. LastGood(toHost') /\ (AllJunk(toHost) => AllJunk(toHost'))
        BY <1>t, <2>a, <3>1, JunkSteps
      <3> QED
        BY <1>t, <2>a, <3>1, <3>2 DEF AfterBegin, LastGood, AllJunk, Holds
    <2>7. CASE Noise
      <3>1. rx' = Append(rx, Junk) /\ UNCHANGED <<toHost, blk, try>>
        BY <2>7 DEF Noise
      <3>2. LastGood(rx') /\ (Holds(rx', Begun) => Holds(rx, Begun))
        BY <1>t, <2>a, <3>1, JunkSteps, QueueKeeps
      <3> QED
        BY <1>t, <2>a, <3>1, <3>2 DEF AfterBegin, LastGood, AllJunk, Holds
    <2>8. DeviceSilent \/ DeviceJoins \/ LoseCommand \/ DamageCommand
             \/ DeviceReset \/ UNCHANGED vars => UNCHANGED <<rx, toHost, blk, try>>
      BY DEF DeviceSilent, DeviceJoins, Take, LoseCommand, DamageCommand,
             DeviceReset, vars
    <2> QED
      BY <2>c, <2>1, <2>2, <2>3, <2>4, <2>5, <2>6, <2>7, <2>8
      DEF Next, Host, Device, Environment
  <1> QED
    BY <1>1, <1>2
\* While the blocks are sent, only answers to them and pieces come.
LEMMA AnswersStep ==
    ASSUME TypeInv, AnyLinkInv, AnyLinkInv', AfterBegin, AnswersGood, [Next]_vars
    PROVE  AnswersGood'
  <1> SUFFICES ASSUME pc' = "Data", dev'.mode = "flash"
               PROVE  /\ rx' \in Seq(DataAnswers) /\ toHost' \in Seq(DataAnswers)
                      /\ toDev' \in Seq(DataOrders)
    BY DEF AnswersGood, DataAnswers, DataOrders, Junk, Reply, Commands,
           BeginCommand, DataCommand, EndCommand, JunkCommand, PartialCommand
  <1>t. /\ rx \in Seq(Replies) /\ toHost \in Seq(Replies) /\ toDev \in Seq(Commands)
        /\ dev.mode \in Modes
    BY DEF TypeInv, TypeOK
  <1>m. /\ Junk \in DataAnswers /\ Reply("data", TRUE) \in DataAnswers
        /\ JunkCommand \in DataOrders /\ PartialCommand \in DataOrders
    BY MessagesTyped, CommandFields DEF DataAnswers, DataOrders
  <1>1. CASE pc # "Data"
    <2>1. GoodReply /\ pc = "Begin"
      BY <1>1
      DEF Next, Host, Device, Environment, SendCommand, SendFails, ReadFails,
          BadReply, Timeout, ResetToRun, AttemptFailed, DeviceBegin, DeviceData,
          DeviceEnd, DeviceRefuses, DeviceSilent, DeviceJoins, Take, Deliver,
          LoseCommand, DamageCommand, LoseReply, DamageReply, Noise, DeviceReset,
          vars, GoodReply, Proceed, AfterImages
    <2>2. /\ rx # <<>> /\ rx[1] = Begun /\ rx' = Tail(rx)
          /\ toHost' = toHost /\ toDev' = toDev
      BY <2>1 DEF GoodReply, Op, Begun
    <2>3. Holds(rx, Begun)
      BY <1>t, <2>2, EmptySeq DEF Holds
    <2>4. toDev = <<>> /\ AllJunk(toHost) /\ AllJunk(Tail(rx))
      BY <1>t, <2>1, <2>2, <2>3, JunkSteps DEF AnyLinkInv, BeginReplies, AfterBegin
    <2>5. Tail(rx) \in Seq(Replies)
      BY <1>t, <2>2, QueueSteps
    <2> QED
      BY <1>t, <1>m, <2>2, <2>4, <2>5, ElementsInSeq, EmptySeq DEF AllJunk
  <1>2. CASE pc = "Data"
    <2>1. ~DeviceBegin
      <3> SUFFICES ASSUME DeviceBegin PROVE FALSE
        OBVIOUS
      <3>1. toDev # <<>> /\ toDev[1].op = "begin"
        BY DEF DeviceBegin
      <3>2. 1 \in 1 .. Len(toDev)
        BY <1>t, <3>1, EmptySeq
      <3> QED
        BY <1>2, <3>1, <3>2 DEF AnyLinkInv, BeginCommands, BeginOpen
    <2>2. dev.mode = "flash"
      BY <2>1
      DEF Next, Host, Device, Environment, SendCommand, SendFails, ReadFails,
          BadReply, Timeout, ResetToRun, DeviceData,
          DeviceEnd, DeviceRefuses, DeviceSilent, DeviceJoins, Take, Deliver,
          LoseCommand, DamageCommand, LoseReply, DamageReply, Noise, DeviceReset,
          vars, GoodReply, TypeInv, TypeOK
    <2>3. /\ rx \in Seq(DataAnswers) /\ toHost \in Seq(DataAnswers)
          /\ toDev \in Seq(DataOrders)
      BY <1>2, <2>2 DEF AnswersGood
    <2>4. /\ rx # <<>> => Tail(rx) \in Seq(DataAnswers)
          /\ \A x \in DataAnswers : Append(rx, x) \in Seq(DataAnswers)
          /\ <<>> \in Seq(DataAnswers) /\ <<>> \in Seq(DataOrders)
      BY <1>m, <2>3, QueueSteps
    <2>5. /\ toHost # <<>> =>
                /\ Tail(toHost) \in Seq(DataAnswers) /\ toHost[1] \in DataAnswers
                /\ [toHost EXCEPT ![1] = Junk] \in Seq(DataAnswers)
          /\ \A x \in DataAnswers : /\ Append(toHost, x) \in Seq(DataAnswers)
                                    /\ <<x>> \o toHost \in Seq(DataAnswers)
      BY <1>m, <2>3, QueueSteps
    <2>6. /\ toDev # <<>> =>
                /\ Tail(toDev) \in Seq(DataOrders) /\ toDev[1] \in DataOrders
                /\ [toDev EXCEPT ![1] = JunkCommand] \in Seq(DataOrders)
          /\ \A q \in {toDev, <<>>} :
                \A x \in DataOrders : Append(q, x) \in Seq(DataOrders)
      BY <1>m, <2>3, <2>4, QueueSteps
    <2>7. CASE SendCommand
      <3>1. Command \in DataOrders
        <4>1. Command \in Commands /\ Command.op = "data"
          BY <1>2, CommandTyped, CommandFields DEF CommandPcs, Op
        <4> QED
          BY <4>1 DEF DataOrders
      <3> QED
        BY <2>3, <2>4, <2>6, <2>7, <3>1 DEF SendCommand, Unflushed
    <2>8. CASE SendFails
      BY <1>m, <2>3, <2>4, <2>6, <2>8 DEF SendFails, Unflushed
    <2>9. CASE BadReply
      BY <1>m, <2>3, <2>4, <2>5, <2>9 DEF BadReply
    <2>10. CASE GoodReply
      BY <2>3, <2>4, <2>10 DEF GoodReply
    <2>11. CASE UNCHANGED <<rx, toHost, toDev>>
      BY <2>3, <2>11
    <2>12. CASE DeviceData
      BY <1>m, <2>3, <2>5, <2>6, <2>12, SingleSteps DEF DeviceData, Take
    <2>13. ~DeviceEnd /\ ~DeviceSilent
      BY <2>2, <2>6 DEF DeviceEnd, DeviceSilent, DataOrders
    <2>14. CASE DeviceRefuses
      <3>1. Reply(toDev[1].op, FALSE) = Junk
        BY <2>2, <2>14 DEF DeviceRefuses, Junk
      <3> QED
        BY <1>m, <2>3, <2>5, <2>6, <2>14, <3>1, SingleSteps DEF DeviceRefuses, Take
    <2>15. CASE DeviceJoins
      <3>1. /\ Len(toDev) > 1 /\ UNCHANGED <<rx, toHost>>
            /\ \E q \in {Tail(toDev), Tail(Tail(toDev))} :
                  toDev' \in {q, <<JunkCommand>> \o q}
        BY <2>15 DEF DeviceJoins
      <3>2. /\ toDev # <<>> /\ Tail(toDev) # <<>>
            /\ Tail(toDev) \in Seq(DataOrders)
        <4>1. Len(toDev) \in Nat /\ toDev # <<>> /\ Len(toDev) > 1
          BY <2>3, <3>1, QueueSteps
        <4>2. Tail(toDev) \in Seq(DataOrders) /\ Len(Tail(toDev)) = Len(toDev) - 1
          BY <2>3, <4>1, QueueSteps
        <4>3. Len(Tail(toDev)) # 0
          BY <4>1, <4>2
        <4> QED
          BY <4>1, <4>2, <4>3, QueueSteps
      <3>3. Tail(Tail(toDev)) \in Seq(DataOrders)
        BY <3>2, QueueSteps
      <3>4. \A q \in Seq(DataOrders) : <<JunkCommand>> \o q \in Seq(DataOrders)
        BY <1>m, QueueSteps
      <3> QED
        BY <2>3, <3>1, <3>2, <3>3, <3>4
    <2>16. CASE Deliver
      BY <2>3, <2>4, <2>5, <2>16 DEF Deliver
    <2>17. CASE LoseCommand \/ DamageCommand
      BY <2>3, <2>6, <2>17 DEF LoseCommand, DamageCommand
    <2>18. CASE LoseReply \/ DamageReply
      BY <2>3, <2>5, <2>18 DEF LoseReply, DamageReply
    <2>19. CASE Noise
      BY <1>m, <2>3, <2>4, <2>19 DEF Noise
    <2>20. ReadFails \/ Timeout \/ ResetToRun \/ DeviceReset \/ UNCHANGED vars
              => UNCHANGED <<rx, toHost, toDev>>
      BY DEF ReadFails, Timeout, ResetToRun, DeviceReset, vars
    <2> QED
      BY <2>1, <2>7, <2>8, <2>9, <2>10, <2>11, <2>12, <2>13, <2>14, <2>15,
         <2>16, <2>17, <2>18, <2>19, <2>20
      DEF Next, Host, Device, Environment
  <1> QED
    BY <1>1, <1>2

Nothing == rx = <<>> /\ toHost = <<>> /\ toDev = <<>>

\* Every attempt at a block but the one whose answer is still to come has been
\* paid for by a fault or a piece; so has that one when nothing is under way.
AttemptsPaid ==
    /\ Load <= Budget
    /\ pc = "Data" /\ dev.mode = "flash" =>
          /\ ~waiting => try + Load <= Budget
          /\ waiting => try + Load <= Budget + 1
          /\ waiting /\ Nothing => try <= Budget

\* After the download has given up at a block no FLASH_BEGIN is on its way.
Closed ==
    pc = "Failed" /\ (try > 1 \/ (try > 0 /\ blk > 0)) =>
        \A i \in 1 .. Len(toDev) : toDev[i].op # "begin"

RetryInv == AfterBegin /\ AnswersGood /\ AttemptsPaid /\ Closed /\ RetriesSurvive

LEMMA RetryInit == Init => RetryInv
  <1> SUFFICES ASSUME Init PROVE RetryInv
    OBVIOUS
  <1>1. Load = 0 /\ Budget = 0
    <2>1. Pieces(<<>>) = 0
      BY EmptySeq, PiecesSteps
    <2> QED
      BY <2>1 DEF Init, Load, Budget
  <1>2. AfterBegin
    BY EmptySeq DEF Init, AfterBegin, LastGood, Holds
  <1> QED
    BY <1>1, <1>2
    DEF Init, RetryInv, AnswersGood, AttemptsPaid, Closed, RetriesSurvive

\* The last thing under way is gone without an answer: that costs something.
LEMMA GoneIsPaid ==
    ASSUME TypeInv, [Next]_vars, ~Host, ~Nothing, Nothing',
           dev.mode = "flash", dev'.mode = "flash"
    PROVE  Spent
  <1>t. /\ rx \in Seq(Replies) /\ toHost \in Seq(Replies) /\ toDev \in Seq(Commands)
    BY DEF TypeInv, TypeOK
  <1>m. Junk \in Replies /\ JunkCommand \in Commands
    BY MessagesTyped
  <1>1. \A r : Append(toHost, r) # <<>> /\ Append(rx, r) # <<>>
    BY <1>t
  <1>2. ~DeviceBegin /\ ~DeviceData /\ ~DeviceEnd /\ ~DeviceRefuses
    BY <1>1, SingleSteps
    DEF DeviceBegin, DeviceData, DeviceEnd, DeviceRefuses, Take, Nothing
  <1>3. ~DeviceSilent /\ ~Deliver /\ ~Noise /\ ~DeviceReset
    BY <1>1 DEF DeviceSilent, Deliver, Noise, DeviceReset, Nothing
  <1>4. ~DamageCommand /\ ~DamageReply
    <2>1. toDev # <<>> => [toDev EXCEPT ![1] = JunkCommand] # <<>>
      BY <1>t, <1>m, QueueElements, EmptySeq
    <2>2. toHost # <<>> => [toHost EXCEPT ![1] = Junk] # <<>>
      BY <1>t, <1>m, QueueElements, EmptySeq
    <2> QED
      BY <2>1, <2>2 DEF DamageCommand, DamageReply, Nothing
  <1>5. LoseCommand \/ LoseReply \/ (DeviceJoins /\ toDev' = <<>>)
    BY <1>2, <1>3, <1>4 DEF Next, Device, Environment, Nothing, vars
  <1> QED
    BY <1>5, LoadStep

\* An attempt at a block that fails has been paid for.
LEMMA FailurePaid ==
    ASSUME ~LateReplies, TypeInv, RetryInv, [Next]_vars,
           SendFails \/ BadReply \/ Timeout,
           pc = "Data", dev.mode = "flash"
    PROVE  try' + Load' <= Budget' /\ try' \in Nat /\ Load' \in Nat /\ Budget' \in Nat
  <1>t. /\ TypeInv' /\ try \in Nat /\ try' \in Nat
        /\ Load \in Nat /\ Budget \in Nat
    BY TypeStep, LoadTyped, SizesAssumption DEF TypeInv, TypeOK
  <1>u. Load' \in Nat /\ Budget' \in Nat
    BY <1>t, LoadTypedNext
  <1>k. /\ Budget <= Budget' /\ Load' + Budget <= Load + Budget'
        /\ SendFails \/ (BadReply /\ Spoils(rx[1])) =>
              Load' + Budget < Load + Budget'
    BY LoadStep DEF Kept, Spent
  <1>q. /\ Load' + Budget < Load + Budget' /\ try + Load <= Budget
              => (try + 1) + Load' <= Budget'
        /\ Load' + Budget < Load + Budget' /\ try + Load <= Budget + 1
              => try + Load' <= Budget'
        /\ try <= Budget /\ Load' = 0 => try + Load' <= Budget'
    <2>1. PICK k \in Nat, h \in Nat : k = Load' /\ h = Budget'
      BY <1>u
    <2>2. Budget <= h /\ k + Budget <= Load + h
      BY <1>k, <2>1
    <2>3. /\ k + Budget < Load + h /\ try + Load <= Budget => (try + 1) + k <= h
          /\ k + Budget < Load + h /\ try + Load <= Budget + 1 => try + k <= h
          /\ try <= Budget /\ k = 0 => try + k <= h
      BY <1>t, <2>2
    <2> QED
      BY <2>1, <2>3
  <1>1. CASE SendFails
    <2>1. ~waiting /\ try' = try + 1 /\ try + Load <= Budget
      BY <1>1 DEF SendFails, RetryInv, AttemptsPaid
    <2> QED
      BY <1>t, <1>u, <1>k, <1>q, <1>1, <2>1
  <1>2. CASE BadReply
    <2>1. waiting /\ try' = try /\ try + Load <= Budget + 1
      BY <1>2 DEF BadReply, RetryInv, AttemptsPaid
    <2>2. Spoils(rx[1])
      <3>1. rx[1] \in DataAnswers
        BY <1>2, QueueSteps DEF BadReply, RetryInv, AnswersGood
      <3> QED
        <4>1. rx[1] # Reply("data", TRUE)
          BY <1>2 DEF BadReply, Op
        <4>2. rx[1] = Junk
          BY <3>1, <4>1 DEF DataAnswers
        <4> QED
          BY <4>2 DEF Spoils, Junk, Reply
    <2> QED
      BY <1>t, <1>u, <1>k, <1>q, <1>2, <2>1, <2>2
  <1>3. CASE Timeout
    <2>1. waiting /\ Nothing /\ UNCHANGED <<try, rx, toHost, toDev, faults, rests>>
      BY <1>3 DEF Timeout, Nothing
    <2>2. try <= Budget
      BY <2>1 DEF RetryInv, AttemptsPaid
    <2>3. Load' = 0 /\ Budget' = Budget
      <3>1. Pieces(<<>>) = 0
        BY EmptySeq, PiecesSteps
      <3> QED
        BY <2>1, <3>1 DEF Nothing, Load, Budget
    <2> QED
      BY <1>t, <1>u, <1>q, <2>1, <2>2, <2>3
  <1> QED
    BY <1>1, <1>2, <1>3

\* The account of the attempts is kept by every step.
LEMMA PaidStep ==
    ASSUME ~LateReplies, TypeInv, AnyLinkInv, RetryInv, [Next]_vars
    PROVE  AttemptsPaid'
  <1>t. /\ try \in Nat /\ Load \in Nat /\ Budget \in Nat /\ Load' \in Nat
        /\ Budget' \in Nat /\ try' \in Nat /\ TypeInv'
    <2>1. TypeInv'
      BY TypeStep
    <2>2. try \in Nat /\ try' \in Nat
      BY <2>1, SizesAssumption DEF TypeInv, TypeOK
    <2> QED
      BY <2>1, <2>2, LoadTyped, LoadTypedNext
  <1>k. /\ Budget <= Budget' /\ Load' + Budget <= Load + Budget'
    BY LoadStep DEF Kept
  <1>l. Load <= Budget
    BY DEF RetryInv, AttemptsPaid
  <1>q. /\ Load <= Budget => Load' <= Budget' /\ 0 + Load' <= Budget'
        /\ try + Load <= Budget => /\ try + Load' <= Budget'
                                  /\ (try + 1) + Load' <= Budget' + 1
        /\ try + Load <= Budget + 1 => try + Load' <= Budget' + 1
        /\ try <= Budget => try <= Budget'
        /\ Load' + Budget < Load + Budget' /\ try + Load <= Budget + 1
              => try <= Budget'
    <2>1. PICK k \in Nat, h \in Nat : k = Load' /\ h = Budget'
      BY <1>t
    <2>2. Budget <= h /\ k + Budget <= Load + h
      BY <1>k, <2>1
    <2>3. /\ Load <= Budget => k <= h /\ 0 + k <= h
          /\ try + Load <= Budget => try + k <= h /\ (try + 1) + k <= h + 1
          /\ try + Load <= Budget + 1 => try + k <= h + 1
          /\ try <= Budget => try <= h
          /\ k + Budget < Load + h /\ try + Load <= Budget + 1 => try <= h
      BY <1>t, <2>2
    <2> QED
      BY <2>1, <2>3
  <1>m. Load' <= Budget'
    BY <1>q, <1>l
  <1> SUFFICES ASSUME pc' = "Data", dev'.mode = "flash"
               PROVE  /\ ~waiting' => try' + Load' <= Budget'
                      /\ waiting' => try' + Load' <= Budget' + 1
                      /\ waiting' /\ Nothing' => try' <= Budget'
    BY <1>m DEF AttemptsPaid
  <1>1. CASE GoodReply
    <2>1. try' = 0 /\ ~waiting'
      BY <1>1 DEF GoodReply
    <2> QED
      BY <1>q, <1>l, <2>1
  <1>2. CASE ~GoodReply
    <2>1. pc = "Data"
      BY <1>2
      DEF Next, Host, Device, Environment, SendCommand, SendFails, ReadFails,
          BadReply, Timeout, ResetToRun, AttemptFailed, DeviceBegin, DeviceData,
          DeviceEnd, DeviceRefuses, DeviceSilent, DeviceJoins, Take, Deliver,
          LoseCommand, DamageCommand, LoseReply, DamageReply, Noise, DeviceReset,
          vars
    <2>2. dev.mode = "flash"
      <3>1. ~DeviceBegin
        <4> SUFFICES ASSUME DeviceBegin PROVE FALSE
          OBVIOUS
        <4>1. toDev # <<>> /\ toDev[1].op = "begin" /\ toDev \in Seq(Commands)
          BY DEF DeviceBegin, TypeInv, TypeOK
        <4>2. 1 \in 1 .. Len(toDev)
          BY <4>1, EmptySeq
        <4> QED
          BY <2>1, <4>1, <4>2 DEF AnyLinkInv, BeginCommands, BeginOpen
      <3> QED
        BY <3>1
        DEF Next, Host, Device, Environment, SendCommand, SendFails, ReadFails,
            BadReply, Timeout, ResetToRun, DeviceData,
            DeviceEnd, DeviceRefuses, DeviceSilent, DeviceJoins, Take, Deliver,
            LoseCommand, DamageCommand, LoseReply, DamageReply, Noise, DeviceReset,
            vars, GoodReply, TypeInv, TypeOK
    <2>3. /\ ~waiting => try + Load <= Budget
          /\ waiting => try + Load <= Budget + 1
          /\ waiting /\ Nothing => try <= Budget
      BY <2>1, <2>2 DEF RetryInv, AttemptsPaid
    <2>4. CASE SendCommand
      <3>1. /\ ~waiting /\ waiting' /\ try' = try + 1
            /\ \E q \in {toDev, <<>>} : toDev' = Append(q, Command)
        BY <2>4 DEF SendCommand, Unflushed
      <3>2. ~Nothing'
        <4>1. toDev \in Seq(Commands)
          BY DEF TypeInv, TypeOK
        <4>2. \A q \in {toDev, <<>>} : Append(q, Command) # <<>>
          BY <4>1
        <4> QED
          BY <3>1, <4>2 DEF Nothing
      <3>3. try + Load <= Budget
        BY <2>3, <3>1
      <3> QED
        BY <1>q, <3>1, <3>2, <3>3
    <2>5. CASE SendFails \/ BadReply \/ Timeout
      <3>1. try' + Load' <= Budget' /\ ~waiting'
        BY <2>1, <2>2, <2>5, FailurePaid
        DEF SendFails, BadReply, Timeout, AttemptFailed
      <3> QED
        BY <3>1
    <2>6. CASE ~Host
      <3>1. waiting' = waiting /\ try' = try
        BY <2>6
        DEF Next, Device, Environment, DeviceBegin, DeviceData, DeviceEnd,
            DeviceRefuses, DeviceSilent, DeviceJoins, Take, Deliver, LoseCommand,
            DamageCommand, LoseReply, DamageReply, Noise, DeviceReset, vars
      <3>2. CASE ~waiting
        BY <1>q, <2>3, <3>1, <3>2
      <3>3. CASE waiting /\ Nothing
        <4>1. try <= Budget /\ try + Load <= Budget + 1
          BY <2>3, <3>3
        <4> QED
          BY <1>q, <3>1, <3>3, <4>1
      <3>4. CASE waiting /\ ~Nothing
        <4>1. try + Load <= Budget + 1
          BY <2>3, <3>4
        <4>2. ASSUME Nothing' PROVE Load' + Budget < Load + Budget'
          BY <2>2, <2>6, <3>4, <4>2, GoneIsPaid DEF Spent
        <4>3. ASSUME Nothing' PROVE try <= Budget'
          BY <1>q, <4>1, <4>2, <4>3
        <4> QED
          BY <1>q, <3>1, <3>4, <4>1, <4>3
      <3> QED
        BY <3>2, <3>3, <3>4
    <2>7. ~ReadFails /\ ~ResetToRun
      BY <2>1 DEF ReadFails, ResetToRun
    <2> QED
      BY <1>2, <2>4, <2>5, <2>6, <2>7 DEF Host
  <1> QED
    BY <1>1, <1>2

\* A download that fails at a block: what failed last, and the line it leaves.
LEMMA FailedAttempt ==
    ASSUME TypeInv, AnyLinkInv, RetryInv, [Next]_vars,
           pc # "Failed", pc' = "Failed",
           try' > 1 \/ (try' > 0 /\ blk' > 0)
    PROVE  /\ SendFails \/ BadReply \/ Timeout
           /\ pc = "Data" /\ dev' = dev /\ try' >= MaxTries
           /\ \A i \in 1 .. Len(toDev') : toDev'[i].op # "begin"
  <1>t. try \in Nat /\ (pc \in CommandPcs /\ ~waiting => try < Tries)
    BY SizesAssumption DEF TypeInv, TypeOK, Attempts
  <1>1. SendFails \/ ReadFails \/ BadReply \/ Timeout
    BY DEF Next, Host, Device, Environment, SendCommand, GoodReply, Proceed,
           AfterImages, ResetToRun, DeviceBegin, DeviceData, DeviceEnd,
           DeviceRefuses, DeviceSilent, DeviceJoins, Take, Deliver, LoseCommand,
           DamageCommand, LoseReply, DamageReply, Noise, DeviceReset, vars
  <1>2. ~ReadFails
    BY DEF ReadFails
  <1>3. /\ dev' = dev /\ blk' = blk
        /\ SendFails => try' = try + 1 /\ AttemptFailed(try + 1) /\ ~waiting
        /\ BadReply \/ Timeout => try' = try /\ AttemptFailed(try)
    BY <1>1, <1>2 DEF SendFails, BadReply, Timeout, AttemptFailed
  <1>4. AttemptFailed(try')
    BY <1>1, <1>2, <1>3
  <1>5. pc \in {"Begin", "Data"} /\ ~(try' < Tries)
    BY <1>4 DEF AttemptFailed
  <1>6. pc # "Begin"
    <2> SUFFICES ASSUME pc = "Begin" PROVE FALSE
      OBVIOUS
    <2>1. blk = 0 /\ try <= 1
      BY DEF RetryInv, AfterBegin
    <2>2. SendFails => try < 1
      BY <1>t, <1>3 DEF Tries, CommandPcs
    <2>3. try' <= 1
      BY <1>t, <1>1, <1>2, <1>3, <2>1, <2>2
    <2>4. blk' = 0
      BY <1>3, <2>1
    <2>5. try' \in Nat
      BY <1>t, <1>1, <1>2, <1>3
    <2> QED
      BY <2>3, <2>4, <2>5
  <1>7. try' >= MaxTries
    <2>1. try' \in Nat
      BY <1>t, <1>1, <1>2, <1>3
    <2> QED
      BY <1>5, <1>6, <2>1, SizesAssumption DEF Tries
  <1>8. \A i \in 1 .. Len(toDev) : toDev[i].op # "begin"
    BY <1>5, <1>6 DEF AnyLinkInv, BeginCommands, BeginOpen
  <1>9. CommandsGo
    BY <1>1, <1>2, <1>5, <1>6, MessagesTyped
    DEF SendFails, BadReply, Timeout, Unflushed, CommandsGo, BeginOpen
  <1>10. \A i \in 1 .. Len(toDev') : toDev'[i].op # "begin"
    <2> SUFFICES ASSUME NEW i \in 1 .. Len(toDev'), toDev'[i].op = "begin"
                 PROVE  FALSE
      OBVIOUS
    <2>1. \E j \in 1 .. Len(toDev) : toDev'[i] = toDev[j]
      BY <1>9, CommandsFrom
    <2> QED
      BY <1>8, <2>1
  <1> QED
    BY <1>1, <1>2, <1>3, <1>5, <1>6, <1>7, <1>10

\* After the end nothing is sent.
LEMMA FailedStays ==
    ASSUME TypeInv, RetryInv, [Next]_vars,
           pc = "Failed", try > 1 \/ (try > 0 /\ blk > 0)
    PROVE  /\ UNCHANGED <<pc, try, blk>>
           /\ dev'.mode = "flash" => dev.mode = "flash"
           /\ \A i \in 1 .. Len(toDev') : toDev'[i].op # "begin"
  <1>t. toDev \in Seq(Commands) /\ Junk \in Replies /\ ~waiting
    BY MessagesTyped DEF TypeInv, TypeOK, Attempts, CommandPcs
  <1>1. \A i \in 1 .. Len(toDev) : toDev[i].op # "begin"
    BY DEF RetryInv, Closed
  <1>2. ~DeviceBegin
    BY <1>t, <1>1, EmptySeq DEF DeviceBegin
  <1>3. ~Host
    BY <1>t
    DEF Host, SendCommand, SendFails, ReadFails, BadReply, GoodReply, Timeout,
        ResetToRun, CommandPcs
  <1>4. UNCHANGED <<pc, try, blk>>
    BY <1>3
    DEF Next, Device, Environment, DeviceBegin, DeviceData, DeviceEnd,
        DeviceRefuses, DeviceSilent, DeviceJoins, Take, Deliver, LoseCommand,
        DamageCommand, LoseReply, DamageReply, Noise, DeviceReset, vars
  <1>5. dev'.mode = "flash" => dev.mode = "flash"
    BY <1>2, <1>3
    DEF Next, Device, Environment, DeviceData, DeviceEnd,
        DeviceRefuses, DeviceSilent, DeviceJoins, Take, Deliver, LoseCommand,
        DamageCommand, LoseReply, DamageReply, Noise, DeviceReset, vars,
        TypeInv, TypeOK
  <1>6. ASSUME NEW i \in 1 .. Len(toDev') PROVE toDev'[i].op # "begin"
    <2> SUFFICES ASSUME toDev'[i].op = "begin" PROVE FALSE
      OBVIOUS
    <2>1. CommandsGo
      BY <1>2, <1>3
      DEF Next, Device, Environment, DeviceData, DeviceEnd,
          DeviceRefuses, DeviceSilent, DeviceJoins, Take, Deliver, LoseCommand,
          DamageCommand, LoseReply, DamageReply, Noise, DeviceReset, vars,
          CommandsGo
    <2>2. \E j \in 1 .. Len(toDev) : toDev'[i] = toDev[j]
      BY <2>1, CommandsFrom
    <2> QED
      BY <1>1, <2>2
  <1> QED
    BY <1>4, <1>5, <1>6

LEMMA RetryStep ==
    ~LateReplies => (TypeInv /\ AnyLinkInv /\ RetryInv /\ [Next]_vars => RetryInv')
  <1> SUFFICES ASSUME ~LateReplies, TypeInv, AnyLinkInv, RetryInv, [Next]_vars
               PROVE  RetryInv'
    OBVIOUS
  <1>0. TypeInv' /\ AnyLinkInv'
    BY TypeStep, AnyLinkStep
  <1>1. AfterBegin' /\ AnswersGood'
    BY <1>0, AfterBeginStep, AnswersStep DEF RetryInv
  <1>2. AttemptsPaid'
    BY PaidStep
  <1>3. Closed' /\ RetriesSurvive'
    <2> SUFFICES ASSUME pc' = "Failed", try' > 1 \/ (try' > 0 /\ blk' > 0)
                 PROVE  /\ \A i \in 1 .. Len(toDev') : toDev'[i].op # "begin"
                        /\ dev'.mode = "flash" => faults' + rests' >= MaxTries
      BY DEF Closed, RetriesSurvive
    <2>1. CASE pc = "Failed"
      <3>1. UNCHANGED <<pc, try, blk>>
        <4>1. ~Host
          BY <2>1
          DEF Host, SendCommand, SendFails, ReadFails, BadReply, GoodReply,
              Timeout, ResetToRun, CommandPcs, TypeInv, Attempts
        <4> QED
          BY <4>1
          DEF Next, Device, Environment, DeviceBegin, DeviceData, DeviceEnd,
              DeviceRefuses, DeviceSilent, DeviceJoins, Take, Deliver,
              LoseCommand, DamageCommand, LoseReply, DamageReply, Noise,
              DeviceReset, vars
      <3>2. try > 1 \/ (try > 0 /\ blk > 0)
        BY <3>1
      <3>3. /\ dev'.mode = "flash" => dev.mode = "flash"
            /\ \A i \in 1 .. Len(toDev') : toDev'[i].op # "begin"
        BY <2>1, <3>2, FailedStays
      <3>4. ASSUME dev'.mode = "flash" PROVE faults' + rests' >= MaxTries
        <4>1. Budget >= MaxTries
          BY <2>1, <3>2, <3>3, <3>4 DEF RetryInv, RetriesSurvive, Budget
        <4>2. Budget <= Budget' /\ Budget \in Nat /\ Budget' \in Nat
          BY <1>0, LoadStep, LoadTyped, LoadTypedNext DEF Kept
        <4>3. Budget' >= MaxTries
          BY <4>1, <4>2, SizesAssumption
        <4> QED
          BY <4>3 DEF Budget
      <3> QED
        BY <3>3, <3>4
    <2>2. CASE pc # "Failed"
      <3>1. /\ SendFails \/ BadReply \/ Timeout
            /\ pc = "Data" /\ dev' = dev /\ try' >= MaxTries
            /\ \A i \in 1 .. Len(toDev') : toDev'[i].op # "begin"
        BY <2>2, FailedAttempt
      <3>2. ASSUME dev'.mode = "flash" PROVE faults' + rests' >= MaxTries
        <4>1. try' + Load' <= Budget' /\ try' \in Nat /\ Load' \in Nat /\ Budget' \in Nat
          BY <3>1, <3>2, FailurePaid
        <4>2. PICK t \in Nat, k \in Nat, h \in Nat :
                 t = try' /\ k = Load' /\ h = Budget'
          BY <4>1
        <4>3. t + k <= h /\ t >= MaxTries /\ MaxTries \in Nat
          BY <3>1, <4>1, <4>2, SizesAssumption
        <4>4. h >= MaxTries
          BY <4>3
        <4>5. Budget' >= MaxTries
          BY <4>2, <4>4
        <4> QED
          BY <4>5 DEF Budget
      <3> QED
        BY <3>1, <3>2
    <2> QED
      BY <2>1, <2>2
  <1> QED
    BY <1>1, <1>2, <1>3 DEF RetryInv

\* A download that gives up at a block, the device being where FLASH_BEGIN put
\* it, has met a fault or a piece left over for each of its MaxTries attempts,
\* whatever pieces damaged frames and failed writes leave on the line, as long
\* as the line answers in time (esp.cpp:507-526).
THEOREM RetriesAreWorthTheirFaults ==
    ASSUME ~LateReplies
    PROVE  Spec => []RetriesSurvive
  <1>1. Init => TypeInv /\ AnyLinkInv /\ RetryInv
    BY TypeInit, AnyLinkInit, RetryInit
  <1>2. TypeInv /\ AnyLinkInv /\ RetryInv /\ [Next]_vars
           => (TypeInv /\ AnyLinkInv /\ RetryInv)'
    BY TypeStep, AnyLinkStep, RetryStep
  <1>3. RetryInv => RetriesSurvive
    BY DEF RetryInv
  <1> QED
    BY <1>1, <1>2, <1>3, PTL DEF Spec

==============================================================================
