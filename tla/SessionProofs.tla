---------------------------- MODULE SessionProofs ----------------------------
(***************************************************************************)
(* Theorems about Session, for every set of addresses, names and sizes and *)
(* for command lines of any length.                                        *)
(***************************************************************************)
EXTENDS Session, SequenceFacts, TLAPS

-----------------------------------------------------------------------------
(* What a command line means, with the line as a parameter. *)

LastOf(K) == IF K = {} THEN 0 ELSE Max(K)

ModeSet(l, j) == {k \in 1 .. j - 1 : l[k].op \in {"mode", "combine"}}

ModeIn(l, j) ==
    IF LastOf(ModeSet(l, j)) = 0 THEN "write" ELSE l[LastOf(ModeSet(l, j))].val

Wants(a, mode) ==
    a.op = "extract" \/ (a.op = "file" /\ mode \in DeviceModes \cup CombineModes)

AddressSet(l, j) == {k \in 1 .. j - 1 : l[k].op = "address"}
WantSet(l, j) == {k \in 1 .. j - 1 : Wants(l[k], ModeIn(l, k))}

GivenIn(l, j) ==
    IF LastOf(AddressSet(l, j)) > LastOf(WantSet(l, j))
    THEN l[LastOf(AddressSet(l, j))].val ELSE NoAddress

ElfSet(l, j) == {k \in 1 .. j - 1 : l[k].op = "elf"}

ElfIn(l, j) == LastOf(ElfSet(l, j)) # 0 /\ l[LastOf(ElfSet(l, j))].val

LEMMA LineMeans ==
    /\ \A j : ModeOf(j) = ModeIn(line, j) /\ GivenFor(j) = GivenIn(line, j)
    /\ \A j : HasElf(j) <=> ElfIn(line, j)
  <1>1. \A j : ModeOf(j) = ModeIn(line, j)
    BY DEF ModeOf, Latest, SetsMode, ModeIn, LastOf, ModeSet
  <1>2. \A k : WantsAddress(k) <=> Wants(line[k], ModeIn(line, k))
    BY <1>1 DEF WantsAddress, Wants
  <1>3. \A j : {k \in 1 .. j - 1 : WantsAddress(k)} = WantSet(line, j)
    BY <1>2 DEF WantSet
  <1>4. \A j : GivenFor(j) = GivenIn(line, j)
    BY <1>3, Zenon DEF GivenFor, Latest, GivenIn, LastOf, AddressSet
  <1>5. \A j : HasElf(j) <=> ElfIn(line, j)
    BY Zenon DEF HasElf, Latest, ElfIn, LastOf, ElfSet
  <1> QED
    BY <1>1, <1>4, <1>5

LEMMA LastOfTyped ==
    ASSUME NEW n \in Nat, NEW K \in SUBSET (1 .. n)
    PROVE  /\ LastOf(K) \in 0 .. n
           /\ LastOf(K) # 0 => LastOf(K) \in K
           /\ \A k \in K : k <= LastOf(K)
  <1>1. CASE K = {}
    <2>1. LastOf(K) = 0
      BY <1>1 DEF LastOf
    <2>2. 0 \in 0 .. n
      OBVIOUS
    <2> QED
      BY <1>1, <2>1, <2>2
  <1>2. CASE K # {}
    <2>1. Max(K) \in K /\ \A k \in K : k <= Max(K)
      BY <1>2, LargestNumber
    <2>2. LastOf(K) = Max(K)
      BY <1>2 DEF LastOf
    <2>3. PICK x \in 1 .. n : x = LastOf(K)
      BY <2>1, <2>2
    <2>4. x \in 0 .. n
      OBVIOUS
    <2> QED
      BY <2>1, <2>2, <2>3, <2>4, Zenon
  <1> QED
    BY <1>1, <1>2

LEMMA LastOfMore ==
    ASSUME NEW n \in Nat, NEW K \in SUBSET (1 .. n)
    PROVE  LastOf(K \cup {n + 1}) = n + 1
  <1>1. K \cup {n + 1} \in SUBSET (1 .. n + 1) /\ K \cup {n + 1} # {}
    OBVIOUS
  <1>2. /\ Max(K \cup {n + 1}) \in K \cup {n + 1}
        /\ \A k \in K \cup {n + 1} : k <= Max(K \cup {n + 1})
    BY <1>1, LargestNumber
  <1>3. LastOf(K \cup {n + 1}) = Max(K \cup {n + 1})
    BY <1>1 DEF LastOf
  <1> DEFINE x == Max(K \cup {n + 1})
  <1>4. x \in 1 .. n + 1 /\ n + 1 <= x
    BY <1>1, <1>2
  <1> HIDE DEF x
  <1>5. x = n + 1
    BY <1>4
  <1> QED
    BY <1>3, <1>5 DEF x

\* One more argument: what the earlier ones mean stays, and the place after it
\* has the mode that it sets, and the address that it gives, or none if it
\* uses the address up.
LEMMA LineExtends ==
    ASSUME NEW l \in Seq(Args), NEW a \in Args, NEW m, m = Append(l, a)
    PROVE  /\ \A j \in 1 .. Len(l) + 1 :
                 ModeIn(m, j) = ModeIn(l, j) /\ GivenIn(m, j) = GivenIn(l, j)
           /\ ModeIn(m, Len(m) + 1) =
                 IF a.op \in {"mode", "combine"} THEN a.val
                 ELSE ModeIn(l, Len(l) + 1)
           /\ GivenIn(m, Len(m) + 1) =
                 IF a.op = "address" THEN a.val
                 ELSE IF Wants(a, ModeIn(l, Len(l) + 1)) THEN NoAddress
                 ELSE GivenIn(l, Len(l) + 1)
  <1> DEFINE n == Len(l)
  <1>1. /\ n \in Nat /\ Len(m) = n + 1 /\ m[n + 1] = a
        /\ \A k \in 1 .. n : m[k] = l[k]
    BY LenProperties, AppendProperties
  <1> HIDE DEF n
  <1>2. ASSUME NEW j \in 1 .. n + 1
        PROVE  ModeIn(m, j) = ModeIn(l, j)
    <2>1. j - 1 \in 0 .. n /\ \A k \in 1 .. j - 1 : k \in 1 .. n
      BY <1>1
    <2>2. ModeSet(m, j) = ModeSet(l, j) /\ ModeSet(l, j) \in SUBSET (1 .. j - 1)
      BY <1>1, <2>1 DEF ModeSet
    <2>3. LastOf(ModeSet(l, j)) # 0 => LastOf(ModeSet(l, j)) \in 1 .. n
      BY <1>1, <2>1, <2>2, LastOfTyped
    <2> QED
      BY <1>1, <2>2, <2>3 DEF ModeIn
  <1>3. ASSUME NEW j \in 1 .. n + 1
        PROVE  /\ AddressSet(m, j) = AddressSet(l, j)
               /\ WantSet(m, j) = WantSet(l, j)
               /\ AddressSet(l, j) \in SUBSET (1 .. j - 1)
               /\ WantSet(l, j) \in SUBSET (1 .. j - 1)
               /\ LastOf(AddressSet(l, j)) \in 0 .. j - 1
               /\ LastOf(WantSet(l, j)) \in 0 .. j - 1
               /\ GivenIn(m, j) = GivenIn(l, j)
    <2>1. j - 1 \in Nat /\ \A k \in 1 .. j - 1 : k \in 1 .. n /\ k \in 1 .. n + 1
      BY <1>1
    <2>2. /\ AddressSet(m, j) = AddressSet(l, j)
          /\ AddressSet(l, j) \in SUBSET (1 .. j - 1)
          /\ WantSet(l, j) \in SUBSET (1 .. j - 1)
      BY <1>1, <2>1 DEF AddressSet, WantSet
    <2>3. WantSet(m, j) = WantSet(l, j)
      BY <1>1, <1>2, <2>1 DEF WantSet
    <2>4. /\ LastOf(AddressSet(l, j)) \in 0 .. j - 1
          /\ LastOf(WantSet(l, j)) \in 0 .. j - 1
      BY <2>1, <2>2, LastOfTyped
    <2>5. LastOf(AddressSet(l, j)) > LastOf(WantSet(l, j))
             => LastOf(AddressSet(l, j)) \in 1 .. n
      BY <2>1, <2>4
    <2> QED
      BY <1>1, <2>2, <2>3, <2>4, <2>5 DEF GivenIn
  <1>4. ModeIn(m, n + 2) = IF a.op \in {"mode", "combine"} THEN a.val
                           ELSE ModeIn(l, n + 1)
    <2>1. (n + 2) - 1 = n + 1 /\ (n + 1) - 1 = n
      BY <1>1
    <2>2. ModeSet(l, n + 1) \in SUBSET (1 .. n)
      BY <2>1 DEF ModeSet
    <2>3. ModeSet(m, n + 2) = ModeSet(l, n + 1) \cup
                              (IF a.op \in {"mode", "combine"} THEN {n + 1} ELSE {})
      BY <1>1, <2>1 DEF ModeSet
    <2>4. CASE a.op \in {"mode", "combine"}
      <3>1. LastOf(ModeSet(m, n + 2)) = n + 1
        BY <1>1, <2>2, <2>3, <2>4, LastOfMore
      <3> QED
        BY <1>1, <2>4, <3>1 DEF ModeIn
    <2>5. CASE a.op \notin {"mode", "combine"}
      <3>1. ModeSet(m, n + 2) = ModeSet(l, n + 1)
        BY <2>3, <2>5
      <3>2. LastOf(ModeSet(l, n + 1)) # 0 => LastOf(ModeSet(l, n + 1)) \in 1 .. n
        BY <1>1, <2>2, LastOfTyped
      <3> QED
        BY <1>1, <2>5, <3>1, <3>2 DEF ModeIn
    <2> QED
      BY <2>4, <2>5
  <1>5. GivenIn(m, n + 2) = IF a.op = "address" THEN a.val
                            ELSE IF Wants(a, ModeIn(l, n + 1)) THEN NoAddress
                            ELSE GivenIn(l, n + 1)
    <2> DEFINE A == AddressSet(l, n + 1)
               W == WantSet(l, n + 1)
    <2>1. (n + 2) - 1 = n + 1 /\ (n + 1) - 1 = n /\ n + 1 \in 1 .. n + 1
      BY <1>1
    <2>2. /\ A \in SUBSET (1 .. n) /\ W \in SUBSET (1 .. n)
          /\ LastOf(A) \in 0 .. n /\ LastOf(W) \in 0 .. n
      BY <1>3, <2>1
    <2>3. AddressSet(m, n + 2) = A \cup (IF a.op = "address" THEN {n + 1} ELSE {})
      BY <1>1, <2>1 DEF AddressSet
    <2>4. WantSet(m, n + 2) =
              W \cup (IF Wants(a, ModeIn(l, n + 1)) THEN {n + 1} ELSE {})
      <3>1. \A k \in 1 .. n : ModeIn(m, k) = ModeIn(l, k)
        BY <1>1, <1>2
      <3>2. ModeIn(m, n + 1) = ModeIn(l, n + 1)
        BY <1>2, <2>1
      <3> QED
        BY <1>1, <2>1, <3>1, <3>2 DEF WantSet
    <2>5. a.op = "address" => ~Wants(a, ModeIn(l, n + 1))
      BY DEF Wants
    <2>6. CASE a.op = "address"
      <3>1. LastOf(AddressSet(m, n + 2)) = n + 1 /\ WantSet(m, n + 2) = W
        BY <1>1, <2>2, <2>3, <2>4, <2>5, <2>6, LastOfMore
      <3> QED
        BY <1>1, <2>2, <2>6, <3>1 DEF GivenIn
    <2>7. CASE Wants(a, ModeIn(l, n + 1))
      <3>1. LastOf(WantSet(m, n + 2)) = n + 1 /\ AddressSet(m, n + 2) = A
        BY <1>1, <2>2, <2>3, <2>4, <2>5, <2>7, LastOfMore
      <3> QED
        BY <1>1, <2>2, <2>5, <2>7, <3>1 DEF GivenIn
    <2>8. CASE a.op # "address" /\ ~Wants(a, ModeIn(l, n + 1))
      <3>1. WantSet(m, n + 2) = W /\ AddressSet(m, n + 2) = A
        BY <2>3, <2>4, <2>8
      <3>2. LastOf(A) > LastOf(W) => m[LastOf(A)] = l[LastOf(A)]
        BY <1>1, <2>2
      <3> HIDE DEF A, W
      <3>3. GivenIn(m, n + 2) = IF LastOf(A) > LastOf(W) THEN l[LastOf(A)].val ELSE NoAddress
        BY <3>1, <3>2 DEF GivenIn
      <3>4. GivenIn(l, n + 1) = IF LastOf(A) > LastOf(W) THEN l[LastOf(A)].val ELSE NoAddress
        BY DEF GivenIn, A, W
      <3> QED
        BY <2>8, <3>3, <3>4
    <2> QED
      BY <2>6, <2>7, <2>8
  <1> QED
    BY <1>1, <1>2, <1>3, <1>4, <1>5 DEF n

\* An ELF file that is named takes the place of the one before.
LEMMA ElfExtends ==
    ASSUME NEW l \in Seq(Args), NEW a \in Args, NEW m, m = Append(l, a)
    PROVE  /\ \A j \in 1 .. Len(l) + 1 : ElfIn(m, j) <=> ElfIn(l, j)
           /\ a.op = "elf" => (ElfIn(m, Len(m) + 1) <=> a.val)
           /\ a.op # "elf" => (ElfIn(m, Len(m) + 1) <=> ElfIn(l, Len(l) + 1))
  <1> DEFINE n == Len(l)
  <1>1. /\ n \in Nat /\ Len(m) = n + 1 /\ m[n + 1] = a
        /\ \A k \in 1 .. n : m[k] = l[k]
    BY LenProperties, AppendProperties
  <1> HIDE DEF n
  <1>2. ASSUME NEW j \in 1 .. n + 1
        PROVE  ElfIn(m, j) <=> ElfIn(l, j)
    <2>1. j - 1 \in 0 .. n /\ \A k \in 1 .. j - 1 : k \in 1 .. n
      BY <1>1
    <2>2. ElfSet(m, j) = ElfSet(l, j) /\ ElfSet(l, j) \in SUBSET (1 .. j - 1)
      BY <1>1, <2>1 DEF ElfSet
    <2>3. LastOf(ElfSet(l, j)) # 0 => LastOf(ElfSet(l, j)) \in 1 .. n
      BY <1>1, <2>1, <2>2, LastOfTyped
    <2> QED
      BY <1>1, <2>2, <2>3 DEF ElfIn
  <1>3. (n + 2) - 1 = n + 1 /\ (n + 1) - 1 = n /\ n + 1 # 0
    BY <1>1
  <1>4. ElfSet(l, n + 1) \in SUBSET (1 .. n)
    BY <1>3 DEF ElfSet
  <1>5. ElfSet(m, n + 2) = ElfSet(l, n + 1) \cup
                           (IF a.op = "elf" THEN {n + 1} ELSE {})
    BY <1>1, <1>3 DEF ElfSet
  <1>6. CASE a.op = "elf"
    <2>1. LastOf(ElfSet(m, n + 2)) = n + 1
      BY <1>1, <1>4, <1>5, <1>6, LastOfMore
    <2>2. ElfIn(m, n + 2) <=> a.val
      BY <1>1, <1>3, <2>1 DEF ElfIn
    <2> QED
      BY <1>1, <1>2, <1>6, <2>2 DEF n
  <1>7. CASE a.op # "elf"
    <2>1. ElfSet(m, n + 2) = ElfSet(l, n + 1)
      BY <1>5, <1>7
    <2>2. LastOf(ElfSet(l, n + 1)) # 0 => LastOf(ElfSet(l, n + 1)) \in 1 .. n
      BY <1>1, <1>4, LastOfTyped
    <2>3. ElfIn(m, n + 2) <=> ElfIn(l, n + 1)
      BY <1>1, <2>1, <2>2 DEF ElfIn
    <2> QED
      BY <1>1, <1>2, <1>7, <2>3 DEF n
  <1> QED
    BY <1>6, <1>7

-----------------------------------------------------------------------------
(* The inductive invariant *)

Parms == [mode : Modes, address : Addresses \cup {NoAddress}, size : 0 .. 1,
          reset : BOOLEAN, combine : {"closed", "empty", "filled"},
          term : BOOLEAN]

Esps == [open : BOOLEAN, connected : BOOLEAN, autoRun : BOOLEAN, elf : BOOLEAN]

\* NumberOf is a fold; the sizes are no more than what it makes of the texts.
Entries == [arg : Nat, op : Ops,
            addr : Addresses \cup {n.addr : n \in Names} \cup {0, NoAddress},
            size : {0, 1} \cup {SizeGiven(t) : t \in SizeTexts}]

Typed ==
    /\ parm \in Parms /\ esp \in Esps
    /\ device \in {"loader", "application", "program", "absent"}
    /\ pc \in {"args", "connect", "operate", "monitor", "ended", "exited"}
    /\ line \in Seq(Args) /\ apart \subseteq 1 .. Len(line)
    /\ done \in Seq(Entries)

Busy == pc \in {"connect", "operate"}

\* The argument a asks for an operation on the device, in that mode.
ForDevice(a, mode) ==
    \/ a.op \in {"mac", "id", "eraseAll", "erasePart"}
    \/ a.op = "file" /\ mode \in DeviceModes

\* The argument a asks for an operation.
AsksFor(a, mode) ==
    a.op \in {"file", "extract", "extractOnly"} \/ ForDevice(a, mode)

\* What an operation finds: the argument that it is for and the connection.
Prepared ==
    /\ esp.connected => esp.open /\ device # "absent"
    /\ Busy => line # <<>> /\ ForDevice(Current, parm.mode)
    /\ pc = "operate" => esp.connected
    /\ pc \in {"args", "connect", "operate"} /\ parm.mode \in CombineModes
          => parm.combine # "closed"

\* What the program keeps is what the command line says.
Kept ==
    /\ parm.mode = ModeIn(line, Len(line) + 1)
    /\ esp.elf <=> ElfIn(line, Len(line) + 1)
    /\ apart = {} /\ pc \in {"args", "monitor", "ended"}
          => parm.address = GivenIn(line, Len(line) + 1)
    /\ Busy => parm.mode = ModeIn(line, Len(line))
    /\ apart = {} /\ Busy =>
          /\ parm.address = GivenIn(line, Len(line))
          /\ GivenIn(line, Len(line) + 1) =
                IF Wants(Current, parm.mode) THEN NoAddress ELSE parm.address

\* The operation e of the line l is as it was asked for.
Asked(l, e) ==
    OrZero(IF GivenIn(l, e.arg) # NoAddress THEN GivenIn(l, e.arg)
           ELSE IF e.op \in {"read", "dump"} THEN NoAddress
           ELSE InName(l[e.arg].val))

Placed(l, e) ==
    /\ e.op \in AddressOps => e.addr = Asked(l, e)
    /\ e.op \in ElfOps => ElfIn(l, e.arg)
    /\ l[e.arg].op = "file" =>
          e.op = IF ModeIn(l, e.arg) = "append" THEN "combine"
                 ELSE ModeIn(l, e.arg)

AllPlaced == apart = {} => \A i \in 1 .. Len(done) : Placed(line, done[i])

\* The operations are in the order of their arguments, the current one not
\* among them while it is under way.
InOrder ==
    /\ \A i \in 1 .. Len(done) :
          /\ done[i].arg \in 1 .. Len(line)
          /\ Busy => done[i].arg < Len(line)
    /\ \A i, k \in 1 .. Len(done) : i < k => done[i].arg < done[k].arg

\* Every argument that asks for an operation was served, but for the current
\* one while it is under way or after it failed, and those for the device that
\* were passed over.
Served ==
    /\ \A j \in 1 .. Len(line) :
          AsksFor(line[j], ModeIn(line, j)) =>
              \/ j = Len(line) /\ pc \in {"connect", "operate", "exited"}
              \/ j \in apart
              \/ \E i \in 1 .. Len(done) : done[i].arg = j
    /\ \A j \in apart : ForDevice(line[j], ModeIn(line, j))

\* Once it was connected the loader answers, until it is sent into a program.
LoaderKept ==
    /\ esp.connected /\ pc \in {"args", "connect", "operate"}
         /\ (\A i \in 1 .. Len(done) : done[i].op \notin {"read", "eraseAll"})
       => device = "loader"

Started ==
    Finished /\ esp.autoRun /\ esp.connected
      /\ (parm.reset \/ \A i \in 1 .. Len(done) :
                            done[i].op \notin {"read", "eraseAll"})
        => device = "application"

SessionInv ==
    /\ Typed /\ Prepared /\ Kept /\ AllPlaced
    /\ InOrder /\ Served /\ LoaderKept /\ Started

LEMMA SessionInit == Init => SessionInv
  <1> SUFFICES ASSUME Init PROVE SessionInv
    OBVIOUS
  <1>1. /\ parm = [mode |-> "write", address |-> NoAddress, size |-> 0,
                   reset |-> FALSE, combine |-> "closed", term |-> FALSE]
        /\ esp = [open |-> FALSE, connected |-> FALSE, autoRun |-> TRUE,
                  elf |-> FALSE]
        /\ device \in {"loader", "application", "absent"}
        /\ pc = "args" /\ line = <<>> /\ apart = {} /\ done = <<>>
    BY DEF Init
  <1>2. /\ \A S : <<>> \in Seq(S)
        /\ Len(line) = 0 /\ Len(done) = 0
    BY <1>1, EmptySeq
  <1>3. Typed
    BY <1>1, <1>2 DEF Typed, Parms, Esps, Modes, DeviceModes
  <1>4. Prepared
    BY <1>1 DEF Prepared, Busy, CombineModes
  <1>5. Kept
    <2>1. /\ ModeSet(line, 1) = {} /\ AddressSet(line, 1) = {}
          /\ WantSet(line, 1) = {} /\ ElfSet(line, 1) = {}
      BY DEF ModeSet, AddressSet, WantSet, ElfSet
    <2>2. ModeIn(line, 1) = "write"
      BY <2>1 DEF ModeIn, LastOf
    <2>3. GivenIn(line, 1) = NoAddress
      BY <2>1 DEF GivenIn, LastOf
    <2>4. ~ElfIn(line, 1) /\ ~esp.elf
      BY <1>1, <2>1 DEF ElfIn, LastOf
    <2> QED
      BY <1>1, <1>2, <2>2, <2>3, <2>4 DEF Kept, Busy
  <1>6. AllPlaced /\ InOrder /\ Served /\ LoaderKept /\ Started
    BY <1>1, <1>2 DEF AllPlaced, InOrder, Served, LoaderKept, Started
  <1> QED
    BY <1>3, <1>4, <1>5, <1>6 DEF SessionInv

\* One more argument is taken.
LEMMA TakeStep ==
    ASSUME SessionInv, NEW a \in Args, Take(a)
    PROVE  /\ pc = "args" /\ line' = Append(line, a) /\ line' \in Seq(Args)
           /\ Len(line) \in Nat /\ Len(line') = Len(line) + 1
           /\ line'[Len(line) + 1] = a
           /\ \A k \in 1 .. Len(line) : line'[k] = line[k]
           /\ apart \subseteq 1 .. Len(line')
           /\ \A i \in 1 .. Len(done) :
                 done[i].arg \in 1 .. Len(line) /\ done[i].arg < Len(line')
           /\ AllPlaced => (apart = {} =>
                 \A i \in 1 .. Len(done) : Placed(line', done[i]))
           /\ \A j \in 1 .. Len(line) :
                 AsksFor(line'[j], ModeIn(line', j)) =>
                     j \in apart \/ \E i \in 1 .. Len(done) : done[i].arg = j
           /\ \A j \in apart : ForDevice(line'[j], ModeIn(line', j))
           /\ ElfIn(line', Len(line) + 1) <=> esp.elf
           /\ a.op = "elf" => (ElfIn(line', Len(line') + 1) <=> a.val)
           /\ a.op # "elf" => (ElfIn(line', Len(line') + 1) <=> esp.elf)
           /\ ModeIn(line', Len(line) + 1) = parm.mode
           /\ ModeIn(line', Len(line') + 1) =
                 IF a.op \in {"mode", "combine"} THEN a.val ELSE parm.mode
           /\ apart = {} => GivenIn(line', Len(line)+ 1) = parm.address
           /\ apart = {} => GivenIn(line', Len(line') + 1) =
                 IF a.op = "address" THEN a.val
                 ELSE IF Wants(a, parm.mode) THEN NoAddress ELSE parm.address
  <1>1. /\ pc = "args" /\ line' = Append(line, a) /\ line \in Seq(Args)
        /\ apart \subseteq 1 .. Len(line)
    BY DEF Take, SessionInv, Typed
  <1>2. /\ line' \in Seq(Args) /\ Len(line) \in Nat
        /\ Len(line') = Len(line) + 1 /\ line'[Len(line) + 1] = a
        /\ \A k \in 1 .. Len(line) : line'[k] = line[k]
    BY <1>1, LenProperties, AppendProperties
  <1>3. /\ \A j \in 1 .. Len(line) + 1 :
              ModeIn(line', j) = ModeIn(line, j) /\ GivenIn(line', j) = GivenIn(line, j)
        /\ ModeIn(line', Len(line') + 1) =
              IF a.op \in {"mode", "combine"} THEN a.val
              ELSE ModeIn(line, Len(line) + 1)
        /\ GivenIn(line', Len(line') + 1) =
              IF a.op = "address" THEN a.val
              ELSE IF Wants(a, ModeIn(line, Len(line) + 1)) THEN NoAddress
              ELSE GivenIn(line, Len(line) + 1)
    BY <1>1, LineExtends
  <1>4. /\ parm.mode = ModeIn(line, Len(line) + 1)
        /\ apart = {} => parm.address = GivenIn(line, Len(line) + 1)
        /\ esp.elf <=> ElfIn(line, Len(line) + 1)
    BY <1>1 DEF SessionInv, Kept
  <1>5. \A i \in 1 .. Len(done) :
           done[i].arg \in 1 .. Len(line) /\ done[i].arg < Len(line')
    BY <1>2 DEF SessionInv, InOrder
  <1>6. \A j \in 1 .. Len(line) : j \in 1 .. Len(line) + 1
    BY <1>2
  <1>7. \A i \in 1 .. Len(done) : Placed(line, done[i]) => Placed(line', done[i])
    <2> SUFFICES ASSUME NEW i \in 1 .. Len(done), Placed(line, done[i])
                 PROVE  Placed(line', done[i])
      OBVIOUS
    <2> DEFINE k == done[i].arg
    <2>1. k \in 1 .. Len(line)
      BY <1>5
    <2>2. /\ line'[k] = line[k] /\ ModeIn(line', k) = ModeIn(line, k)
          /\ GivenIn(line', k) = GivenIn(line, k)
          /\ ElfIn(line', k) <=> ElfIn(line, k)
      BY <1>1, <1>2, <1>3, <1>6, <2>1, ElfExtends
    <2> QED
      BY <2>2 DEF Placed, Asked
  <1>8. \A j \in 1 .. Len(line) :
           AsksFor(line'[j], ModeIn(line', j)) =>
               j \in apart \/ \E i \in 1 .. Len(done) : done[i].arg = j
    BY <1>1, <1>2, <1>3, <1>6 DEF SessionInv, Served
  <1>9. /\ ModeIn(line', Len(line) + 1) = parm.mode
        /\ apart = {} => GivenIn(line', Len(line)+ 1) = parm.address
    BY <1>2, <1>3, <1>4
  <1>10. \A j \in apart : ForDevice(line'[j], ModeIn(line', j))
    <2>1. \A j \in apart : ForDevice(line[j], ModeIn(line, j))
      BY DEF SessionInv, Served
    <2> QED
      BY <1>1, <1>2, <1>3, <1>6, <2>1
  <1>11. /\ ElfIn(line', Len(line) + 1) <=> esp.elf
         /\ a.op = "elf" => (ElfIn(line', Len(line') + 1) <=> a.val)
         /\ a.op # "elf" => (ElfIn(line', Len(line') + 1) <=> esp.elf)
    <2>1. Len(line) + 1 \in 1 .. Len(line) + 1
      BY <1>2
    <2> QED
      BY <1>1, <1>4, <2>1, ElfExtends
  <1> QED
    BY <1>1, <1>2, <1>3, <1>4, <1>5, <1>7, <1>8, <1>9, <1>10, <1>11 DEF AllPlaced

\* The operation e is the one on files alone that the argument a, taken next,
\* asks for.
Fits(e, a) ==
    /\ e.arg = Len(line) + 1
    /\ e.op \in {"combine", "extract", "extractOnly", "info", "section"}
    /\ e.op \in AddressOps =>
          e.addr = OrZero(IF parm.address = NoAddress THEN InName(a.val)
                          ELSE parm.address)
    /\ e.op \in ElfOps => esp.elf
    /\ a.op = "file" =>
          e.op = IF parm.mode = "append" THEN "combine" ELSE parm.mode

\* An argument that is dealt with at once: an option, or an operation on files
\* alone, which may add to done.
LEMMA ArgumentKeeps ==
    ASSUME SessionInv, NEW a \in Args, Take(a), pc' \in {"args", "exited"},
           UNCHANGED <<device, apart>>, parm' \in Parms, esp' \in Esps,
           esp'.open = esp.open, esp'.connected = esp.connected,
           ~ForDevice(a, parm.mode),
           esp'.elf <=> IF a.op = "elf" THEN a.val ELSE esp.elf,
           parm'.mode = IF a.op \in {"mode", "combine"} THEN a.val ELSE parm.mode,
           pc' = "args" =>
               parm'.address = IF a.op = "address" THEN a.val
                               ELSE IF Wants(a, parm.mode) THEN NoAddress
                               ELSE parm.address,
           pc' = "args" /\ parm'.mode \in CombineModes => parm'.combine # "closed",
           \/ /\ done' = done
              /\ pc' = "args" => a.op \notin {"file", "extract", "extractOnly"}
           \/ \E e \in Entries : done' = Append(done, e) /\ Fits(e, a)
    PROVE  SessionInv'
  <1> DEFINE n == Len(line)
  <1>1. /\ pc = "args" /\ line' \in Seq(Args) /\ n \in Nat /\ Len(line') = n + 1
        /\ line'[n + 1] = a
        /\ apart \subseteq 1 .. Len(line')
        /\ \A i \in 1 .. Len(done) : done[i].arg \in 1 .. n /\ done[i].arg < Len(line')
        /\ apart = {} => \A i \in 1 .. Len(done) : Placed(line', done[i])
        /\ \A j \in 1 .. n :
              AsksFor(line'[j], ModeIn(line', j)) =>
                  j \in apart \/ \E i \in 1 .. Len(done) : done[i].arg = j
        /\ \A j \in apart : ForDevice(line'[j], ModeIn(line', j))
        /\ ModeIn(line', n + 1) = parm.mode
        /\ ElfIn(line', n + 1) <=> esp.elf
        /\ apart = {} => GivenIn(line', n + 1) = parm.address
    BY TakeStep DEF SessionInv
  <1>2. /\ ModeIn(line', Len(line') + 1) = parm'.mode
        /\ apart = {} /\ pc' = "args" =>
              GivenIn(line', Len(line') + 1) = parm'.address
        /\ ElfIn(line', Len(line') + 1) <=> esp'.elf
    BY TakeStep
  <1>3. /\ Len(done) \in Nat /\ done \in Seq(Entries)
        /\ done' \in Seq(Entries) /\ Len(done') \in {Len(done), Len(done) + 1}
        /\ \A i \in 1 .. Len(done) : done'[i] = done[i]
        /\ Len(done') = Len(done) + 1 => Fits(done'[Len(done) + 1], a)
        /\ Len(done') = Len(done) /\ pc' = "args" =>
              a.op \notin {"file", "extract", "extractOnly"}
    <2>1. done \in Seq(Entries) /\ Len(done) \in Nat
      BY LenProperties DEF SessionInv, Typed
    <2>2. CASE /\ done' = done
               /\ pc' = "args" => a.op \notin {"file", "extract", "extractOnly"}
      BY <2>1, <2>2
    <2>3. CASE \E e \in Entries : done' = Append(done, e) /\ Fits(e, a)
      <3>1. PICK e \in Entries : done' = Append(done, e) /\ Fits(e, a)
        BY <2>3
      <3>2. /\ done' \in Seq(Entries) /\ Len(done') = Len(done) + 1
            /\ \A i \in 1 .. Len(done) : done'[i] = done[i]
            /\ done'[Len(done) + 1] = e
        BY <2>1, <3>1, AppendProperties
      <3> QED
        BY <2>1, <3>1, <3>2
    <2> QED
      BY <2>2, <2>3
  <1>4. \A i \in 1 .. Len(done') :
           \/ i \in 1 .. Len(done)
           \/ i = Len(done) + 1 /\ Len(done') = Len(done) + 1
    BY <1>3
  <1>added. Len(done') = Len(done) + 1 => done'[Len(done) + 1].arg = n + 1
    BY <1>3 DEF Fits
  <1> HIDE DEF n
  <1>5. Typed'
    BY <1>1, <1>3 DEF SessionInv, Typed
  <1>6. Prepared'
    BY <1>1 DEF SessionInv, Prepared, Busy
  <1>7. Kept'
    BY <1>2 DEF Kept, Busy
  <1>8. InOrder'
    <2>1. \A i \in 1 .. Len(done') : done'[i].arg \in 1 .. Len(line')
      BY <1>1, <1>3, <1>4, <1>added
    <2>2. \A i, k \in 1 .. Len(done') : i < k => done'[i].arg < done'[k].arg
      <3> SUFFICES ASSUME NEW i \in 1 .. Len(done'), NEW k \in 1 .. Len(done'), i < k
                   PROVE  done'[i].arg < done'[k].arg
        OBVIOUS
      <3>1. i \in 1 .. Len(done)
        BY <1>3, <1>4
      <3>2. CASE k \in 1 .. Len(done)
        BY <1>3, <3>1, <3>2 DEF SessionInv, InOrder
      <3>3. CASE k = Len(done) + 1 /\ Len(done') = Len(done) + 1
        BY <1>1, <1>3, <1>added, <3>1, <3>3
      <3> QED
        BY <1>4, <3>2, <3>3
    <2> QED
      BY <2>1, <2>2 DEF InOrder, Busy
  <1>9. Served'
    <2> SUFFICES ASSUME NEW j \in 1 .. Len(line'),
                        AsksFor(line'[j], ModeIn(line', j)),
                        ~(j = Len(line') /\ pc' = "exited")
                 PROVE  j \in apart' \/ \E i \in 1 .. Len(done') : done'[i].arg = j
      BY <1>1 DEF Served
    <2>1. j \in 1 .. n \/ j = n + 1
      BY <1>1
    <2>2. CASE j \in 1 .. n
      <3>1. j \in apart \/ \E i \in 1 .. Len(done) : done[i].arg = j
        BY <1>1, <2>2
      <3>2. \A i \in 1 .. Len(done) : i \in 1 .. Len(done')
        BY <1>3
      <3> QED
        BY <1>3, <3>1, <3>2
    <2>3. CASE j = n + 1
      <3>1. a.op \in {"file", "extract", "extractOnly"} /\ pc' = "args"
        BY <1>1, <2>3 DEF AsksFor
      <3>2. Len(done') = Len(done) + 1 /\ Len(done') \in 1 .. Len(done')
        BY <1>3, <3>1
      <3> QED
        BY <1>added, <2>3, <3>2
    <2> QED
      BY <2>1, <2>2, <2>3
  <1>10. AllPlaced'
    <2> SUFFICES ASSUME apart = {}, NEW i \in 1 .. Len(done')
                 PROVE  Placed(line', done'[i])
      BY DEF AllPlaced
    <2>1. CASE i \in 1 .. Len(done)
      BY <1>1, <1>3, <2>1
    <2>2. CASE i = Len(done) + 1 /\ Len(done') = Len(done) + 1
      <3> DEFINE e == done'[i]
      <3>1. Fits(e, a) /\ e.arg = n + 1
        BY <1>3, <1>added, <2>2
      <3> HIDE DEF e
      <3>2. e.op \in AddressOps => e.addr = Asked(line', e)
        BY <1>1, <3>1 DEF Asked, Fits, AddressOps
      <3>3. a.op = "file" => e.op = IF parm.mode = "append" THEN "combine"
                                    ELSE parm.mode
        BY <3>1 DEF Fits
      <3>4. e.op \in ElfOps => ElfIn(line', e.arg)
        BY <1>1, <3>1 DEF Fits
      <3> QED
        BY <1>1, <3>1, <3>2, <3>3, <3>4 DEF Placed, e
    <2> QED
      BY <1>4, <2>1, <2>2
  <1>11. LoaderKept' /\ Started'
    <2>1. Started'
      BY DEF Started, Finished
    <2>2. LoaderKept'
      <3> SUFFICES ASSUME esp'.connected, pc' = "args",
                          \A i \in 1 .. Len(done') :
                              done'[i].op \notin {"read", "eraseAll"}
                   PROVE  device' = "loader"
        BY DEF LoaderKept
      <3>1. \A i \in 1 .. Len(done) : i \in 1 .. Len(done')
        BY <1>3
      <3>2. \A i \in 1 .. Len(done) : done[i].op \notin {"read", "eraseAll"}
        BY <1>3, <3>1
      <3> QED
        BY <1>1, <3>2 DEF SessionInv, LoaderKept
    <2> QED
      BY <2>1, <2>2
  <1> QED
    BY <1>5, <1>6, <1>7, <1>8, <1>9, <1>10, <1>11 DEF SessionInv

-----------------------------------------------------------------------------
(* Arguments that are dealt with at once *)

LEMMA OptionsKeep ==
    ASSUME SessionInv, Options
    PROVE  SessionInv'
  <1>1. /\ parm \in Parms /\ esp \in Esps
        /\ pc = "args" /\ parm.mode \in CombineModes => parm.combine # "closed"
    BY DEF SessionInv, Typed, Prepared
  <1>2. ASSUME NEW a \in Addresses, SetAddress(a)
        PROVE  SessionInv'
    <2> DEFINE g == Arg("address", a)
    <2>1. g \in Args /\ g.op = "address" /\ g.val = a
      BY DEF Args, Arg
    <2>2. /\ Take(g) /\ pc = "args" /\ parm' = [parm EXCEPT !.address = a]
          /\ UNCHANGED <<esp, device, pc, apart, done>>
      BY <1>2 DEF SetAddress, Take
    <2> HIDE DEF g
    <2>3. /\ parm' \in Parms /\ parm'.mode = parm.mode
          /\ parm'.address = a /\ parm'.combine = parm.combine
      BY <1>1, <2>2 DEF Parms
    <2> QED
      BY <1>1, <2>1, <2>2, <2>3, ArgumentKeeps DEF ForDevice
  <1>3. ASSUME NEW m \in Modes \ CombineModes, SetMode(m)
        PROVE  SessionInv'
    <2> DEFINE g == Arg("mode", m)
    <2>1. g \in Args /\ g.op = "mode" /\ g.val = m
      BY DEF Args, Arg
    <2>2. /\ Take(g) /\ pc = "args" /\ parm' = [parm EXCEPT !.mode = m]
          /\ UNCHANGED <<esp, device, pc, apart, done>>
      BY <1>3 DEF SetMode, Take
    <2> HIDE DEF g
    <2>3. /\ parm' \in Parms /\ parm'.mode = m
          /\ parm'.address = parm.address /\ m \notin CombineModes
      BY <1>1, <2>2 DEF Parms
    <2> QED
      BY <1>1, <2>1, <2>2, <2>3, ArgumentKeeps DEF ForDevice, Wants
  <1>4. ASSUME NEW m \in CombineModes, OpenCombined(m)
        PROVE  SessionInv'
    <2> DEFINE g == Arg("combine", m)
    <2>1. g \in Args /\ g.op = "combine" /\ g.val = m
      BY DEF Args, Arg
    <2>2. PICK size \in {"empty", "filled"} :
              parm' = [parm EXCEPT !.mode = m, !.combine = size]
      BY <1>4 DEF OpenCombined
    <2>3. /\ Take(g) /\ pc = "args" /\ UNCHANGED <<esp, device, pc, apart, done>>
      BY <1>4 DEF OpenCombined, Take
    <2> HIDE DEF g
    <2>4. /\ parm' \in Parms /\ parm'.mode = m /\ parm'.combine # "closed"
          /\ parm'.address = parm.address
      BY <1>1, <2>2 DEF Parms, Modes
    <2> QED
      BY <1>1, <2>1, <2>3, <2>4, ArgumentKeeps DEF ForDevice, Wants
  <1>5. ASSUME NEW b \in BOOLEAN, SetReset(b)
        PROVE  SessionInv'
    <2> DEFINE g == Arg("reset", b)
    <2>1. g \in Args /\ g.op = "reset"
      BY DEF Args, Arg
    <2>2. /\ Take(g) /\ pc = "args" /\ parm' = [parm EXCEPT !.reset = b]
          /\ UNCHANGED <<esp, device, pc, apart, done>>
      BY <1>5 DEF SetReset, Take
    <2> HIDE DEF g
    <2>3. /\ parm' \in Parms /\ parm'.mode = parm.mode
          /\ parm'.address = parm.address /\ parm'.combine = parm.combine
      BY <1>1, <2>2 DEF Parms
    <2> QED
      BY <1>1, <2>1, <2>2, <2>3, ArgumentKeeps DEF ForDevice, Wants
  <1>6. ASSUME NEW b \in BOOLEAN, SetRun(b)
        PROVE  SessionInv'
    <2> DEFINE g == Arg("run", b)
    <2>1. g \in Args /\ g.op = "run"
      BY DEF Args, Arg
    <2>2. /\ Take(g) /\ pc = "args" /\ esp' = [esp EXCEPT !.autoRun = b]
          /\ UNCHANGED <<parm, device, pc, apart, done>>
      BY <1>6 DEF SetRun, Take
    <2> HIDE DEF g
    <2>3. /\ esp' \in Esps /\ esp'.open = esp.open
          /\ esp'.connected = esp.connected /\ esp'.elf = esp.elf
      BY <1>1, <2>2 DEF Esps
    <2> QED
      BY <1>1, <2>1, <2>2, <2>3, ArgumentKeeps DEF ForDevice, Wants
  <1>7. CASE SetSize
    <2> DEFINE g == Arg("size", NoAddress)
    <2>1. g \in Args /\ g.op = "size"
      BY DEF Args, Arg
    <2>2. /\ Take(g) /\ pc = "args" /\ parm' = [parm EXCEPT !.size = 1]
          /\ UNCHANGED <<esp, device, pc, apart, done>>
      BY <1>7 DEF SetSize, Take
    <2> HIDE DEF g
    <2>3. /\ parm' \in Parms /\ parm'.mode = parm.mode
          /\ parm'.address = parm.address /\ parm'.combine = parm.combine
      BY <1>1, <2>2 DEF Parms
    <2> QED
      BY <1>1, <2>1, <2>2, <2>3, ArgumentKeeps DEF ForDevice, Wants
  <1>8. CASE SetMonitor
    <2> DEFINE g == Arg("monitor", NoAddress)
    <2>1. g \in Args /\ g.op = "monitor"
      BY DEF Args, Arg
    <2>2. /\ Take(g) /\ pc = "args" /\ parm' = [parm EXCEPT !.term = TRUE]
          /\ UNCHANGED <<esp, device, pc, apart, done>>
      BY <1>8 DEF SetMonitor, Take
    <2> HIDE DEF g
    <2>3. /\ parm' \in Parms /\ parm'.mode = parm.mode
          /\ parm'.address = parm.address /\ parm'.combine = parm.combine
      BY <1>1, <2>2 DEF Parms
    <2> QED
      BY <1>1, <2>1, <2>2, <2>3, ArgumentKeeps DEF ForDevice, Wants
  <1>9. ASSUME NEW b \in BOOLEAN, OpenElf(b)
        PROVE  SessionInv'
    <2> DEFINE g == Arg("elf", b)
    <2>1. g \in Args /\ g.op = "elf" /\ g.val = b
      BY DEF Args, Arg
    <2>2. /\ Take(g) /\ pc = "args" /\ esp' = [esp EXCEPT !.elf = b]
          /\ UNCHANGED <<parm, device, pc, apart, done>>
      BY <1>9 DEF OpenElf, Take
    <2> HIDE DEF g
    <2>3. /\ esp' \in Esps /\ esp'.open = esp.open
          /\ esp'.connected = esp.connected /\ (esp'.elf <=> b)
      BY <1>1, <2>2 DEF Esps
    <2> QED
      BY <1>1, <2>1, <2>2, <2>3, ArgumentKeeps DEF ForDevice, Wants
  <1>10. CASE Refused
    <2> DEFINE g == Arg("wrong", NoAddress)
    <2>1. g \in Args /\ g.op = "wrong"
      BY DEF Args, Arg
    <2>2. /\ Take(g) /\ pc' = "exited" /\ UNCHANGED <<parm, esp, device, apart, done>>
      BY <1>10 DEF Refused
    <2> HIDE DEF g
    <2> QED
      BY <1>1, <2>1, <2>2, ArgumentKeeps DEF ForDevice
  <1> QED
    BY <1>2, <1>3, <1>4, <1>5, <1>6, <1>7, <1>8, <1>9, <1>10 DEF Options

\* An operation on files alone that was called, as it is logged.
LEMMA LogsWhatFits ==
    ASSUME SessionInv, NEW a \in Args, NEW addr, NEW op, LogNext(op, addr),
           op \in {"combine", "extract", "extractOnly", "info", "section"},
           op \in AddressOps =>
               /\ a.val \in Names
               /\ addr = OrZero(IF parm.address = NoAddress THEN InName(a.val)
                                ELSE parm.address),
           op \notin AddressOps => addr = NoAddress,
           op \in ElfOps => esp.elf,
           a.op = "file" =>
               op = IF parm.mode = "append" THEN "combine" ELSE parm.mode
    PROVE  \E e \in Entries : done' = Append(done, e) /\ Fits(e, a)
  <1> DEFINE e == [arg |-> Len(line) + 1, op |-> op, addr |-> addr, size |-> 0]
  <1>1. Len(line) \in Nat /\ parm.address \in Addresses \cup {NoAddress}
    BY LenProperties DEF SessionInv, Typed, Parms
  <1>2. op \in Ops
    BY DEF Ops, AddressOps, ElfOps
  <1>3. addr \in Addresses \cup {n.addr : n \in Names} \cup {0, NoAddress}
    <2>1. CASE op \in AddressOps
      <3>1. InName(a.val) \in {n.addr : n \in Names} \cup {NoAddress}
        BY <2>1 DEF InName
      <3> QED
        BY <1>1, <2>1, <3>1 DEF OrZero
    <2> QED
      BY <2>1
  <1>4. e \in Entries
    BY <1>1, <1>2, <1>3 DEF Entries
  <1>5. Fits(e, a)
    BY DEF Fits
  <1> QED
    BY <1>4, <1>5 DEF LogNext

LEMMA FilesKeep ==
    ASSUME SessionInv, NEW n \in Names,
           CombineFile(n) \/ InspectFile(n) \/ Extract(n)
    PROVE  SessionInv'
  <1> DEFINE file == Arg("file", n)
             extract == Arg("extract", n)
  <1>1. /\ parm \in Parms /\ esp \in Esps
        /\ pc = "args" /\ parm.mode \in CombineModes => parm.combine # "closed"
        /\ parm.combine \in {"closed", "empty", "filled"}
    BY DEF SessionInv, Typed, Prepared, Parms
  <1>2. /\ file \in Args /\ file.op = "file" /\ file.val = n
        /\ extract \in Args /\ extract.op = "extract" /\ extract.val = n
    BY DEF Args, Arg
  <1> HIDE DEF file, extract
  <1>3. CASE CombineFile(n)
    <2>1. /\ parm.mode \in CombineModes /\ Take(file) /\ pc = "args"
          /\ UNCHANGED <<esp, device, apart>>
      BY <1>3 DEF CombineFile, Take, file
    <2>2. ~ForDevice(file, parm.mode) /\ Wants(file, parm.mode)
      BY <1>2, <2>1 DEF ForDevice, Wants, CombineModes, DeviceModes
    <2>3. CASE pc' = "exited" /\ UNCHANGED <<parm, done>>
      BY <1>1, <1>2, <2>1, <2>2, <2>3, ArgumentKeeps
    <2>4. CASE pc' # "exited"
      <3>1. /\ \E size \in {parm.combine, "filled"} :
                  parm' = [parm EXCEPT !.address = NoAddress, !.combine = size]
            /\ LogNext("combine", OrZero(TargetOf(n)))
            /\ pc' = pc
        BY <1>3, <2>4 DEF CombineFile
      <3>2. PICK size \in {parm.combine, "filled"} :
                parm' = [parm EXCEPT !.address = NoAddress, !.combine = size]
        BY <3>1
      <3>3. /\ parm' \in Parms /\ parm'.mode = parm.mode
            /\ parm'.address = NoAddress /\ parm'.combine # "closed"
        BY <1>1, <2>1, <3>2 DEF Parms
      <3>4. \E e \in Entries : done' = Append(done, e) /\ Fits(e, file)
        BY <1>2, <2>1, <3>1, LogsWhatFits
        DEF TargetOf, AddressOps, ElfOps, CombineModes
      <3> QED
        BY <1>1, <1>2, <2>1, <2>2, <3>1, <3>3, <3>4, ArgumentKeeps
    <2>5. pc' = "exited" => UNCHANGED <<parm, done>>
      BY <1>3, <2>1 DEF CombineFile
    <2> QED
      BY <2>3, <2>4, <2>5
  <1>4. CASE InspectFile(n)
    <2>1. /\ parm.mode \in {"info", "section"} /\ Take(file) /\ pc = "args"
          /\ UNCHANGED <<parm, esp, device, apart>>
      BY <1>4 DEF InspectFile, Take, file
    <2>2. ~ForDevice(file, parm.mode) /\ ~Wants(file, parm.mode)
      BY <1>2, <2>1 DEF ForDevice, Wants, CombineModes, DeviceModes
    <2>3. CASE pc' = "exited" /\ done' = done
      BY <1>1, <1>2, <2>1, <2>2, <2>3, ArgumentKeeps
    <2>4. CASE /\ parm.mode = "info" \/ esp.elf
               /\ LogNext(parm.mode, NoAddress) /\ pc' = pc
      <3>1. \E e \in Entries : done' = Append(done, e) /\ Fits(e, file)
        BY <1>2, <2>1, <2>4, LogsWhatFits DEF AddressOps, ElfOps
      <3> QED
        BY <1>1, <1>2, <2>1, <2>2, <2>4, <3>1, ArgumentKeeps
    <2> QED
      BY <1>4, <2>3, <2>4 DEF InspectFile
  <1>5. CASE Extract(n)
    <2>1. /\ Take(extract) /\ pc = "args" /\ UNCHANGED <<esp, device, apart>>
      BY <1>5 DEF Extract, Take, extract
    <2>2. ~ForDevice(extract, parm.mode) /\ Wants(extract, parm.mode)
      BY <1>2 DEF ForDevice, Wants
    <2>3. CASE pc' = "exited" /\ UNCHANGED <<parm, done>>
      BY <1>1, <1>2, <2>1, <2>2, <2>3, ArgumentKeeps
    <2>4. CASE /\ esp.elf /\ parm.combine # "closed"
               /\ \E size \in {parm.combine, "filled"} :
                     parm' = [parm EXCEPT !.address = NoAddress, !.combine = size]
               /\ LogNext("extract", OrZero(TargetOf(n)))
               /\ pc' = pc
      <3>1. PICK size \in {parm.combine, "filled"} :
                parm' = [parm EXCEPT !.address = NoAddress, !.combine = size]
        BY <2>4
      <3>2. /\ parm' \in Parms /\ parm'.mode = parm.mode
            /\ parm'.address = NoAddress /\ parm'.combine # "closed"
        BY <1>1, <2>4, <3>1 DEF Parms
      <3>3. \E e \in Entries : done' = Append(done, e) /\ Fits(e, extract)
        BY <1>2, <2>4, LogsWhatFits DEF TargetOf, AddressOps, ElfOps
      <3> QED
        BY <1>1, <1>2, <2>1, <2>2, <2>4, <3>2, <3>3, ArgumentKeeps
    <2> QED
      BY <1>5, <2>3, <2>4 DEF Extract
  <1> QED
    BY <1>3, <1>4, <1>5

LEMMA ExtractOnlyKeeps ==
    ASSUME SessionInv, ExtractOnly
    PROVE  SessionInv'
  <1> DEFINE g == Arg("extractOnly", NoAddress)
  <1>1. /\ parm \in Parms /\ esp \in Esps
        /\ pc = "args" /\ parm.mode \in CombineModes => parm.combine # "closed"
    BY DEF SessionInv, Typed, Prepared
  <1>2. g \in Args /\ g.op = "extractOnly"
    BY DEF Args, Arg
  <1>3. /\ Take(g) /\ pc = "args" /\ UNCHANGED <<esp, device, apart>>
    BY DEF ExtractOnly, Take
  <1> HIDE DEF g
  <1>4. ~ForDevice(g, parm.mode) /\ ~Wants(g, parm.mode)
    BY <1>2 DEF ForDevice, Wants
  <1>5. CASE pc' = "exited" /\ UNCHANGED <<parm, done>>
    BY <1>1, <1>2, <1>3, <1>4, <1>5, ArgumentKeeps
  <1>6. CASE /\ esp.elf
             /\ \E size \in {parm.combine} \cup
                             (IF parm.combine = "closed" THEN {} ELSE {"filled"}) :
                   parm' = [parm EXCEPT !.combine = size]
             /\ LogNext("extractOnly", NoAddress)
             /\ pc' = pc
    <2>1. PICK size \in {parm.combine} \cup
                        (IF parm.combine = "closed" THEN {} ELSE {"filled"}) :
              parm' = [parm EXCEPT !.combine = size]
      BY <1>6
    <2>2. size \in {"closed", "empty", "filled"}
          /\ (size = "closed" => parm.combine = "closed")
      BY <1>1, <2>1 DEF Parms
    <2>3. /\ parm' \in Parms /\ parm'.mode = parm.mode
          /\ parm'.address = parm.address
          /\ parm'.combine = "closed" => parm.combine = "closed"
      BY <1>1, <2>1, <2>2 DEF Parms
    <2>4. \E e \in Entries : done' = Append(done, e) /\ Fits(e, g)
      BY <1>2, <1>6, LogsWhatFits DEF AddressOps
    <2> QED
      BY <1>1, <1>2, <1>3, <1>4, <1>6, <2>3, <2>4, ArgumentKeeps
  <1> QED
    BY <1>5, <1>6 DEF ExtractOnly

-----------------------------------------------------------------------------
(* Operations on the device *)

\* The argument asks for an operation on the device, which begins or is
\* refused.
LEMMA BeginKeeps ==
    ASSUME SessionInv, NEW a \in Args, Take(a), ForDevice(a, parm.mode),
           pc' \in {"connect", "exited"}, UNCHANGED <<parm, esp, device, apart, done>>
    PROVE  SessionInv'
  <1> DEFINE n == Len(line)
  <1>1. /\ pc = "args" /\ line' \in Seq(Args) /\ n \in Nat /\ Len(line') = n + 1
        /\ line'[n + 1] = a
        /\ apart \subseteq 1 .. Len(line')
        /\ \A i \in 1 .. Len(done) : done[i].arg \in 1 .. n /\ done[i].arg < Len(line')
        /\ apart = {} => \A i \in 1 .. Len(done) : Placed(line', done[i])
        /\ \A j \in 1 .. n :
              AsksFor(line'[j], ModeIn(line', j)) =>
                  j \in apart \/ \E i \in 1 .. Len(done) : done[i].arg = j
        /\ \A j \in apart : ForDevice(line'[j], ModeIn(line', j))
        /\ ModeIn(line', n + 1) = parm.mode
        /\ ElfIn(line', n + 1) <=> esp.elf
        /\ apart = {} => GivenIn(line', n + 1) = parm.address
    BY TakeStep DEF SessionInv
  <1>2. /\ ModeIn(line', Len(line') + 1) = parm.mode
        /\ apart = {} => GivenIn(line', Len(line') + 1) =
              IF Wants(a, parm.mode) THEN NoAddress ELSE parm.address
        /\ ElfIn(line', Len(line') + 1) <=> esp.elf
    <2>1. a.op \notin {"mode", "combine", "address", "elf"}
      BY DEF ForDevice
    <2> QED
      BY <2>1, TakeStep
  <1>3. line' # <<>>
    BY <1>1, EmptySeq
  <1> HIDE DEF n
  <1>4. Typed'
    BY <1>1 DEF SessionInv, Typed
  <1>5. Prepared'
    BY <1>1, <1>3 DEF SessionInv, Prepared, Busy, Current
  <1>6. Kept'
    BY <1>1, <1>2 DEF Kept, Busy, Current
  <1>7. InOrder'
    <2>1. \A i \in 1 .. Len(done) : done[i].arg \in 1 .. Len(line')
      BY <1>1
    <2> QED
      BY <1>1, <2>1 DEF SessionInv, InOrder
  <1>8. Served'
    <2>1. \A j \in 1 .. Len(line') : j = Len(line') \/ j \in 1 .. n
      BY <1>1
    <2> QED
      BY <1>1, <2>1 DEF Served
  <1>9. AllPlaced'
    BY <1>1 DEF AllPlaced
  <1>10. LoaderKept' /\ Started'
    BY <1>1 DEF SessionInv, LoaderKept, Started, Finished
  <1> QED
    BY <1>4, <1>5, <1>6, <1>7, <1>8, <1>9, <1>10 DEF SessionInv

LEMMA BeginOperationKeeps ==
    ASSUME SessionInv, BeginOperation \/ \E t \in SizeTexts : BeginErase(t)
    PROVE  SessionInv'
  <1>1. ASSUME NEW op \in {"mac", "id", "eraseAll"}, Take(Arg(op, NoAddress)),
               BeginOperation
        PROVE  SessionInv'
    <2>1. Arg(op, NoAddress) \in Args /\ ForDevice(Arg(op, NoAddress), parm.mode)
      BY DEF Args, Arg, ForDevice
    <2> QED
      BY <1>1, <2>1, BeginKeeps DEF BeginOperation
  <1>2. ASSUME NEW a \in Names, parm.mode \in DeviceModes,
               Take(Arg("file", a)), BeginOperation
        PROVE  SessionInv'
    <2>1. Arg("file", a) \in Args /\ ForDevice(Arg("file", a), parm.mode)
      BY <1>2 DEF Args, Arg, ForDevice
    <2> QED
      BY <1>2, <2>1, BeginKeeps DEF BeginOperation
  <1>3. ASSUME NEW t \in SizeTexts, BeginErase(t)
        PROVE  SessionInv'
    <2>1. Arg("erasePart", t) \in Args /\ ForDevice(Arg("erasePart", t), parm.mode)
      BY DEF Args, Arg, ForDevice
    <2> QED
      BY <1>3, <2>1, BeginKeeps DEF BeginErase
  <1> QED
    BY <1>1, <1>2, <1>3 DEF BeginOperation

LEMMA OpenCommKeeps ==
    ASSUME SessionInv, OpenComm \/ StayConnected
    PROVE  SessionInv'
  <1>1. /\ pc = "connect" /\ pc' \in {"connect", "operate", "exited"}
        /\ UNCHANGED <<parm, device, line, apart, done>>
        /\ esp' \in {esp, [esp EXCEPT !.open = TRUE]}
        /\ esp \in Esps
        /\ pc' = "operate" => esp.connected
    BY DEF OpenComm, StayConnected, Exit, Connected, SessionInv, Typed
  <1>2. esp' \in Esps /\ esp'.connected = esp.connected
        /\ (esp.open => esp'.open) /\ esp'.elf = esp.elf
    BY <1>1 DEF Esps
  <1>3. Typed'
    BY <1>1, <1>2 DEF SessionInv, Typed
  <1>4. Prepared' /\ Kept'
    BY <1>1, <1>2 DEF SessionInv, Prepared, Kept, Busy, Current
  <1>5. AllPlaced' /\ InOrder' /\ Served' /\ LoaderKept' /\ Started'
    BY <1>1, <1>2
    DEF SessionInv, AllPlaced, InOrder, Served, LoaderKept, Started, Busy, Finished
  <1> QED
    BY <1>3, <1>4, <1>5 DEF SessionInv

LEMMA ConnectKeeps ==
    ASSUME SessionInv, Connect
    PROVE  SessionInv'
  <1>1. /\ pc = "connect" /\ esp.open /\ ~esp.connected /\ esp \in Esps
        /\ UNCHANGED <<parm, line, done>> /\ device' = AfterReset(FALSE)
    BY DEF Connect, SessionInv, Typed
  <1>2. device' \in {"loader", "application", "program", "absent"}
    BY <1>1 DEF AfterReset, SessionInv, Typed
  <1>3. line # <<>> /\ Len(line) \in 1 .. Len(line)
    <2>1. line # <<>> /\ line \in Seq(Args)
      BY <1>1 DEF SessionInv, Prepared, Typed, Busy
    <2>2. Len(line) \in Nat \ {0}
      BY <2>1, EmptySeq
    <2> QED
      BY <2>1, <2>2
  <1>4. CASE /\ device' = "loader" /\ esp' = [esp EXCEPT !.connected = TRUE]
             /\ pc' = "operate" /\ apart' = apart
    <2>1. esp' \in Esps /\ esp'.connected /\ esp'.open /\ esp'.elf = esp.elf
      BY <1>1, <1>4 DEF Esps
    <2>2. Typed'
      BY <1>1, <1>2, <1>4, <2>1 DEF SessionInv, Typed
    <2>3. Prepared' /\ Kept'
      BY <1>1, <1>4, <2>1 DEF SessionInv, Prepared, Kept, Busy, Current
    <2>4. AllPlaced' /\ InOrder' /\ Served' /\ LoaderKept' /\ Started'
      BY <1>1, <1>4
      DEF SessionInv, AllPlaced, InOrder, Served, LoaderKept, Started, Busy, Finished
    <2> QED
      BY <2>2, <2>3, <2>4 DEF SessionInv
  <1>5. CASE /\ pc' = "args" /\ apart' = apart \cup {Len(line)} /\ esp' = esp
    <2>1. Typed'
      BY <1>1, <1>2, <1>3, <1>5 DEF SessionInv, Typed
    <2>2. Prepared' /\ Kept'
      BY <1>1, <1>5 DEF SessionInv, Prepared, Kept, Busy
    <2>3. AllPlaced' /\ InOrder' /\ LoaderKept' /\ Started'
      BY <1>1, <1>5
      DEF SessionInv, AllPlaced, InOrder, LoaderKept, Started, Busy, Finished
    <2>4. ForDevice(line[Len(line)], ModeIn(line, Len(line)))
      BY <1>1 DEF SessionInv, Prepared, Kept, Busy, Current
    <2>5. Served'
      BY <1>1, <1>5, <2>4 DEF SessionInv, Served
    <2> QED
      BY <2>1, <2>2, <2>3, <2>5 DEF SessionInv
  <1> QED
    BY <1>4, <1>5 DEF Connect, Connected

LEMMA FailKeeps ==
    ASSUME SessionInv, Fail
    PROVE  SessionInv'
  <1>1. /\ pc = "operate" /\ pc' = "exited"
        /\ UNCHANGED <<parm, esp, line, apart, done>>
        /\ device' \in {device, "program"}
    BY DEF Fail, Exit
  <1>2. Typed'
    BY <1>1 DEF SessionInv, Typed
  <1>3. Prepared' /\ Kept'
    BY <1>1 DEF SessionInv, Prepared, Kept, Busy
  <1>4. AllPlaced' /\ InOrder' /\ Served' /\ LoaderKept' /\ Started'
    BY <1>1
    DEF SessionInv, AllPlaced, InOrder, Served, LoaderKept, Started, Busy, Finished
  <1> QED
    BY <1>2, <1>3, <1>4 DEF SessionInv

\* An operation is completed.
LEMMA CompletedKeeps ==
    ASSUME SessionInv, pc = "operate", pc' = "args", UNCHANGED <<esp, line, apart>>,
           parm' \in Parms, parm'.mode = parm.mode, parm'.combine = parm.combine,
           parm'.address = IF Wants(Current, parm.mode) THEN NoAddress
                           ELSE parm.address,
           NEW e \in Entries, done' = Append(done, e), e.arg = Len(line),
           e.op \in AddressOps =>
               e.addr = OrZero(IF parm.address # NoAddress THEN parm.address
                               ELSE IF e.op \in {"read", "dump"} THEN NoAddress
                               ELSE InName(Current.val)),
           e.op \notin ElfOps, Current.op = "file" => e.op = parm.mode,
           device = "loader", device' \in {"loader", "program"},
           device' = "program" => e.op \in {"read", "eraseAll"}
    PROVE  SessionInv'
  <1> DEFINE n == Len(line)
             d == Len(done)
  <1>1. /\ d \in Nat /\ done' \in Seq(Entries) /\ Len(done') = d + 1
        /\ done'[d + 1] = e /\ \A i \in 1 .. d : done'[i] = done[i]
    BY LenProperties, AppendProperties DEF SessionInv, Typed
  <1>2. n \in 1 .. n
    <2>1. line # <<>> /\ line \in Seq(Args)
      BY DEF SessionInv, Prepared, Typed, Busy
    <2>2. n \in Nat \ {0}
      BY <2>1, EmptySeq
    <2> QED
      BY <2>2
  <1>3. /\ \A i \in 1 .. d : done[i].arg \in 1 .. n /\ done[i].arg < n
        /\ \A i, k \in 1 .. d : i < k => done[i].arg < done[k].arg
    BY DEF SessionInv, InOrder, Busy
  <1>4. \A i \in 1 .. d + 1 : i \in 1 .. d \/ i = d + 1
    BY <1>1
  <1>5. /\ parm.mode = ModeIn(line, n) /\ parm.mode = ModeIn(line, n + 1)
        /\ apart = {} => /\ parm.address = GivenIn(line, n)
                         /\ parm'.address = GivenIn(line, n + 1)
        /\ esp.elf <=> ElfIn(line, n + 1)
    BY DEF SessionInv, Kept, Busy
  <1>6. /\ \A j \in 1 .. n : AsksFor(line[j], ModeIn(line, j)) =>
              \/ j = n \/ j \in apart \/ \E i \in 1 .. d : done[i].arg = j
        /\ \A j \in apart : ForDevice(line[j], ModeIn(line, j))
        /\ apart = {} => \A i \in 1 .. d : Placed(line, done[i])
        /\ ForDevice(line[n], parm.mode)
    BY DEF SessionInv, Served, AllPlaced, Prepared, Busy, Current
  <1>7. Current = line[n]
    BY DEF Current
  <1> HIDE DEF n, d
  <1>8. Typed'
    BY <1>1 DEF SessionInv, Typed
  <1>9. Prepared'
    BY DEF SessionInv, Prepared, Busy
  <1>10. Kept'
    BY <1>5 DEF Kept, Busy, n
  <1>11. InOrder'
    <2>1. \A i \in 1 .. d + 1 : done'[i].arg \in 1 .. n
      BY <1>1, <1>2, <1>3, <1>4 DEF n
    <2>2. \A i, k \in 1 .. d + 1 : i < k => done'[i].arg < done'[k].arg
      <3> SUFFICES ASSUME NEW i \in 1 .. d + 1, NEW k \in 1 .. d + 1, i < k
                   PROVE  done'[i].arg < done'[k].arg
        OBVIOUS
      <3>1. i \in 1 .. d
        BY <1>1, <1>4
      <3>2. CASE k \in 1 .. d
        BY <1>1, <1>3, <3>1, <3>2
      <3>3. CASE k = d + 1
        BY <1>1, <1>3, <3>1, <3>3 DEF n
      <3> QED
        BY <1>4, <3>2, <3>3
    <2> QED
      BY <1>1, <2>1, <2>2 DEF InOrder, Busy, n
  <1>12. Served'
    <2>1. \A i \in 1 .. d : i \in 1 .. d + 1
      BY <1>1
    <2>2. d + 1 \in 1 .. d + 1
      BY <1>1
    <2>3. \A j \in 1 .. n : AsksFor(line[j], ModeIn(line, j)) =>
              j \in apart \/ \E i \in 1 .. d + 1 : done'[i].arg = j
      BY <1>1, <1>6, <2>1, <2>2 DEF n
    <2> QED
      BY <1>1, <1>6, <2>3 DEF Served, n
  <1>13. AllPlaced'
    <2> SUFFICES ASSUME apart = {}, NEW i \in 1 .. d + 1
                 PROVE  Placed(line, done'[i])
      BY <1>1 DEF AllPlaced
    <2>1. CASE i \in 1 .. d
      BY <1>1, <1>6, <2>1
    <2>2. CASE i = d + 1
      <3>1. e.op \in AddressOps => e.addr = Asked(line, e)
        BY <1>5, <1>7 DEF Asked, n
      <3>2. line[n].op = "file" => parm.mode \in DeviceModes
        BY <1>6 DEF ForDevice
      <3>3. line[n].op = "file" =>
                e.op = IF ModeIn(line, n) = "append" THEN "combine" ELSE ModeIn(line, n)
        BY <1>5, <1>7, <3>2 DEF DeviceModes
      <3> QED
        BY <1>1, <2>2, <3>1, <3>3 DEF Placed, n
    <2> QED
      BY <1>4, <2>1, <2>2
  <1>14. LoaderKept' /\ Started'
    <2>1. d + 1 \in 1 .. d + 1
      BY <1>1
    <2>2. LoaderKept'
      BY <1>1, <2>1 DEF LoaderKept
    <2> QED
      BY <2>2 DEF Started, Finished
  <1> QED
    BY <1>8, <1>9, <1>10, <1>11, <1>12, <1>13, <1>14 DEF SessionInv

\* The arguments that carry a value an operation takes.
LEMMA ArgumentTyped ==
    ASSUME NEW a \in Args
    PROVE  /\ a.op = "file" => a.val \in Names
           /\ a.op = "erasePart" => a.val \in SizeTexts
  BY DEF Args, Arg

LEMMA OperationsKeep ==
    ASSUME SessionInv, Identify \/ EraseAll \/ ErasePart
    PROVE  SessionInv'
  <1>1. /\ pc = "operate" /\ pc' = "args" /\ device = "loader"
        /\ UNCHANGED <<esp, line, apart>> /\ parm' = parm
    BY DEF Identify, EraseAll, ErasePart, Operated
  <1>2. /\ parm \in Parms /\ Len(line) \in Nat /\ Current \in Args
        /\ parm.address \in Addresses \cup {NoAddress}
    <2>1. line # <<>> /\ line \in Seq(Args) /\ parm \in Parms
      BY <1>1 DEF SessionInv, Prepared, Typed, Busy
    <2>2. Len(line) \in Nat /\ Len(line) \in 1 .. Len(line)
      <3>1. Len(line) \in Nat \ {0}
        BY <2>1, EmptySeq
      <3> QED
        BY <3>1
    <2> QED
      BY <2>1, <2>2, ElementOfSeq DEF Current, Parms
  <1>3. CASE Identify
    <2>1. PICK op \in {"mac", "id"} :
              /\ Operated(op) /\ Log(op, NoAddress, 0) /\ UNCHANGED <<parm, device>>
      BY <1>3 DEF Identify
    <2> DEFINE e == Entry(op, NoAddress, 0)
    <2>2. e \in Entries /\ e.arg = Len(line) /\ e.op = op /\ done' = Append(done, e)
      BY <1>2, <2>1 DEF Entry, Entries, Ops, Log
    <2> HIDE DEF e
    <2>3. Current.op \in {"mac", "id"} /\ op \notin AddressOps \cup ElfOps
      BY <2>1 DEF Operated, AddressOps, ElfOps
    <2> QED
      BY <1>1, <1>2, <2>1, <2>2, <2>3, CompletedKeeps DEF Wants
  <1>4. CASE EraseAll
    <2> DEFINE e == Entry("eraseAll", NoAddress, 0)
    <2>1. /\ e \in Entries /\ e.arg = Len(line) /\ e.op = "eraseAll"
          /\ done' = Append(done, e)
      BY <1>2, <1>4 DEF Entry, Entries, Ops, Log, EraseAll
    <2> HIDE DEF e
    <2>2. Current.op = "eraseAll" /\ device' = "program" /\ "eraseAll" \notin AddressOps \cup ElfOps
      BY <1>4 DEF Operated, EraseAll, AfterFlashErase, AddressOps, ElfOps
    <2> QED
      BY <1>1, <1>2, <2>1, <2>2, CompletedKeeps DEF Wants
  <1>5. CASE ErasePart
    <2> DEFINE e == Entry("erasePart", parm.address, SizeGiven(Current.val))
    <2>1. Current.op = "erasePart" /\ device' = device /\ "erasePart" \notin AddressOps \cup ElfOps
      BY <1>5 DEF Operated, ErasePart, AddressOps, ElfOps
    <2>2. /\ e \in Entries /\ e.arg = Len(line) /\ e.op = "erasePart"
          /\ done' = Append(done, e)
      <3>1. SizeGiven(Current.val) \in {SizeGiven(t) : t \in SizeTexts}
        BY <1>2, <2>1, ArgumentTyped
      <3>2. e \in Entries /\ e.arg = Len(line) /\ e.op = "erasePart"
        BY <1>2, <3>1 DEF Entry, Entries, Ops
      <3> QED
        BY <1>5, <3>2 DEF Log, ErasePart
    <2> HIDE DEF e
    <2> QED
      BY <1>1, <1>2, <2>1, <2>2, CompletedKeeps DEF Wants
  <1> QED
    BY <1>3, <1>4, <1>5

LEMMA TransfersKeep ==
    ASSUME SessionInv, WriteFile \/ ReadFile \/ DumpFile
    PROVE  SessionInv'
  <1>1. /\ pc = "operate" /\ pc' = "args" /\ device = "loader"
        /\ UNCHANGED <<esp, line, apart>> /\ Current.op = "file"
        /\ parm.mode \in {"write", "read", "dump"}
        /\ parm' = [parm EXCEPT !.address = NoAddress]
    BY DEF WriteFile, ReadFile, DumpFile, Operated
  <1>2. /\ parm \in Parms /\ Len(line) \in Nat /\ Current \in Args
        /\ parm.address \in Addresses \cup {NoAddress} /\ parm.size \in 0 .. 1
    <2>1. line # <<>> /\ line \in Seq(Args) /\ parm \in Parms
      BY <1>1 DEF SessionInv, Prepared, Typed, Busy
    <2>2. Len(line) \in Nat /\ Len(line) \in 1 .. Len(line)
      <3>1. Len(line) \in Nat \ {0}
        BY <2>1, EmptySeq
      <3> QED
        BY <3>1
    <2> QED
      BY <2>1, <2>2, ElementOfSeq DEF Current, Parms
  <1>3. InName(Current.val) \in {n.addr : n \in Names} \cup {NoAddress}
    <2>1. Current.val \in Names
      BY <1>1, <1>2, ArgumentTyped
    <2> QED
      BY <2>1 DEF InName
  <1>4. /\ parm' \in Parms /\ parm'.mode = parm.mode
        /\ parm'.combine = parm.combine /\ parm'.address = NoAddress
        /\ Wants(Current, parm.mode)
    BY <1>1, <1>2 DEF Parms, Wants, DeviceModes
  <1>5. \A s \in 0 .. 1 : s \in {0, 1} \cup {SizeGiven(t) : t \in SizeTexts}
    OBVIOUS
  <1>6. CASE WriteFile
    <2> DEFINE e == Entry("write", OrZero(Target), 0)
    <2>1. OrZero(Target) \in
              Addresses \cup {n.addr : n \in Names} \cup {0, NoAddress}
      BY <1>2, <1>3 DEF OrZero, Target, TargetOf
    <2>2. /\ e \in Entries /\ e.arg = Len(line) /\ e.op = "write"
          /\ e.addr = OrZero(Target)
      BY <1>2, <2>1 DEF Entry, Entries, Ops, AddressOps
    <2>3. done' = Append(done, e) /\ device' = device /\ parm.mode = "write"
      BY <1>6 DEF WriteFile, Log
    <2> HIDE DEF e
    <2>4. e.addr = OrZero(IF parm.address # NoAddress THEN parm.address
                          ELSE IF e.op \in {"read", "dump"} THEN NoAddress
                          ELSE InName(Current.val))
      BY <2>2 DEF Target, TargetOf
    <2> QED
      BY <1>1, <1>4, <2>2, <2>3, <2>4, CompletedKeeps DEF ElfOps
  <1>7. CASE ReadFile
    <2> DEFINE e == Entry("read", OrZero(parm.address), parm.size)
    <2>1. OrZero(parm.address) \in
              Addresses \cup {n.addr : n \in Names} \cup {0, NoAddress}
      BY <1>2 DEF OrZero
    <2>2. /\ e \in Entries /\ e.arg = Len(line) /\ e.op = "read"
          /\ e.addr = OrZero(parm.address)
      BY <1>2, <1>5, <2>1 DEF Entry, Entries, Ops, AddressOps
    <2>3. done' = Append(done, e) /\ device' = "program" /\ parm.mode = "read"
      BY <1>7 DEF ReadFile, Log, AfterFlashRead
    <2> HIDE DEF e
    <2>4. e.addr = OrZero(IF parm.address # NoAddress THEN parm.address
                          ELSE IF e.op \in {"read", "dump"} THEN NoAddress
                          ELSE InName(Current.val))
      BY <2>2
    <2> QED
      BY <1>1, <1>4, <2>2, <2>3, <2>4, CompletedKeeps DEF ElfOps
  <1>8. CASE DumpFile
    <2> DEFINE e == Entry("dump", parm.address, parm.size)
    <2>1. parm.address # NoAddress /\ parm.address = OrZero(parm.address)
      BY <1>8 DEF DumpFile, OrZero
    <2>2. /\ e \in Entries /\ e.arg = Len(line) /\ e.op = "dump"
          /\ e.addr = parm.address
      BY <1>2, <1>5 DEF Entry, Entries, Ops, AddressOps
    <2>3. done' = Append(done, e) /\ device' = device /\ parm.mode = "dump"
      BY <1>8 DEF DumpFile, Log
    <2> HIDE DEF e
    <2>4. e.addr = OrZero(IF parm.address # NoAddress THEN parm.address
                          ELSE IF e.op \in {"read", "dump"} THEN NoAddress
                          ELSE InName(Current.val))
      BY <2>1, <2>2
    <2> QED
      BY <1>1, <1>4, <2>2, <2>3, <2>4, CompletedKeeps DEF ElfOps
  <1> QED
    BY <1>6, <1>7, <1>8

-----------------------------------------------------------------------------
(* The end *)

LEMMA LastArgumentKeeps ==
    ASSUME SessionInv, LastArgument
    PROVE  SessionInv'
  <1>1. /\ pc = "args" /\ pc' \in {"monitor", "ended"}
        /\ UNCHANGED <<esp, line, apart, done>>
        /\ parm' = [parm EXCEPT !.combine = "closed"] /\ parm \in Parms
        /\ esp \in Esps
    BY DEF LastArgument, SessionInv, Typed
  <1>2. /\ parm' \in Parms /\ parm'.mode = parm.mode
        /\ parm'.address = parm.address /\ parm'.reset = parm.reset
    BY <1>1 DEF Parms
  <1>3. device' \in {"loader", "application", "program", "absent"}
        /\ (device # "absent" => device' # "absent")
    BY DEF LastArgument, AfterReset, Run, SessionInv, Typed
  <1>4. Typed'
    BY <1>1, <1>2, <1>3 DEF SessionInv, Typed
  <1>5. Prepared' /\ Kept'
    BY <1>1, <1>2, <1>3 DEF SessionInv, Prepared, Kept, Busy
  <1>6. AllPlaced' /\ InOrder' /\ Served' /\ LoaderKept'
    BY <1>1 DEF SessionInv, AllPlaced, InOrder, Served, LoaderKept, Busy
  <1>7. Started'
    <2> SUFFICES ASSUME esp.autoRun, esp.connected,
                        parm.reset \/ \A i \in 1 .. Len(done) :
                                          done[i].op \notin {"read", "eraseAll"}
                 PROVE  device' = "application"
      BY <1>1, <1>2 DEF Started, Finished
    <2>1. esp.open /\ device # "absent"
      BY DEF SessionInv, Prepared
    <2>2. CASE parm.reset
      BY <2>1, <2>2 DEF LastArgument, AfterReset
    <2>3. CASE ~parm.reset
      <3>1. device = "loader"
        BY <1>1, <2>3 DEF SessionInv, LoaderKept
      <3> QED
        BY <2>1, <2>3, <3>1 DEF LastArgument, Run
    <2> QED
      BY <2>2, <2>3
  <1> QED
    BY <1>4, <1>5, <1>6, <1>7 DEF SessionInv

LEMMA DisplayHelpKeeps ==
    ASSUME SessionInv, DisplayHelp
    PROVE  SessionInv'
  <1>1. /\ pc = "args" /\ pc' = "exited"
        /\ UNCHANGED <<parm, esp, device, line, apart, done>>
    BY DEF DisplayHelp, Exit
  <1>2. Typed' /\ Prepared' /\ Kept'
    BY <1>1 DEF SessionInv, Typed, Prepared, Kept, Busy
  <1>3. AllPlaced' /\ InOrder' /\ Served' /\ LoaderKept' /\ Started'
    BY <1>1
    DEF SessionInv, AllPlaced, InOrder, Served, LoaderKept, Started, Busy, Finished
  <1> QED
    BY <1>2, <1>3 DEF SessionInv

LEMMA MonitorKeeps ==
    ASSUME SessionInv, Monitor
    PROVE  SessionInv'
  <1>1. /\ pc = "monitor" /\ pc' \in {"ended", "exited"}
        /\ UNCHANGED <<parm, device, line, apart, done>>
        /\ esp' \in {esp, [esp EXCEPT !.open = TRUE]} /\ esp \in Esps
    BY DEF Monitor, Exit, SessionInv, Typed
  <1>2. esp' \in Esps /\ esp'.connected = esp.connected /\ esp'.autoRun = esp.autoRun
        /\ (esp.open => esp'.open) /\ esp'.elf = esp.elf
    BY <1>1 DEF Esps
  <1>3. Typed'
    BY <1>1, <1>2 DEF SessionInv, Typed
  <1>4. Prepared' /\ Kept'
    BY <1>1, <1>2 DEF SessionInv, Prepared, Kept, Busy
  <1>5. AllPlaced' /\ InOrder' /\ Served' /\ LoaderKept' /\ Started'
    BY <1>1, <1>2
    DEF SessionInv, AllPlaced, InOrder, Served, LoaderKept, Started, Busy, Finished
  <1> QED
    BY <1>3, <1>4, <1>5 DEF SessionInv

LEMMA SessionStep == SessionInv /\ [Next]_vars => SessionInv'
  <1> SUFFICES ASSUME SessionInv, [Next]_vars PROVE SessionInv'
    OBVIOUS
  <1>1. CASE Operations
    BY <1>1, BeginOperationKeeps, OpenCommKeeps, ConnectKeeps, FailKeeps,
       OperationsKeep, TransfersKeep, FilesKeep, ExtractOnlyKeeps
    DEF Operations
  <1>2. CASE UNCHANGED vars
    <2>1. Typed' /\ Prepared' /\ Kept'
      BY <1>2 DEF vars, SessionInv, Typed, Prepared, Kept, Busy, Current
    <2>2. AllPlaced' /\ InOrder' /\ Served' /\ LoaderKept' /\ Started'
      BY <1>2
      DEF vars, SessionInv, AllPlaced, InOrder, Served, LoaderKept, Started,
          Busy, Finished
    <2> QED
      BY <2>1, <2>2 DEF SessionInv
  <1> QED
    BY <1>1, <1>2, OptionsKeep, LastArgumentKeeps, DisplayHelpKeeps, MonitorKeeps
    DEF Next

LEMMA SessionInvariant == Spec => []SessionInv
  BY SessionInit, SessionStep, PTL DEF Spec

\* The sequences' indices, as the properties name them.
LEMMA Indices ==
    ASSUME SessionInv
    PROVE  DOMAIN line = 1 .. Len(line) /\ DOMAIN done = 1 .. Len(done)
  BY LenProperties DEF SessionInv, Typed

\* The types of a run: who is connected has an open port, who combines an open
\* file, and whatever is done belongs to an argument.
THEOREM SessionTyped == Spec => []TypeOK
  <1>1. ASSUME SessionInv PROVE TypeOK
    <2>1. /\ line \in Seq(Args) /\ apart \subseteq 1 .. Len(line)
          /\ done \in Seq(Entries) /\ parm \in Parms /\ esp \in Esps
          /\ device \in {"loader", "application", "program", "absent"}
          /\ pc \in {"args", "connect", "operate", "monitor", "ended", "exited"}
      BY <1>1 DEF SessionInv, Typed
    <2>2. \A i \in DOMAIN done : done[i].arg \in DOMAIN line /\ done[i].op \in Ops
      <3>1. \A i \in 1 .. Len(done) : done[i] \in Entries
        BY <2>1, ElementOfSeq
      <3> QED
        BY <1>1, <3>1, Indices DEF SessionInv, InOrder, Entries
    <2>3. \A x \in {"open", "connected", "autoRun", "elf"} : esp[x] \in BOOLEAN
      BY <2>1 DEF Esps
    <2>4. /\ parm.mode \in Modes /\ parm.address \in Addresses \cup {NoAddress}
          /\ parm.size \in 0 .. 1 /\ parm.reset \in BOOLEAN /\ parm.term \in BOOLEAN
          /\ parm.combine \in {"closed", "empty", "filled"}
      BY <2>1 DEF Parms
    <2>5. apart \subseteq DOMAIN line
      BY <1>1, <2>1, Indices
    <2> QED
      BY <1>1, <2>1, <2>2, <2>3, <2>4, <2>5 DEF TypeOK, SessionInv, Prepared, Busy
  <1> QED
    BY <1>1, SessionInvariant, PTL

\* Whatever options and operations come before, on a line of any length, every
\* file is operated on in the mode set last, at the address the line gives for
\* it or its name begins with, and with the ELF file named last (processFile,
\* esp_tool.cpp:1292; ELF::Open, elf.cpp:88), as long as no connection failed.
THEOREM FilesPlaced == Spec => []PlacedAsAsked
  <1>1. ASSUME SessionInv PROVE PlacedAsAsked
    <2> SUFFICES ASSUME apart = {}, NEW i \in DOMAIN done
                 PROVE  LET e == done[i] IN
                        /\ e.op \in AddressOps => e.addr = AskedFor(e)
                        /\ e.op \in ElfOps => HasElf(e.arg)
                        /\ line[e.arg].op = "file" =>
                              e.op = IF ModeOf(e.arg) = "append" THEN "combine"
                                     ELSE ModeOf(e.arg)
      BY DEF PlacedAsAsked
    <2>1. Placed(line, done[i])
      BY <1>1, Indices DEF SessionInv, AllPlaced
    <2>2. AskedFor(done[i]) = Asked(line, done[i])
      BY LineMeans DEF AskedFor, Asked
    <2> QED
      BY <2>1, <2>2, LineMeans DEF Placed
  <1> QED
    BY <1>1, SessionInvariant, PTL

\* No operation that was asked for, on the device, on an ELF file or on images,
\* is passed over while the program goes on, but for those that need the device
\* and found no connection; none is done twice or out of order.
THEOREM OperationsDone == Spec => []NothingSkipped
  <1>1. ASSUME SessionInv PROVE NothingSkipped
    <2>1. \A j : /\ NeedsDevice(j) <=> ForDevice(line[j], ModeIn(line, j))
                 /\ Asks(j) <=> AsksFor(line[j], ModeIn(line, j))
      BY LineMeans DEF NeedsDevice, ForDevice, Asks, AsksFor
    <2>2. pc \in {"args", "monitor", "ended"} =>
              \A j \in DOMAIN line :
                  Asks(j) => \/ j \in apart /\ NeedsDevice(j)
                             \/ \E i \in DOMAIN done : done[i].arg = j
      BY <1>1, <2>1, Indices DEF SessionInv, Served
    <2>3. \A i, k \in DOMAIN done : i < k => done[i].arg < done[k].arg
      BY <1>1, Indices DEF SessionInv, InOrder
    <2> QED
      BY <2>2, <2>3 DEF NothingSkipped
  <1> QED
    BY <1>1, SessionInvariant, PTL

\* A device that was connected executes its application at the end, unless it
\* was left in a program in RAM and cannot be reset, or is not to be run.
THEOREM ApplicationRuns == Spec => []RunsAfter
  <1>1. ASSUME SessionInv PROVE RunsAfter
    BY <1>1, Indices DEF SessionInv, Started, RunsAfter
  <1> QED
    BY <1>1, SessionInvariant, PTL

==============================================================================
