-------------------------- MODULE VirtualFileProofs --------------------------
(***************************************************************************)
(* Theorems about VirtualFile, for every increment and every length of a   *)
(* file and of a call.  TypeOK is inductive as it stands.                  *)
(***************************************************************************)
EXTENDS VirtualFile, SequenceFacts, TLAPS

Cell == Byte \cup {Fresh}

\* The file that MemoryFile sees.
File == [i \in 1 .. size |-> buf[i - 1]]

\* Larger is the greater of two numbers.
LEMMA LargerFacts ==
    ASSUME NEW m \in Nat, NEW n \in Nat
    PROVE  Larger(m, n) \in Nat /\ Larger(m, n) >= m /\ Larger(m, n) >= n
  BY DEF Larger

\* After NeedSpace(n) the buffer is no smaller and has room for n bytes.
LEMMA NeededSizeFacts ==
    ASSUME TypeOK, NEW n \in Nat
    PROVE  /\ NeededSize(n) \in Nat
           /\ NeededSize(n) >= bufSize /\ NeededSize(n) >= pos + n
  <1>1. pos \in Nat /\ pos <= bufSize /\ bufSize \in Nat
    BY DEF TypeOK
  <1>2. CASE n = 0 \/ pos + n <= bufSize
    BY <1>1, <1>2 DEF NeededSize
  <1>3. CASE ~(n = 0 \/ pos + n <= bufSize)
    <2>1. Larger(n, Increment) \in Nat /\ Larger(n, Increment) >= n
      BY LargerFacts, FileAssumption
    <2>2. NeededSize(n) = pos + Larger(n, Increment)
      BY <1>3 DEF NeededSize
    <2> HIDE DEF Larger
    <2> QED
      BY <1>1, <1>3, <2>1, <2>2
  <1> QED
    BY <1>2, <1>3

\* The bytes of the file are a sequence as long as the file.
LEMMA FileIsSeq ==
    ASSUME TypeOK
    PROVE  File \in Seq(Cell) /\ Len(File) = size
  <1>1. size \in Nat
    BY DEF TypeOK
  <1>2. \A i \in 1 .. size : buf[i - 1] \in Cell
    BY DEF TypeOK, Indices, Cell
  <1>3. File \in [1 .. size -> Cell]
    BY <1>2 DEF File
  <1> QED
    BY <1>1, <1>3, FunctionIsSeq

\* What a read of m bytes that are there returns.
LEMMA BytesIsSeq ==
    ASSUME TypeOK, NEW m \in Nat, pos + m <= size
    PROVE  Len(Bytes(m)) = m
  <1>1. \A i \in 1 .. m : buf[pos + i - 1] \in Cell
    BY DEF TypeOK, Indices, Cell
  <1>2. Bytes(m) \in [1 .. m -> Cell]
    BY <1>1 DEF Bytes
  <1> QED
    BY <1>2, FunctionIsSeq

\* Reading at the position and cutting the request at the end of the file
\* gives what MemoryFile says.
LEMMA BytesFollow ==
    ASSUME TypeOK, NEW n \in Nat, NEW m \in Nat,
           m = IF pos + n > size THEN size - pos ELSE n
    PROVE  Bytes(m) = Memory!Following(n)
  <1>1. size \in Nat /\ pos \in 0 .. size
    BY DEF TypeOK
  <1>2. Len(File) = size
    BY FileIsSeq
  <1>3. \A i \in 1 .. m : File[pos + i] = buf[pos + i - 1]
    BY <1>1 DEF File
  <1>4. Bytes(m) = [i \in 1 .. m |-> File[pos + i]]
    BY <1>3 DEF Bytes
  <1> QED
    BY <1>2, <1>4 DEF Memory!Following, File

-----------------------------------------------------------------------------
\* A write keeps the types and does to the file what MemoryFile says.
LEMMA WriteStep ==
    ASSUME TypeOK, NEW n \in Nat, NEW s \in [1 .. n -> Byte], Write(s)
    PROVE  TypeOK' /\ Memory!Write
  <1>1. Len(s) = n
    BY FunctionIsSeq
  <1>2. /\ size \in Nat /\ pos \in 0 .. size /\ bufSize \in Nat
        /\ size <= bufSize
        /\ buf \in [Indices(bufSize) -> Cell]
    BY DEF TypeOK, Cell
  <1>3. /\ NeededSize(n) \in Nat
        /\ NeededSize(n) >= bufSize /\ NeededSize(n) >= pos + n
    BY NeededSizeFacts
  <1>4. /\ buf' = [i \in Indices(NeededSize(n)) |->
                      IF i \in pos .. pos + n - 1 THEN s[i - pos + 1]
                      ELSE IF i < bufSize THEN buf[i] ELSE Fresh]
        /\ bufSize' = NeededSize(n)
        /\ pos' = pos + n /\ size' = Larger(size, pos + n)
        /\ isOpen' = isOpen
        /\ call' = [op |-> "write", count |-> n, bytes |-> s]
    BY <1>1 DEF Write, Enlarged, SizeAfter, Calls
  <1>5. size' \in Nat /\ size' >= size /\ size' >= pos + n /\ size' <= bufSize'
    BY <1>2, <1>3, <1>4 DEF Larger
  <1>6. TypeOK'
    <2>1. \A i \in Indices(NeededSize(n)) :
             (IF i \in pos .. pos + n - 1 THEN s[i - pos + 1]
              ELSE IF i < bufSize THEN buf[i] ELSE Fresh) \in Cell
      BY <1>2, <1>3 DEF Indices, Cell
    <2>2. buf' \in [Indices(bufSize') -> Cell]
      BY <1>4, <2>1
    <2> QED
      BY <1>2, <1>3, <1>4, <1>5, <2>2 DEF TypeOK, Ops, Cell
  <1>7. Memory!Write
    <2>1. Len(File) = size
      BY FileIsSeq
    <2>2. \A i \in 1 .. size' : buf'[i - 1] =
             IF i \in pos + 1 .. pos + n THEN s[i - pos] ELSE File[i]
      <3> SUFFICES ASSUME NEW i \in 1 .. size'
                   PROVE  buf'[i - 1] =
                     IF i \in pos + 1 .. pos + n THEN s[i - pos] ELSE File[i]
        OBVIOUS
      <3>1. i - 1 \in Indices(NeededSize(n))
        BY <1>3, <1>4, <1>5 DEF Indices
      <3>2. CASE i \in pos + 1 .. pos + n
        BY <1>2, <1>4, <3>1, <3>2
      <3>3. CASE i \notin pos + 1 .. pos + n
        <4>1. i \in 1 .. size
          BY <1>2, <1>4, <3>3 DEF Larger
        <4>2. i - 1 < bufSize /\ i - 1 \notin pos .. pos + n - 1
          BY <1>2, <3>3, <4>1
        <4> QED
          BY <1>4, <3>1, <3>3, <4>1, <4>2 DEF File
      <3> QED
        BY <3>2, <3>3
    <2>3. size' = IF Len(File) < pos + n THEN pos + n ELSE Len(File)
      BY <1>2, <1>4, <2>1 DEF Larger
    <2>4. File' = Memory!Overwritten(s)
      BY <1>1, <2>2, <2>3 DEF File, Memory!Overwritten
    <2> QED
      BY <1>1, <1>4, <2>4 DEF Memory!Write, File
  <1> QED
    BY <1>6, <1>7

\* A read that is cut at the end of the file.
LEMMA ReadStep ==
    ASSUME TypeOK, NEW n \in Nat, Read(n)
    PROVE  TypeOK' /\ Memory!Read
  <1> DEFINE m == IF pos + n >= size THEN size - pos ELSE n
  <1>1. size \in Nat /\ pos \in 0 .. size
    BY DEF TypeOK
  <1>2. /\ m \in Nat /\ pos + m <= size
        /\ m = IF pos + n > size THEN size - pos ELSE n
    BY <1>1
  <1>3. /\ pos' = pos + m /\ UNCHANGED <<isOpen, buf, bufSize, size>>
        /\ call' = [op |-> "read", count |-> n, bytes |-> Bytes(m)]
    BY DEF Read, Calls
  <1> HIDE DEF m
  <1>4. TypeOK'
    BY <1>1, <1>2, <1>3 DEF TypeOK, Ops
  <1>5. Len(Bytes(m)) = m /\ Bytes(m) = Memory!Following(n)
    BY <1>2, BytesIsSeq, BytesFollow
  <1>6. File' = File
    BY <1>3 DEF File
  <1> QED
    BY <1>3, <1>4, <1>5, <1>6 DEF Memory!Read, File

LEMMA PeekStep ==
    ASSUME TypeOK, NEW n \in Nat, Peek(n)
    PROVE  TypeOK' /\ Memory!Peek
  <1> DEFINE m == IF pos + n > size THEN size - pos ELSE n
  <1>1. size \in Nat /\ pos \in 0 .. size
    BY DEF TypeOK
  <1>2. m \in Nat
    BY <1>1
  <1>3. /\ UNCHANGED <<isOpen, buf, bufSize, size, pos>>
        /\ call' = [op |-> "peek", count |-> n, bytes |-> Bytes(m)]
    BY DEF Peek, Calls
  <1>4. Bytes(m) = Memory!Following(n)
    BY <1>2, BytesFollow
  <1> HIDE DEF m
  <1>5. TypeOK'
    BY <1>3 DEF TypeOK, Ops
  <1>6. File' = File
    BY <1>3 DEF File
  <1> QED
    BY <1>3, <1>4, <1>5, <1>6 DEF Memory!Peek, File

\* Room may be added, but the file stays as it is.
LEMMA NeedSpaceStep ==
    ASSUME TypeOK, NEW n \in Nat, NeedSpace(n)
    PROVE  TypeOK' /\ Memory!Reserve
  <1>1. /\ size \in Nat /\ bufSize \in Nat /\ size <= bufSize
        /\ buf \in [Indices(bufSize) -> Cell]
    BY DEF TypeOK, Cell
  <1>2. NeededSize(n) \in Nat /\ NeededSize(n) >= bufSize
    BY NeededSizeFacts
  <1>3. /\ buf' = [i \in Indices(NeededSize(n)) |->
                      IF i < bufSize THEN buf[i] ELSE Fresh]
        /\ bufSize' = NeededSize(n)
        /\ UNCHANGED <<isOpen, size, pos>>
        /\ call' = [op |-> "reserve", count |-> n, bytes |-> <<>>]
    BY DEF NeedSpace, Enlarged, Calls
  <1>4. TypeOK'
    <2>1. buf' \in [Indices(bufSize') -> Cell]
      BY <1>1, <1>2, <1>3 DEF Indices, Cell
    <2> QED
      BY <1>1, <1>2, <1>3, <2>1 DEF TypeOK, Ops, Cell
  <1>5. \A i \in 1 .. size : buf'[i - 1] = buf[i - 1]
    BY <1>1, <1>2, <1>3 DEF Indices
  <1>6. File' = File
    BY <1>3, <1>5 DEF File
  <1> QED
    BY <1>3, <1>4, <1>6 DEF Memory!Reserve, File

\* A position outside of the file is refused.
LEMMA SeekStep ==
    ASSUME TypeOK, NEW offset \in Int,
           NEW whence \in {"set", "cur", "end"}, Seek(offset, whence)
    PROVE  TypeOK' /\ Memory!Seek
  <1> DEFINE p == CASE whence = "set" -> offset
                    [] whence = "cur" -> pos + offset
                    [] whence = "end" -> size + offset
  <1>1. /\ pos' = IF Reachable(p) THEN p ELSE pos
        /\ UNCHANGED <<isOpen, buf, bufSize, size>>
        /\ call' = [op |-> "seek", count |-> 0, bytes |-> <<>>]
    BY DEF Seek, Calls
  <1>5. p \in Int
    BY DEF TypeOK
  <1> HIDE DEF p
  <1>6. pos' \in 0 .. size
    BY <1>1, <1>5 DEF TypeOK, Reachable
  <1>2. TypeOK'
    BY <1>1, <1>6 DEF TypeOK, Ops
  <1>3. Len(File) = size
    BY FileIsSeq
  <1>4. File' = File
    BY <1>1 DEF File
  <1> QED
    BY <1>1, <1>2, <1>3, <1>4 DEF Memory!Seek, File, TypeOK

\* Memory that was not written yet.
LEMMA FreshCells ==
    ASSUME NEW n
    PROVE  [i \in Indices(n) |-> Fresh] \in [Indices(n) -> Cell]
  BY DEF Cell

\* A file that was opened or closed is empty.
LEMMA CloseStep ==
    ASSUME Open \/ Close
    PROVE  TypeOK' /\ Memory!Close
  <1>1. Increment \in Nat
    BY FileAssumption
  <1>2. /\ size' = 0 /\ pos' = 0 /\ bufSize' \in Nat /\ isOpen' \in BOOLEAN
        /\ buf' \in [Indices(bufSize') -> Cell]
        /\ call'.op \in {"open", "close"} /\ call'.count = 0
    <2>1. CASE Open
      BY <1>1, <2>1, FreshCells DEF Open, Calls
    <2>2. CASE Close
      BY <2>2, FreshCells DEF Close, Calls
    <2> QED
      BY <2>1, <2>2
  <1>3. TypeOK'
    BY <1>2 DEF TypeOK, Ops, Cell
  <1>4. File' = <<>>
    <2>1. File' = [i \in 1 .. 0 |-> buf'[i - 1]]
      BY <1>2 DEF File
    <2> QED
      BY <2>1
  <1> QED
    BY <1>2, <1>3, <1>4 DEF Memory!Close, File

LEMMA FileInit == Init => TypeOK /\ Memory!Init
  <1> SUFFICES ASSUME Init PROVE TypeOK /\ Memory!Init
    OBVIOUS
  <1>1. TypeOK
    <2>1. buf \in [Indices(bufSize) -> Byte \cup {Fresh}]
      BY FreshCells DEF Init, Cell
    <2>2. isOpen \in BOOLEAN
      BY DEF Init
    <2>3. bufSize \in Nat /\ size \in 0 .. bufSize /\ pos \in 0 .. size
      BY DEF Init
    <2>4. call.op \in Ops /\ call.count \in Nat
      BY DEF Init, Ops
    <2> QED
      BY <2>1, <2>2, <2>3, <2>4 DEF TypeOK
  <1>2. File = <<>>
    <2>1. File = [i \in 1 .. 0 |-> buf[i - 1]]
      BY DEF Init, File
    <2> QED
      BY <2>1
  <1> QED
    BY <1>1, <1>2 DEF Init, Memory!Init, File

\* Every call keeps the types and is a step of MemoryFile.
LEMMA FileStep ==
    ASSUME TypeOK, [Next]_vars
    PROVE  TypeOK' /\ [Memory!Next]_(Memory!vars)
  <1>1. CASE Open \/ Close
    BY <1>1, CloseStep DEF Memory!Next
  <1>2. ASSUME NEW n \in 1 .. MaxCount, NeedSpace(n) \/ Read(n) \/ Peek(n)
        PROVE  TypeOK' /\ Memory!Next
    <2>1. n \in Nat
      BY FileAssumption
    <2> QED
      BY <1>2, <2>1, NeedSpaceStep, ReadStep, PeekStep DEF Memory!Next
  <1>3. ASSUME NEW n \in 1 .. MaxCount, NEW s \in [1 .. n -> Byte], Write(s)
        PROVE  TypeOK' /\ Memory!Next
    <2>1. n \in Nat
      BY FileAssumption
    <2> QED
      BY <1>3, <2>1, WriteStep DEF Memory!Next
  <1>4. ASSUME NEW s \in Texts, Write(s)
        PROVE  TypeOK' /\ Memory!Next
    BY <1>3, <1>4 DEF Texts
  <1>5. ASSUME NEW c \in Byte, NEW n \in 1 .. MaxCount, Fill(c, n)
        PROVE  TypeOK' /\ Memory!Next
    BY <1>3, <1>5 DEF Fill
  <1>6. ASSUME NEW offset \in -MaxFile .. MaxFile,
               NEW whence \in {"set", "cur", "end"}, Seek(offset, whence)
        PROVE  TypeOK' /\ Memory!Next
    <2>1. offset \in Int
      BY FileAssumption
    <2> QED
      BY <1>6, <2>1, SeekStep DEF Memory!Next
  <1>7. CASE UNCHANGED vars
    BY <1>7 DEF vars, TypeOK, Memory!vars
  <1> QED
    BY <1>1, <1>2, <1>4, <1>5, <1>6, <1>7 DEF Next

\* A read that comes back short has reached the end of the file; every other
\* call replaces what is known of the latest read.
LEMMA ShortStep ==
    ASSUME TypeOK, ShortMeansEnd, [Next]_vars
    PROVE  ShortMeansEnd'
  <1>1. ASSUME NEW n \in 1 .. MaxCount, Read(n)
        PROVE  ShortMeansEnd'
    <2> DEFINE m == IF pos + n >= size THEN size - pos ELSE n
    <2>1. n \in Nat /\ size \in Nat /\ pos \in 0 .. size
      BY FileAssumption DEF TypeOK
    <2>2. /\ pos' = pos + m /\ size' = size
          /\ call'.count = n /\ call'.bytes = Bytes(m)
      BY <1>1 DEF Read, Calls
    <2>3. m \in Nat /\ pos + m <= size
      BY <2>1
    <2>4. Len(call'.bytes) = m
      BY <2>2, <2>3, BytesIsSeq
    <2>5. m < n => pos + m = size
      BY <2>1
    <2> HIDE DEF m
    <2> QED
      BY <2>1, <2>2, <2>3, <2>4, <2>5 DEF ShortMeansEnd, EndOfFile
  <1>2. CASE call'.op # "read"
    BY <1>2 DEF ShortMeansEnd
  <1>3. CASE UNCHANGED vars
    BY <1>3 DEF vars, ShortMeansEnd, EndOfFile
  <1>4. Open \/ Close => call'.op # "read"
    BY DEF Open, Close, Calls
  <1>5. \A n : NeedSpace(n) \/ Peek(n) => call'.op # "read"
    BY DEF NeedSpace, Peek, Calls
  <1>6. \A s : Write(s) => call'.op # "read"
    BY DEF Write, Calls
  <1>7. \A c, n : Fill(c, n) => call'.op # "read"
    BY <1>6 DEF Fill
  <1>8. \A offset, whence : Seek(offset, whence) => call'.op # "read"
    BY DEF Seek, Calls
  <1> QED
    BY <1>1, <1>2, <1>3, <1>4, <1>5, <1>6, <1>7, <1>8 DEF Next

-----------------------------------------------------------------------------
\* The position lies in the file and the file in its buffer, after any calls:
\* no call of VFile reads or writes outside of m_buf.
THEOREM FileTypeCorrect == Spec => []TypeOK
  <1>1. TypeOK /\ [Next]_vars => TypeOK'
    BY FileStep
  <1> QED
    BY <1>1, FileInit, PTL DEF Spec

\* A file in memory implements MemoryFile: what was written is read, however
\* the buffer is enlarged and wherever the position was set.
THEOREM FileIsKept == Spec => FileKept
  <1>1. TypeOK /\ [Next]_vars => TypeOK' /\ [Memory!Next]_(Memory!vars)
    BY FileStep
  <1> QED
    BY <1>1, FileInit, PTL DEF Spec, FileKept, Memory!Spec

\* flashWrite takes a block that comes back short for a read error unless
\* EndOfFile says that it was the last: a short read always leaves EndOfFile
\* true.
THEOREM ShortReadIsLast == Spec => []ShortMeansEnd
  <1>1. Init => ShortMeansEnd
    BY DEF Init, ShortMeansEnd
  <1>2. TypeOK /\ [Next]_vars => TypeOK'
    BY FileStep
  <1>3. TypeOK /\ ShortMeansEnd /\ [Next]_vars => ShortMeansEnd'
    BY ShortStep
  <1> QED
    BY <1>1, <1>2, <1>3, FileInit, PTL DEF Spec

=============================================================================
