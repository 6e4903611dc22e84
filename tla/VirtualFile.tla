----------------------------- MODULE VirtualFile -----------------------------
(***************************************************************************)
(* A file in memory: class VFile opened in mode "v" (src/elf.cpp,          *)
(* src/elf.h).  ESP::AutoExtract builds images in such files, and          *)
(* ESP::AddImage reads them.                                               *)
(*                                                                         *)
(* The buffer m_buf has m_bufSize bytes, of which the first m_size are the *)
(* file; it is enlarged with realloc, m_increment bytes at a time or more. *)
(* All calls of the program read elements of one byte.                     *)
(***************************************************************************)
EXTENDS Integers, Sequences

CONSTANTS
    Byte,        \* the values of a byte
    Increment,   \* m_increment, 100 in the code
    MaxFile,     \* bound: size of the file
    MaxCount     \* bound: bytes of one call

Fresh == "fresh"   \* a byte of memory that was never written

ASSUME FileAssumption ==
    /\ Byte # {} /\ Fresh \notin Byte
    /\ Increment \in Nat \ {0}
    /\ MaxFile \in Nat /\ MaxCount \in Nat

VARIABLES
    isOpen,    \* m_buf is not NULL
    buf,       \* m_buf, a function on the indices of the buffer
    bufSize,   \* m_bufSize
    size,      \* m_size
    pos,       \* m_pos
    call       \* the latest call: [op, count, bytes]

vars == <<isOpen, buf, bufSize, size, pos, call>>

Calls(op, n, s) == call' = [op |-> op, count |-> n, bytes |-> s]

Indices(n) == 0 .. n - 1

Larger(m, n) == IF m < n THEN n ELSE m

-----------------------------------------------------------------------------
(* VFile() *)
Init ==
    /\ isOpen = FALSE
    /\ buf = [i \in Indices(0) |-> Fresh] /\ bufSize = 0
    /\ size = 0 /\ pos = 0
    /\ call = [op |-> "close", count |-> 0, bytes |-> <<>>]

\* Open(name, "v"), which closes the file first.
Open ==
    /\ isOpen' = TRUE
    /\ buf' = [i \in Indices(Increment) |-> Fresh] /\ bufSize' = Increment
    /\ size' = 0 /\ pos' = 0
    /\ Calls("open", 0, <<>>)

\* Close: deinit and init.
Close ==
    /\ isOpen' = FALSE
    /\ buf' = [i \in Indices(0) |-> Fresh] /\ bufSize' = 0
    /\ size' = 0 /\ pos' = 0
    /\ Calls("close", 0, <<>>)

\* Mutation: the position is not counted.
NeededSizeFromStart(n) ==
    IF n = 0 \/ pos + n <= bufSize THEN bufSize ELSE Larger(n, Increment)

\* NeedSpace(n): m_bufSize after it.
NeededSize(n) ==
    IF n = 0 \/ pos + n <= bufSize THEN bufSize ELSE pos + Larger(n, Increment)

\* NeedSpace(n): m_buf after it, realloc keeping what was there.
Enlarged(n) ==
    [i \in Indices(NeededSize(n)) |-> IF i < bufSize THEN buf[i] ELSE Fresh]

NeedSpace(n) ==
    /\ isOpen
    /\ buf' = Enlarged(n) /\ bufSize' = NeededSize(n)
    /\ Calls("reserve", n, <<>>)
    /\ UNCHANGED <<isOpen, size, pos>>

\* Mutation: the file ends where was written last.
SizeAfterTruncated(n) == pos + n

\* m_size after n bytes are written.
SizeAfter(n) == Larger(size, pos + n)

\* The bytes s go to the position: Write, and Fill when they are all the same.
Write(s) ==
    /\ isOpen /\ Len(s) > 0
    /\ pos + Len(s) <= MaxFile
    /\ buf' = [i \in Indices(NeededSize(Len(s))) |->
                  IF i \in pos .. pos + Len(s) - 1 THEN s[i - pos + 1]
                  ELSE Enlarged(Len(s))[i]]
    /\ bufSize' = NeededSize(Len(s))
    /\ pos' = pos + Len(s)
    /\ size' = SizeAfter(Len(s))
    /\ Calls("write", Len(s), s)
    /\ isOpen' = isOpen

Fill(c, n) == Write([i \in 1 .. n |-> c])

Bytes(n) == [i \in 1 .. n |-> buf[pos + i - 1]]

\* Read: a request that reaches the end of the file is cut to what there is.
Read(n) ==
    /\ isOpen /\ n > 0
    /\ LET m == IF pos + n >= size THEN size - pos ELSE n
       IN  pos' = pos + m /\ Calls("read", n, Bytes(m))
    /\ UNCHANGED <<isOpen, buf, bufSize, size>>

Peek(n) ==
    /\ isOpen /\ n > 0
    /\ LET m == IF pos + n > size THEN size - pos ELSE n
       IN  Calls("peek", n, Bytes(m))
    /\ UNCHANGED <<isOpen, buf, bufSize, size, pos>>

\* The positions Seek accepts; a negative one is a large unsigned number.
Reachable(p) == p >= 0 /\ p <= size

\* Seek(offset, whence), and Position(offset) which is SEEK_SET.
Seek(offset, whence) ==
    /\ isOpen
    /\ LET p == CASE whence = "set" -> offset
                  [] whence = "cur" -> pos + offset
                  [] whence = "end" -> size + offset
       IN  pos' = IF Reachable(p) THEN p ELSE pos
    /\ Calls("seek", 0, <<>>)
    /\ UNCHANGED <<isOpen, buf, bufSize, size>>

\* Mutation: as for a file on disk, the end shows after it was passed.
EndOfFilePassed == pos > size

EndOfFile == pos >= size

Texts == UNION {[1 .. n -> Byte] : n \in 1 .. MaxCount}

Next == \/ Open \/ Close
        \/ \E n \in 1 .. MaxCount : NeedSpace(n) \/ Read(n) \/ Peek(n)
        \/ \E s \in Texts : Write(s)
        \/ \E c \in Byte, n \in 1 .. MaxCount : Fill(c, n)
        \/ \E offset \in -MaxFile .. MaxFile, whence \in {"set", "cur", "end"} :
              Seek(offset, whence)

Spec == Init /\ [][Next]_vars

-----------------------------------------------------------------------------
(* Properties *)

Ops == {"open", "close", "reserve", "write", "read", "peek", "seek"}

\* The variables have their types, the position lies in the file and the file
\* in its buffer, so that no call reaches a byte outside of it.
TypeOK ==
    /\ isOpen \in BOOLEAN
    /\ bufSize \in Nat
    /\ buf \in [Indices(bufSize) -> Byte \cup {Fresh}]
    /\ size \in 0 .. bufSize /\ pos \in 0 .. size
    /\ call.op \in Ops /\ call.count \in Nat

\* A file in memory behaves as a file: what was written is what is read, and
\* enlarging the buffer or writing over old bytes loses none.
Memory == INSTANCE MemoryFile WITH
             file <- [i \in 1 .. size |-> buf[i - 1]],
             at   <- pos
FileKept == Memory!Spec

\* flashWrite takes a block that comes back short for a read error unless
\* EndOfFile says that it was the last (esp.cpp:490-499).
ShortMeansEnd ==
    call.op = "read" /\ Len(call.bytes) < call.count => EndOfFile
=============================================================================
