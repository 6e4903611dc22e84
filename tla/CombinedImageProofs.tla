------------------------- MODULE CombinedImageProofs -------------------------
(***************************************************************************)
(* Theorems about CombinedImage, for every block size, whatever images are *)
(* added, and for any number of files.                                     *)
(***************************************************************************)
EXTENDS CombinedImage, SequenceFacts, TLAPS

-----------------------------------------------------------------------------
(* Files *)

LEMMA FunctionLen ==
    ASSUME NEW n \in Nat, NEW f, f = [i \in 1 .. n |-> f[i]]
    PROVE  Len(f) = n
  <1> DEFINE S == {f[i] : i \in 1 .. n}
  <1>1. f \in [1 .. n -> S]
    <2>1. \A i \in 1 .. n : f[i] \in S
      OBVIOUS
    <2> HIDE DEF S
    <2> QED
      BY <2>1
  <1> HIDE DEF S
  <1> QED
    BY <1>1, FunctionIsSeq

LEMMA Written ==
    ASSUME NEW f, NEW p \in Nat, NEW s, Len(f) \in Nat, Len(s) \in Nat,
           NEW g, g = WriteAt(f, p, s)
    PROVE  /\ Len(g) = Larger(Len(f), p + Len(s)) /\ Len(g) \in Nat
           /\ p + Len(s) \in 0 .. Len(g) /\ Len(f) \in 0 .. Len(g)
           /\ \A i \in 1 .. Len(s) : g[p + i] = s[i]
           /\ \A i \in 1 .. Len(f) : i <= p \/ i > p + Len(s) => g[i] = f[i]
  <1> DEFINE n == Larger(Len(f), p + Len(s))
  <1>1. /\ n \in Nat /\ Len(f) <= n /\ p + Len(s) <= n
        /\ n = Len(f) \/ n = p + Len(s)
    BY DEF Larger
  <1>2. g = [i \in 1 .. n |-> IF i \in p + 1 .. p + Len(s) THEN s[i - p]
                              ELSE IF i <= Len(f) THEN f[i] ELSE Zero]
    BY DEF WriteAt
  <1> HIDE DEF n
  <1>3. g = [i \in 1 .. n |-> g[i]]
    BY <1>2
  <1>4. Len(g) = n
    BY <1>1, <1>3, FunctionLen
  <1>5. ASSUME NEW i \in 1 .. Len(s) PROVE g[p + i] = s[i]
    <2>1. /\ p + i \in 1 .. n /\ p + i \in p + 1 .. p + Len(s)
          /\ (p + i) - p = i
      BY <1>1
    <2> QED
      BY <1>2, <2>1
  <1>6. ASSUME NEW i \in 1 .. Len(f), i <= p \/ i > p + Len(s) PROVE g[i] = f[i]
    <2>1. i \in 1 .. n /\ i \notin p + 1 .. p + Len(s) /\ i <= Len(f)
      BY <1>1, <1>6
    <2> QED
      BY <1>2, <2>1
  <1> QED
    BY <1>1, <1>4, <1>5, <1>6 DEF n

\* The file g after s was written to the position p of the file f.
WrittenAt(f, p, s, g) ==
    /\ Len(g) = Larger(Len(f), p + Len(s)) /\ Len(g) \in Nat
    /\ \A i \in 1 .. Len(s) : g[p + i] = s[i]
    /\ \A i \in 1 .. Len(f) : i <= p \/ i > p + Len(s) => g[i] = f[i]

LEMMA WrittenThere ==
    ASSUME NEW f, NEW p \in Nat, NEW s, Len(f) \in Nat, Len(s) \in Nat,
           NEW g, g = WriteAt(f, p, s)
    PROVE  WrittenAt(f, p, s, g)
  BY Written DEF WrittenAt

\* The bytes that AddImage writes.
Cells == {<<"image", n, k>> : n \in Nat, k \in Int} \cup {Zero, Ones}
           \cup {<<"addr", a>> : a \in Nat} \cup {<<"length", n>> : n \in Nat}

LEMMA Rounded ==
    ASSUME NEW n \in Nat
    PROVE  RoundUp(n) \in Nat /\ RoundUp(n) >= n /\ RoundUp(n) % 4 = 0
           /\ RoundUp(n) <= n + 3
  BY DEF RoundUp

LEMMA RepeatTyped ==
    ASSUME NEW b \in Cells, NEW n \in Nat
    PROVE  /\ Repeat(b, n) \in Seq(Cells) /\ Len(Repeat(b, n)) = n
           /\ \A i \in 1 .. n : Repeat(b, n)[i] = b
  <1>1. Repeat(b, n) \in [1 .. n -> Cells]
    BY DEF Repeat
  <1>2. \A i \in 1 .. n : Repeat(b, n)[i] = b
    BY DEF Repeat
  <1> QED
    BY <1>1, <1>2, FunctionIsSeq

LEMMA ImageTyped ==
    ASSUME NEW n \in Nat, NEW k \in Nat
    PROVE  /\ Image(n, k) \in Seq(Cells) /\ Len(Image(n, k)) = k
           /\ \A i \in 1 .. k : Image(n, k)[i] = ImageByte(n, i - 1)
  <1>1. \A i \in 1 .. k : i - 1 \in Int
    OBVIOUS
  <1>2. \A i \in 1 .. k : ImageByte(n, i - 1) \in Cells
    BY <1>1 DEF ImageByte, Cells
  <1>3. Image(n, k) \in [1 .. k -> Cells]
    BY <1>2 DEF Image
  <1>4. \A i \in 1 .. k : Image(n, k)[i] = ImageByte(n, i - 1)
    BY DEF Image
  <1> QED
    BY <1>3, <1>4, FunctionIsSeq

LEMMA HeaderTyped ==
    ASSUME NEW a \in Nat, NEW n \in Nat
    PROVE  /\ ImageHeader(a, n) \in Seq(Cells) /\ Len(ImageHeader(a, n)) = 8
           /\ \A i \in 1 .. 4 : ImageHeader(a, n)[i] = <<"addr", a>>
           /\ \A i \in 5 .. 8 : ImageHeader(a, n)[i] = <<"length", n>>
  <1> DEFINE x == <<"addr", a>>
             y == <<"length", n>>
             p == Repeat(x, 4)
             q == Repeat(y, 4)
  <1>1. x \in Cells /\ y \in Cells
    BY DEF Cells
  <1> HIDE DEF x, y
  <1>2. /\ p \in Seq(Cells) /\ Len(p) = 4 /\ \A i \in 1 .. 4 : p[i] = x
        /\ q \in Seq(Cells) /\ Len(q) = 4 /\ \A i \in 1 .. 4 : q[i] = y
    BY <1>1, RepeatTyped
  <1>3. ImageHeader(a, n) = p \o q
    BY DEF ImageHeader, x, y
  <1> HIDE DEF p, q
  <1>4. /\ p \o q \in Seq(Cells) /\ Len(p \o q) = Len(p) + Len(q)
        /\ \A i \in 1 .. Len(p) + Len(q) :
              (p \o q)[i] = IF i <= Len(p) THEN p[i] ELSE q[i - Len(p)]
    BY <1>2, ConcatProperties
  <1>5. Len(p) + Len(q) = 8
    BY <1>2
  <1>6. \A i \in 1 .. 4 : i \in 1 .. 8 /\ i <= 4
    OBVIOUS
  <1>7. \A i \in 5 .. 8 : i \in 1 .. 8 /\ ~(i <= 4) /\ i - 4 \in 1 .. 4
    OBVIOUS
  <1> QED
    BY <1>2, <1>3, <1>4, <1>5, <1>6, <1>7 DEF x, y

-----------------------------------------------------------------------------
(* The inductive invariant *)

Requested == [size : ImageSizes, addr : ImageAddrs]

Typed ==
    /\ kind \in {"none", "sparse", "padded"}
    /\ Len(file) \in Nat /\ pos \in 0 .. Len(file) /\ known \in 0 .. Len(file)
    /\ imageSize \in Nat
    /\ parts \in Seq([size : ImageSizes, addr : ImageAddrs, done : BOOLEAN])
    /\ Len(parts) <= MaxImages
    /\ appended \in BOOLEAN /\ spoiled \in BOOLEAN
    /\ opens \in 0 .. MaxOpens
    /\ queue \in Seq(Requested)
    /\ extract.images \in Seq(Requested)

AllDone == \A i \in 1 .. Len(parts) : parts[i].done

\* What is known of the file: nothing of an image that was added without error
\* is missing, and a sparse file begins with its header.
Headed ==
    /\ known = 0 => \A i \in 1 .. Len(parts) : ~parts[i].done
    /\ kind = "none" => file = <<>> /\ parts = <<>>
    /\ kind = "sparse" =>
          \/ known = 0 /\ file = <<>> /\ pos = 0 /\ parts = <<>>
          \/ known >= 4 /\ IsSparse(file)
    /\ kind = "sparse" /\ AllDone => known = Len(file) /\ known % 4 = 0

\* Each image was added behind the ones before it.
Behind ==
    ~appended =>
        \A j \in 1 .. Len(parts) : parts[j].done =>
            /\ parts[j].addr + parts[j].size <= imageSize
            /\ \A i \in 1 .. j - 1 : parts[i].done =>
                  parts[i].addr + parts[i].size <= parts[j].addr

\* Images that do not get in each other's way.
AllClear(I) == \A i, j \in 1 .. Len(I) : i # j => Clear(I[i], I[j])

Ascending(I) == \A i, j \in 1 .. Len(I) : i < j => I[i].addr <= I[j].addr

IsAdded(r) ==
    \E j \in 1 .. Len(parts) : parts[j].size = r.size /\ parts[j].addr = r.addr

\* AutoExtract has added the first k images of I, the rest is to come.
AddedTo(I, k) ==
    /\ k + Len(queue) = Len(I)
    /\ \A i \in 1 .. Len(queue) : queue[i] = I[k + i]
    /\ \A i \in 1 .. k : IsAdded(I[i])
    /\ k = 0 => known = 0
    /\ k > 0 => CurrentSize <= EndOf(I[k].size, I[k].addr)

Extracted ==
    LET I == extract.images IN
    /\ queue # <<>> => I # <<>>
    /\ I # <<>> => Ascending(I)
    /\ I # <<>> /\ extract.fresh /\ AllDone /\ AllClear(I)
          => \E k \in 0 .. Len(I) : AddedTo(I, k)

CombinedInv == Typed /\ Headed /\ Behind /\ Extracted

LEMMA CombinedInit == Init => CombinedInv
  <1> SUFFICES ASSUME Init PROVE CombinedInv
    OBVIOUS
  <1>1. /\ kind = "none" /\ file = <<>> /\ pos = 0 /\ known = 0
        /\ imageSize = 0 /\ parts = <<>> /\ appended = FALSE /\ spoiled = FALSE
        /\ opens = 0 /\ queue = <<>> /\ extract.images = <<>>
    BY DEF Init, NoExtract
  <1>2. \A S : <<>> \in Seq(S) /\ Len(<<>>) = 0
    BY EmptySeq
  <1>3. Typed
    <2>1. 0 \in 0 .. 0 /\ 0 \in 0 .. MaxOpens /\ 0 <= MaxImages /\ 0 \in Nat
      BY CombinedAssumption
    <2>2. Len(file) = 0 /\ Len(parts) = 0
      BY <1>1, <1>2
    <2>3. /\ parts \in Seq([size : ImageSizes, addr : ImageAddrs, done : BOOLEAN])
          /\ queue \in Seq(Requested) /\ extract.images \in Seq(Requested)
      BY <1>1, <1>2
    <2> QED
      BY <1>1, <2>1, <2>2, <2>3 DEF Typed
  <1>4. Headed /\ Behind /\ Extracted
    BY <1>1, <1>2 DEF Headed, Behind, Extracted
  <1> QED
    BY <1>3, <1>4 DEF CombinedInv

LEMMA ImageTypes ==
    /\ \A n \in ImageSizes : n \in Nat \ {0}
    /\ \A a \in ImageAddrs : a \in Nat
  <1>1. \A n \in ImageSizes : n \in Nat \ {0}
    BY CombinedAssumption DEF ImageSizes
  <1>2. \A a \in ImageAddrs : a \in Nat
    <2>1. (\A a \in Addrs : a \in Nat) /\ (\A a \in ElfAddrs : a \in Nat) /\ 0 \in Nat
      <3>1. \A a \in Addrs : a \in Nat
        BY CombinedAssumption, Zenon
      <3>2. \A a \in ElfAddrs : a \in Nat
        BY CombinedAssumption, Zenon
      <3> QED
        BY <3>1, <3>2
    <2> QED
      BY <2>1 DEF ImageAddrs
  <1> QED
    BY <1>1, <1>2

\* What AddImage is called with.
LEMMA RequestTyped ==
    ASSUME Typed, NEW r \in Requests
    PROVE  /\ r.size \in ImageSizes /\ r.addr \in ImageAddrs
           /\ r.size \in Nat \ {0} /\ r.addr \in Nat
           /\ queue # <<>> => r = queue[1]
  <1>1. /\ \A n \in ImageSizes : n \in Nat \ {0}
        /\ \A a \in ImageAddrs : a \in Nat
    BY ImageTypes
  <1>2. CASE queue = <<>>
    BY <1>1, <1>2 DEF Requests, ImageSizes, ImageAddrs
  <1>3. CASE queue # <<>>
    <2>1. Len(queue) \in Nat \ {0} /\ queue \in Seq(Requested)
      BY <1>3, EmptySeq DEF Typed
    <2>2. 1 \in 1 .. Len(queue)
      BY <2>1
    <2>3. queue[1] \in Requested
      BY <2>1, <2>2, ElementOfSeq
    <2>4. r = queue[1]
      BY <1>3 DEF Requests
    <2> QED
      BY <1>1, <2>3, <2>4 DEF Requested
  <1> QED
    BY <1>2, <1>3

LEMMA CurrentTyped ==
    ASSUME Typed
    PROVE  CurrentSize \in Nat
  BY DEF Typed, CurrentSize

\* AddImage has added the image.
Filled(size, a) ==
    /\ parts' = Append(parts, [size |-> size, addr |-> a, done |-> TRUE])
    /\ GoOn(TRUE) /\ UNCHANGED <<kind, appended, opens>> /\ spoiled' \in BOOLEAN
    /\ Len(file') \in Nat /\ pos' \in 0 .. Len(file')
    /\ known' = Len(file') /\ known' > 0
    /\ imageSize' \in {a + size, EndOf(size, a)}
    /\ kind = "sparse" =>
          IsSparse(file') /\ known' >= 4 /\ (AllDone => known' % 4 = 0)

\* AddImage could not read the image to its end.
Cut(size, a) ==
    /\ parts' = Append(parts, [size |-> size, addr |-> a, done |-> FALSE])
    /\ GoOn(FALSE) /\ UNCHANGED <<kind, appended, opens>> /\ spoiled' \in BOOLEAN
    /\ Len(file') \in Nat /\ pos' \in 0 .. Len(file')
    /\ known' \in known .. Len(file')
    /\ imageSize' = CurrentSize
    /\ kind = "sparse" => IsSparse(file') /\ known' >= 4

\* The parts that may have been copied are not more than there is.
LEMMA CopiedTyped ==
    ASSUME NEW size \in Nat \ {0}, NEW k \in Copied(size)
    PROVE  k \in Nat
  <1>1. PICK j \in 0 .. (size - 1) \div PartSize : k = j * PartSize
    BY DEF Copied
  <1>2. j \in Nat /\ PartSize \in Nat
    BY CombinedAssumption
  <1> QED
    BY <1>1, <1>2

\* What AddImage writes into a padded file.
LEMMA PaddedText ==
    ASSUME Typed, NEW a \in Nat, a >= CurrentSize, NEW n \in Nat, NEW k \in Nat,
           NEW g, g = WriteAt(file, pos, Repeat(Ones, a - CurrentSize) \o Image(n, k))
    PROVE  /\ Len(Repeat(Ones, a - CurrentSize)) \in Nat
           /\ Len(g) \in Nat /\ Len(file) <= Len(g)
           /\ pos + Len(Repeat(Ones, a - CurrentSize)) + k \in 0 .. Len(g)
  <1> DEFINE gap == Repeat(Ones, a - CurrentSize)
             image == Image(n, k)
             text == gap \o image
  <1>1. Len(file) \in Nat /\ pos \in Nat
    BY DEF Typed
  <1>2. Ones \in Cells /\ a - CurrentSize \in Nat
    BY CurrentTyped DEF Cells
  <1>3. gap \in Seq(Cells) /\ Len(gap) \in Nat
    BY <1>2, RepeatTyped
  <1>4. image \in Seq(Cells) /\ Len(image) = k
    BY ImageTyped
  <1>5. g = WriteAt(file, pos, text)
    OBVIOUS
  <1> HIDE DEF gap, image
  <1>6. Len(text) = Len(gap) + k
    BY <1>3, <1>4, ConcatProperties
  <1> HIDE DEF text
  <1>7. Len(text) \in Nat
    BY <1>3, <1>6
  <1>8. /\ Len(g) \in Nat /\ pos + Len(text) \in 0 .. Len(g)
        /\ Len(file) \in 0 .. Len(g)
    BY <1>1, <1>5, <1>7, Written
  <1> QED
    BY <1>1, <1>3, <1>6, <1>8 DEF gap

LEMMA PaddedEffect ==
    ASSUME Typed, Headed, NEW size \in Nat \ {0}, NEW a \in Nat, AddPadded(size, a)
    PROVE  kind = "padded" /\ (Filled(size, a) \/ Cut(size, a))
  <1> DEFINE n == Len(parts) + 1
             gap == Repeat(Ones, a - CurrentSize)
  <1>1. /\ Len(file) \in Nat /\ pos \in Nat /\ n \in Nat /\ spoiled \in BOOLEAN
        /\ known \in 0 .. Len(file)
    BY LenProperties DEF Typed
  <1>2. CurrentSize \in Nat /\ a >= CurrentSize /\ kind = "padded"
    BY CurrentTyped DEF AddPadded
  <1>3. \/ /\ Added(WriteAt(file, pos, gap \o Image(n, size)),
                    pos + Len(gap) + size, size, a)
           /\ imageSize' = a + size
        \/ \E k \in Copied(size) :
               Broken(WriteAt(file, pos, gap \o Image(n, k)),
                      pos + Len(gap) + k, size, a, 0)
    BY DEF AddPadded
  <1>4. ASSUME NEW k \in Nat, file' = WriteAt(file, pos, gap \o Image(n, k))
        PROVE  /\ Len(gap) \in Nat /\ Len(file') \in Nat
               /\ Len(file) <= Len(file') /\ pos + Len(gap) + k \in 0 .. Len(file')
    BY <1>1, <1>2, <1>4, PaddedText
  <1> HIDE DEF n, gap
  <1>5. CASE /\ Added(WriteAt(file, pos, gap \o Image(n, size)),
                      pos + Len(gap) + size, size, a)
             /\ imageSize' = a + size
    <2>1. /\ file' = WriteAt(file, pos, gap \o Image(n, size))
          /\ pos' = pos + Len(gap) + size
          /\ known' = Len(WriteAt(file, pos, gap \o Image(n, size)))
          /\ parts' = Append(parts, [size |-> size, addr |-> a, done |-> TRUE])
          /\ GoOn(TRUE) /\ UNCHANGED <<kind, appended, opens>>
      BY <1>5 DEF Added
    <2>2. spoiled' \in BOOLEAN
      BY <1>1, <1>5 DEF Added
    <2>3. /\ Len(gap) \in Nat /\ Len(file') \in Nat
          /\ pos + Len(gap) + size \in 0 .. Len(file')
      BY <1>4, <2>1
    <2>4. known' = Len(file') /\ pos' \in 0 .. Len(file') /\ known' > 0
      BY <1>1, <2>1, <2>3
    <2> QED
      BY <1>2, <1>5, <2>1, <2>2, <2>3, <2>4 DEF Filled
  <1>6. ASSUME NEW k \in Copied(size),
               Broken(WriteAt(file, pos, gap \o Image(n, k)),
                      pos + Len(gap) + k, size, a, 0)
        PROVE  Cut(size, a)
    <2>1. /\ file' = WriteAt(file, pos, gap \o Image(n, k))
          /\ pos' = pos + Len(gap) + k
          /\ known' \in Larger(known, 0) ..
                          Len(WriteAt(file, pos, gap \o Image(n, k)))
          /\ parts' = Append(parts, [size |-> size, addr |-> a, done |-> FALSE])
          /\ imageSize' = CurrentSize
          /\ GoOn(FALSE) /\ UNCHANGED <<kind, appended, opens>>
      BY <1>6 DEF Broken
    <2>2. spoiled' \in BOOLEAN
      BY <1>1, <1>6 DEF Broken
    <2>3. k \in Nat
      BY CopiedTyped
    <2>4. Len(file') \in Nat /\ pos + Len(gap) + k \in 0 .. Len(file')
      BY <1>4, <2>1, <2>3
    <2>5. Larger(known, 0) = known
      BY <1>1 DEF Larger
    <2>6. known' \in known .. Len(file') /\ pos' \in 0 .. Len(file')
      BY <2>1, <2>4, <2>5
    <2> QED
      BY <1>2, <2>1, <2>2, <2>4, <2>6 DEF Cut
  <1> QED
    BY <1>2, <1>3, <1>5, <1>6

\* A file is sparse when its first cells are the signature.
LEMMA SparseCells ==
    ASSUME NEW f
    PROVE  IsSparse(f) <=> Len(f) >= 4 /\ f[1] = <<"e">> /\ f[2] = <<"s">>
                           /\ f[3] = <<"p">>
  <1> DEFINE S == {f[1], f[2], f[3]}
             three == <<f[1], f[2], f[3]>>
             part == SubSeq(f, 1, 3)
  <1>1. \A i \in 1 .. 3 : f[i] \in S
    <2>1. \A i \in 1 .. 3 : i = 1 \/ i = 2 \/ i = 3
      OBVIOUS
    <2> QED
      BY <2>1
  <1>2. three \in Seq(S) /\ Len(three) = 3
        /\ three[1] = f[1] /\ three[2] = f[2] /\ three[3] = f[3]
    OBVIOUS
  <1> HIDE DEF S, three
  <1>3. /\ part \in Seq(S)
        /\ Len(part) = IF 1 <= 3 THEN 3 - 1 + 1 ELSE 0
        /\ \A i \in 1 .. 3 - 1 + 1 : part[i] = f[1 + i - 1]
    BY <1>1, SubSeqProperties
  <1>4. Len(part) = 3 /\ part[1] = f[1] /\ part[2] = f[2] /\ part[3] = f[3]
    <2>1. 1 \in 1 .. 3 - 1 + 1 /\ 2 \in 1 .. 3 - 1 + 1 /\ 3 \in 1 .. 3 - 1 + 1
      OBVIOUS
    <2>2. 1 + 1 - 1 = 1 /\ 1 + 2 - 1 = 2 /\ 1 + 3 - 1 = 3
      OBVIOUS
    <2>3. part[1] = f[1 + 1 - 1] /\ part[2] = f[1 + 2 - 1] /\ part[3] = f[1 + 3 - 1]
      BY <1>3, <2>1
    <2> QED
      BY <1>3, <2>2, <2>3
  <1> HIDE DEF part
  <1>5. part = three
    <2>1. \A i \in 1 .. 3 : part[i] = three[i]
      <3>1. \A i \in 1 .. 3 : i = 1 \/ i = 2 \/ i = 3
        OBVIOUS
      <3> QED
        BY <1>2, <1>4, <3>1
    <2> QED
      BY <1>2, <1>3, <1>4, <2>1, SeqEqual
  <1>6. IsSparse(f) <=> Len(f) >= 4 /\ <<f[1], f[2], f[3]>> = Signature
    BY <1>5 DEF IsSparse, part, three
  <1>7. <<f[1], f[2], f[3]>> = Signature
          <=> f[1] = <<"e">> /\ f[2] = <<"s">> /\ f[3] = <<"p">>
    BY DEF Signature
  <1> QED
    BY <1>6, <1>7

\* The header of a sparse file.
LEMMA FileHeaderCells ==
    ASSUME NEW n, NEW h, h = FileHeader(n)
    PROVE  /\ Len(h) = 4 /\ h[1] = <<"e">> /\ h[2] = <<"s">> /\ h[3] = <<"p">>
           /\ h[4] = <<"count", n>>
  <1>1. FileHeader(n) = <<<<"e">>, <<"s">>, <<"p">>>> \o <<<<"count", n>>>>
    BY DEF FileHeader, Signature
  <1> DEFINE a == <<"e">>
             b == <<"s">>
             c == <<"p">>
             d == <<"count", n>>
             S == {a, b, c, d}
             p == <<a, b, c>>
             q == <<d>>
  <1>2. /\ a \in S /\ b \in S /\ c \in S /\ d \in S
    OBVIOUS
  <1>3. FileHeader(n) = p \o q
    BY <1>1
  <1> HIDE DEF a, b, c, d, S
  <1>4. /\ p \in Seq(S) /\ Len(p) = 3 /\ p[1] = a /\ p[2] = b /\ p[3] = c
        /\ q \in Seq(S) /\ Len(q) = 1 /\ q[1] = d
    BY <1>2
  <1> HIDE DEF p, q
  <1>5. /\ Len(p \o q) = Len(p) + Len(q)
        /\ \A i \in 1 .. Len(p) + Len(q) :
              (p \o q)[i] = IF i <= Len(p) THEN p[i] ELSE q[i - Len(p)]
    BY <1>4, ConcatProperties
  <1>6. 1 \in 1 .. 3 + 1 /\ 2 \in 1 .. 3 + 1 /\ 3 \in 1 .. 3 + 1 /\ 4 \in 1 .. 3 + 1
        /\ 4 - 3 = 1 /\ ~(4 <= 3) /\ 1 <= 3 /\ 2 <= 3 /\ 3 <= 3 /\ 3 + 1 = 4
    OBVIOUS
  <1>7. /\ Len(p \o q) = 4 /\ (p \o q)[1] = a /\ (p \o q)[2] = b
        /\ (p \o q)[3] = c /\ (p \o q)[4] = d
    BY <1>4, <1>5, <1>6
  <1> QED
    BY <1>3, <1>7 DEF a, b, c, d

\* The header is brought up to date, and the rest of the file stays.
LEMMA HeaderWritten ==
    ASSUME Typed, Headed, kind = "sparse", NEW h, h = WithHeader,
           known = 0 \/ IsSparse(file)
    PROVE  /\ Len(h.file) \in Nat /\ Len(h.file) >= 4 /\ IsSparse(h.file)
           /\ h.pos \in 4 .. Len(h.file)
           /\ known = 0 => h.pos = 4 /\ Len(h.file) = 4
           /\ known # 0 => h.pos = known /\ Len(h.file) = Len(file)
           /\ known = 0 => h.file[4] = <<"count", 1>>
           /\ known # 0 => h.file[4] = <<"count", (Count(file) + 1) % 256>>
           /\ \A i \in 5 .. Len(file) : h.file[i] = file[i]
  <1>1. Len(file) \in Nat /\ known \in 0 .. Len(file)
    BY DEF Typed
  <1>2. CASE known = 0
    <2>1. file = <<>> /\ pos = 0 /\ Len(file) = 0
      BY <1>2 DEF Headed
    <2> DEFINE s == FileHeader(1)
    <2>2. h.file = WriteAt(file, 0, s) /\ h.pos = 4
      BY <1>2, <2>1 DEF WithHeader
    <2>3. Len(s) = 4 /\ s[1] = <<"e">> /\ s[2] = <<"s">> /\ s[3] = <<"p">>
          /\ s[4] = <<"count", 1>>
      BY FileHeaderCells
    <2> HIDE DEF s
    <2>4. /\ Len(h.file) = Larger(Len(file), 0 + Len(s))
          /\ \A i \in 1 .. Len(s) : h.file[0 + i] = s[i]
      <3>1. h.file = WriteAt(file, 0, s)
        BY <2>2
      <3>2. Len(s) \in Nat /\ Len(file) \in Nat /\ 0 \in Nat
        BY <1>1, <2>3
      <3> QED
        BY <3>1, <3>2, Written
    <2>5. Len(h.file) = 4
      BY <2>1, <2>3, <2>4 DEF Larger
    <2>6. h.file[1] = s[1] /\ h.file[2] = s[2] /\ h.file[3] = s[3] /\ h.file[4] = s[4]
      BY <2>3, <2>4
    <2>7. IsSparse(h.file)
      BY <2>3, <2>5, <2>6, SparseCells
    <2>8. /\ Len(h.file) \in Nat /\ Len(h.file) >= 4
          /\ h.pos \in 4 .. Len(h.file)
      <3>1. \A l, p : l = 4 /\ p = 4 => l \in Nat /\ l >= 4 /\ p \in 4 .. l
        OBVIOUS
      <3> QED
        BY <2>2, <2>5, <3>1
    <2>9. h.pos = 4
      BY <2>2
    <2>10. h.file[4] = <<"count", 1>>
      BY <2>3, <2>6
    <2>11. \A i \in 5 .. Len(file) : h.file[i] = file[i]
      BY <2>1
    <2> QED
      BY <1>2, <2>5, <2>7, <2>8, <2>9, <2>10, <2>11
  <1>3. CASE known # 0
    <2> DEFINE s == FileHeader((Count(file) + 1) % 256)
    <2>1. h.file = WriteAt(file, 0, s) /\ h.pos = known
      BY <1>3 DEF WithHeader
    <2>2. Len(s) = 4 /\ s[1] = <<"e">> /\ s[2] = <<"s">> /\ s[3] = <<"p">>
          /\ s[4] = <<"count", (Count(file) + 1) % 256>>
      BY FileHeaderCells
    <2> HIDE DEF s
    <2>3. Len(file) >= 4 /\ known >= 4
      BY <1>3 DEF IsSparse, Headed
    <2>4. /\ Len(h.file) = Larger(Len(file), 0 + Len(s))
          /\ \A i \in 1 .. Len(s) : h.file[0 + i] = s[i]
          /\ \A i \in 1 .. Len(file) : i <= 0 \/ i > 0 + Len(s) =>
                h.file[i] = file[i]
      <3>1. h.file = WriteAt(file, 0, s)
        BY <2>1
      <3>2. Len(s) \in Nat /\ Len(file) \in Nat /\ 0 \in Nat
        BY <1>1, <2>2
      <3> QED
        BY <3>1, <3>2, Written
    <2>5. Len(h.file) = Len(file)
      BY <1>1, <2>2, <2>3, <2>4 DEF Larger
    <2>6. h.file[1] = s[1] /\ h.file[2] = s[2] /\ h.file[3] = s[3] /\ h.file[4] = s[4]
      BY <2>2, <2>4
    <2>7. IsSparse(h.file)
      BY <2>2, <2>3, <2>5, <2>6, SparseCells
    <2>8. h.file[4] = <<"count", (Count(file) + 1) % 256>>
      BY <2>2, <2>6
    <2>9. \A i \in 5 .. Len(file) : h.file[i] = file[i]
      <3>1. \A i \in 5 .. Len(file) : i \in 1 .. Len(file) /\ i > 0 + Len(s)
        BY <1>1, <2>2
      <3> QED
        BY <2>4, <3>1
    <2> QED
      BY <1>1, <1>3, <2>1, <2>3, <2>5, <2>7, <2>8, <2>9
  <1> QED
    BY <1>2, <1>3

\* The file g after n bytes were written behind the image header at p.
Extended(g, p, n) ==
    /\ Len(g) \in Nat /\ Len(g) >= 4 /\ IsSparse(g)
    /\ p + 8 + n \in 0 .. Len(g) /\ p + 8 + n >= 4
    /\ Len(file) <= Len(g)
    /\ AllDone => Len(g) = p + 8 + n
    /\ p \in Nat /\ p % 4 = 0

\* What AddImage writes into a sparse file behind its header.
LEMMA SparseText ==
    ASSUME Typed, Headed, kind = "sparse", NEW h, h = WithHeader,
           known = 0 \/ (known % 4 = 0 /\ IsSparse(file)),
           NEW a \in Nat, NEW len \in Nat, NEW s \in Seq(Cells),
           NEW g, g = WriteAt(h.file, h.pos, ImageHeader(a, len) \o s)
    PROVE  Extended(g, h.pos, Len(s))
  <1> DEFINE hf == h.file
             hp == h.pos
             header == ImageHeader(a, len)
             text == header \o s
  <1>1. /\ Len(hf) \in Nat /\ Len(hf) >= 4 /\ IsSparse(hf) /\ hp \in 4 .. Len(hf)
        /\ known = 0 => hp = 4 /\ Len(hf) = 4
        /\ known # 0 => hp = known /\ Len(hf) = Len(file)
    BY HeaderWritten
  <1>2. header \in Seq(Cells) /\ Len(header) = 8
    BY HeaderTyped
  <1>3. g = WriteAt(hf, hp, text)
    OBVIOUS
  <1>4. Len(s) \in Nat
    BY LenProperties
  <1>5. Len(file) \in Nat /\ known \in Nat
    BY DEF Typed
  <1>6. known = 0 => Len(file) = 0
    BY DEF Headed
  <1>7. AllDone => known = Len(file)
    BY DEF Headed
  <1> HIDE DEF hf, hp, header
  <1>8. Len(text) = Len(header) + Len(s)
    BY <1>2, ConcatProperties
  <1> HIDE DEF text
  <1>9. Len(text) = 8 + Len(s) /\ Len(text) \in Nat
    BY <1>2, <1>4, <1>8
  <1>10. hp \in Nat /\ hp >= 4 /\ Len(hf) \in Nat /\ hp <= Len(hf)
    BY <1>1
  <1>11. /\ Len(g) = Larger(Len(hf), hp + Len(text)) /\ Len(g) \in Nat
         /\ hp + Len(text) \in 0 .. Len(g) /\ Len(hf) \in 0 .. Len(g)
         /\ \A i \in 1 .. Len(hf) : i <= hp \/ i > hp + Len(text) => g[i] = hf[i]
    <2>1. hp \in Nat /\ Len(hf) \in Nat /\ Len(text) \in Nat
      BY <1>9, <1>10
    <2> QED
      BY <1>3, <2>1, Written
  <1>12. Len(g) >= 4 /\ Len(file) <= Len(g)
    BY <1>1, <1>5, <1>6, <1>11
  <1>13. IsSparse(g)
    <2>1. g[1] = hf[1] /\ g[2] = hf[2] /\ g[3] = hf[3]
      <3>1. /\ 1 \in 1 .. Len(hf) /\ 1 <= hp /\ 2 \in 1 .. Len(hf) /\ 2 <= hp
            /\ 3 \in 1 .. Len(hf) /\ 3 <= hp
        BY <1>1, <1>10
      <3> QED
        BY <1>11, <3>1
    <2> QED
      BY <1>1, <1>12, <2>1, SparseCells
  <1>14. hp % 4 = 0
    <2>1. 4 % 4 = 0
      OBVIOUS
    <2> QED
      BY <1>1, <2>1
  <1>15. hp + 8 + Len(s) \in 0 .. Len(g) /\ hp + 8 + Len(s) >= 4
    BY <1>4, <1>9, <1>10, <1>11
  <1>16. ASSUME AllDone PROVE Len(g) = hp + 8 + Len(s)
    <2>1. Len(hf) = hp
      <3>1. known = Len(file)
        BY <1>7, <1>16
      <3>2. CASE known = 0
        BY <1>1, <3>2
      <3>3. CASE known # 0
        BY <1>1, <3>1, <3>3
      <3> QED
        BY <3>2, <3>3
    <2> QED
      BY <1>4, <1>9, <1>10, <1>11, <2>1 DEF Larger
  <1> QED
    BY <1>10, <1>11, <1>12, <1>13, <1>14, <1>15, <1>16 DEF hp, Extended

LEMMA PaddedImage ==
    ASSUME NEW n \in Nat, NEW size \in Nat
    PROVE  /\ Image(n, size) \o Padding(size) \in Seq(Cells)
           /\ Len(Image(n, size) \o Padding(size)) = RoundUp(size)
           /\ \A i \in 1 .. size :
                 (Image(n, size) \o Padding(size))[i] = ImageByte(n, i - 1)
  <1> DEFINE p == Image(n, size)
             q == Padding(size)
  <1>1. /\ p \in Seq(Cells) /\ Len(p) = size
        /\ \A i \in 1 .. size : p[i] = ImageByte(n, i - 1)
    BY ImageTyped
  <1>2. RoundUp(size) \in Nat /\ RoundUp(size) >= size
    BY Rounded
  <1>3. q \in Seq(Cells) /\ Len(q) = RoundUp(size) - size
    <2>1. Zero \in Cells /\ RoundUp(size) - size \in Nat
      BY <1>2 DEF Cells
    <2> QED
      BY <2>1, RepeatTyped DEF Padding
  <1> HIDE DEF p, q
  <1>4. /\ p \o q \in Seq(Cells) /\ Len(p \o q) = Len(p) + Len(q)
        /\ \A i \in 1 .. Len(p) + Len(q) :
              (p \o q)[i] = IF i <= Len(p) THEN p[i] ELSE q[i - Len(p)]
    BY <1>1, <1>3, ConcatProperties
  <1>5. Len(p) + Len(q) = RoundUp(size)
    BY <1>1, <1>2, <1>3
  <1>6. \A i \in 1 .. size : i \in 1 .. Len(p) + Len(q) /\ i <= Len(p)
    BY <1>1, <1>2, <1>5
  <1>7. \A i \in 1 .. size : (p \o q)[i] = ImageByte(n, i - 1)
    BY <1>1, <1>4, <1>6
  <1> QED
    BY <1>4, <1>5, <1>7 DEF p, q

LEMMA SparseEffect ==
    ASSUME Typed, Headed, NEW size \in Nat \ {0}, NEW a \in Nat, AddSparse(size, a)
    PROVE  kind = "sparse" /\ (Filled(size, a) \/ Cut(size, a))
  <1> DEFINE n == Len(parts) + 1
             h == WithHeader
             hp == h.pos
             len == RoundUp(size)
             f(s) == WriteAt(h.file, hp, ImageHeader(a, len) \o s)
             whole == Image(n, size) \o Padding(size)
  <1>1. /\ Len(file) \in Nat /\ n \in Nat /\ spoiled \in BOOLEAN
        /\ known \in 0 .. Len(file) /\ len \in Nat /\ len % 4 = 0
    BY LenProperties, Rounded DEF Typed
  <1>2. /\ CurrentSize \in Nat /\ a >= CurrentSize /\ kind = "sparse"
        /\ known = 0 \/ (known % 4 = 0 /\ IsSparse(file))
    BY CurrentTyped DEF AddSparse
  <1>3. \/ /\ Added(f(whole), hp + 8 + len, size, a)
           /\ imageSize' = EndOf(size, a)
        \/ \E k \in Copied(size) :
               Broken(f(Image(n, k)), hp + 8 + k, size, a, 4)
    BY DEF AddSparse
  <1>4. whole \in Seq(Cells) /\ Len(whole) = len
    BY <1>1, PaddedImage
  <1>5. ASSUME NEW s \in Seq(Cells), file' = f(s)
        PROVE  Extended(file', hp, Len(s))
    <2>1. file' = WriteAt(h.file, h.pos, ImageHeader(a, len) \o s)
      BY <1>5
    <2>2. h = WithHeader
      OBVIOUS
    <2>3. len \in Nat /\ kind = "sparse"
          /\ (known = 0 \/ (known % 4 = 0 /\ IsSparse(file)))
      BY <1>1, <1>2
    <2> HIDE DEF h, len
    <2>4. Extended(file', h.pos, Len(s))
      BY <2>1, <2>2, <2>3, SparseText
    <2> QED
      BY <2>4 DEF hp
  <1> HIDE DEF n, h, hp, len, whole
  <1>6. CASE /\ Added(f(whole), hp + 8 + len, size, a)
             /\ imageSize' = EndOf(size, a)
    <2>1. /\ file' = f(whole) /\ pos' = hp + 8 + len /\ known' = Len(f(whole))
          /\ parts' = Append(parts, [size |-> size, addr |-> a, done |-> TRUE])
          /\ GoOn(TRUE) /\ UNCHANGED <<kind, appended, opens>>
      BY <1>6 DEF Added
    <2>2. spoiled' \in BOOLEAN
      BY <1>1, <1>6 DEF Added
    <2>3. /\ Len(file') \in Nat /\ Len(file') >= 4 /\ IsSparse(file')
          /\ hp + 8 + len \in 0 .. Len(file')
          /\ AllDone => Len(file') = hp + 8 + len
          /\ hp \in Nat /\ hp % 4 = 0
      BY <1>4, <1>5, <2>1 DEF Extended
    <2>4. known' = Len(file') /\ pos' \in 0 .. Len(file') /\ known' >= 4 /\ known' > 0
      BY <2>1, <2>3
    <2>5. AllDone => known' % 4 = 0
      <3>1. (hp + 8 + len) % 4 = 0
        BY <1>1, <2>3
      <3> QED
        BY <2>3, <2>4, <3>1
    <2> QED
      BY <1>2, <1>6, <2>1, <2>2, <2>3, <2>4, <2>5 DEF Filled
  <1>7. ASSUME NEW k \in Copied(size), Broken(f(Image(n, k)), hp + 8 + k, size, a, 4)
        PROVE  Cut(size, a)
    <2>1. /\ file' = f(Image(n, k)) /\ pos' = hp + 8 + k
          /\ known' \in Larger(known, 4) .. Len(f(Image(n, k)))
          /\ parts' = Append(parts, [size |-> size, addr |-> a, done |-> FALSE])
          /\ imageSize' = CurrentSize
          /\ GoOn(FALSE) /\ UNCHANGED <<kind, appended, opens>>
      BY <1>7 DEF Broken
    <2>2. spoiled' \in BOOLEAN
      BY <1>1, <1>7 DEF Broken
    <2>3. Image(n, k) \in Seq(Cells) /\ Len(Image(n, k)) = k
      BY <1>1, CopiedTyped, ImageTyped
    <2>4. /\ Len(file') \in Nat /\ Len(file') >= 4 /\ IsSparse(file')
          /\ hp + 8 + k \in 0 .. Len(file')
      BY <1>5, <2>1, <2>3 DEF Extended
    <2>5. known' \in Larger(known, 4) .. Len(file')
      BY <2>1
    <2>6. /\ known' \in known .. Len(file') /\ pos' \in 0 .. Len(file')
          /\ known' >= 4
      BY <1>1, <2>1, <2>4, <2>5 DEF Larger
    <2> QED
      BY <1>2, <2>1, <2>2, <2>4, <2>6 DEF Cut
  <1> QED
    BY <1>2, <1>3, <1>6, <1>7

-----------------------------------------------------------------------------
(* Every step keeps the invariant *)

\* One more image is in the list.
LEMMA OneMore ==
    ASSUME Typed, NEW x, parts' = Append(parts, x)
    PROVE  /\ Len(parts) \in Nat /\ Len(parts') = Len(parts) + 1
           /\ \A i \in 1 .. Len(parts) : parts'[i] = parts[i]
           /\ parts'[Len(parts) + 1] = x
           /\ \A i \in 1 .. Len(parts') : i \in 1 .. Len(parts) \/ i = Len(parts) + 1
           /\ \A i \in 1 .. Len(parts) : i \in 1 .. Len(parts')
           /\ Len(parts) + 1 \in 1 .. Len(parts')
  <1> DEFINE S == [size : ImageSizes, addr : ImageAddrs, done : BOOLEAN] \cup {x}
  <1>1. parts \in Seq(S) /\ x \in S /\ Len(parts) \in Nat
    <2>1. parts \in Seq([size : ImageSizes, addr : ImageAddrs, done : BOOLEAN])
      BY DEF Typed
    <2> DEFINE T == [size : ImageSizes, addr : ImageAddrs, done : BOOLEAN]
    <2>2. parts \in Seq(T) /\ T \subseteq S
      BY <2>1
    <2>3. x \in S
      OBVIOUS
    <2> HIDE DEF T, S
    <2>4. parts \in [1 .. Len(parts) -> T] /\ Len(parts) \in Nat
      BY <2>2, LenProperties
    <2>5. parts \in [1 .. Len(parts) -> S]
      BY <2>2, <2>4
    <2> QED
      BY <2>3, <2>4, <2>5, FunctionIsSeq
  <1> HIDE DEF S
  <1>2. /\ Len(parts') = Len(parts) + 1
        /\ \A i \in 1 .. Len(parts) : parts'[i] = parts[i]
        /\ parts'[Len(parts) + 1] = x
    BY <1>1, AppendProperties
  <1> QED
    BY <1>1, <1>2

\* The fields of the images that were added.
LEMMA PartFields ==
    ASSUME Typed, NEW i \in 1 .. Len(parts)
    PROVE  /\ parts[i].size \in Nat \ {0} /\ parts[i].addr \in Nat
           /\ parts[i].done \in BOOLEAN
  <1>1. parts[i] \in [size : ImageSizes, addr : ImageAddrs, done : BOOLEAN]
    BY ElementOfSeq DEF Typed
  <1>2. /\ parts[i].size \in ImageSizes /\ parts[i].addr \in ImageAddrs
        /\ parts[i].done \in BOOLEAN
    BY <1>1
  <1> QED
    BY <1>2, ImageTypes

\* The fields of the images AutoExtract makes.
LEMMA RequestFields ==
    ASSUME NEW r \in Requested
    PROVE  r.size \in Nat \ {0} /\ r.addr \in Nat
  <1>1. r.size \in ImageSizes /\ r.addr \in ImageAddrs
    BY DEF Requested
  <1> QED
    BY <1>1, ImageTypes

\* AutoExtract goes on with the next image, or stops.
LEMMA GoesOn ==
    ASSUME Typed, NEW d \in BOOLEAN, GoOn(d)
    PROVE  /\ queue' \in Seq(Requested) /\ extract'.images \in Seq(Requested)
           /\ queue = <<>> => queue' = <<>> /\ extract'.images = <<>>
           /\ queue # <<>> => extract' = extract
           /\ ~d => queue' = <<>>
           /\ queue # <<>> /\ d =>
                 /\ Len(queue) \in Nat /\ Len(queue) >= 1
                 /\ Len(queue') = Len(queue) - 1
                 /\ \A i \in 1 .. Len(queue') : queue'[i] = queue[i + 1]
  <1>1. queue \in Seq(Requested) /\ extract.images \in Seq(Requested)
    BY DEF Typed
  <1>2. <<>> \in Seq(Requested)
    BY EmptySeq
  <1>3. CASE queue = <<>>
    <2>1. queue' = <<>> /\ extract' = NoExtract
      BY <1>3 DEF GoOn
    <2> QED
      BY <1>2, <1>3, <2>1 DEF NoExtract
  <1>4. CASE queue # <<>> /\ ~d
    <2>1. queue' = <<>> /\ extract' = extract
      BY <1>4 DEF GoOn
    <2> QED
      BY <1>1, <1>2, <1>4, <2>1
  <1>5. CASE queue # <<>> /\ d
    <2>1. queue' = Tail(queue) /\ extract' = extract
      BY <1>5 DEF GoOn
    <2>2. /\ Tail(queue) \in Seq(Requested)
          /\ Len(Tail(queue)) = Len(queue) - 1
          /\ \A i \in 1 .. Len(Tail(queue)) : Tail(queue)[i] = queue[i + 1]
      BY <1>1, <1>5, HeadTailProperties
    <2>3. Len(queue) \in Nat /\ Len(queue) # 0
      BY <1>1, <1>5, LenProperties, EmptySeq
    <2> QED
      BY <1>1, <1>5, <2>1, <2>2, <2>3
  <1> QED
    BY <1>3, <1>4, <1>5

\* Adding an image keeps the types, done or not.
LEMMA AddKeepsTypes ==
    ASSUME Typed, NEW size \in ImageSizes, NEW a \in ImageAddrs,
           Len(parts) < MaxImages, NEW d \in BOOLEAN,
           parts' = Append(parts, [size |-> size, addr |-> a, done |-> d]),
           GoOn(d), UNCHANGED <<kind, appended, opens>>, spoiled' \in BOOLEAN,
           Len(file') \in Nat, pos' \in 0 .. Len(file'), known' \in 0 .. Len(file'),
           imageSize' \in Nat
    PROVE  Typed'
  <1> DEFINE T == [size : ImageSizes, addr : ImageAddrs, done : BOOLEAN]
             x == [size |-> size, addr |-> a, done |-> d]
  <1>1. x \in T /\ parts \in Seq(T) /\ Len(parts) \in Nat
    BY LenProperties DEF Typed
  <1>2. parts' = Append(parts, x)
    OBVIOUS
  <1> HIDE DEF T, x
  <1>3. parts' \in Seq(T) /\ Len(parts') = Len(parts) + 1
    BY <1>1, <1>2, AppendProperties
  <1>4. Len(parts') <= MaxImages
    BY <1>1, <1>3, CombinedAssumption
  <1>5. queue' \in Seq(Requested) /\ extract'.images \in Seq(Requested)
    BY GoesOn
  <1>6. /\ kind' \in {"none", "sparse", "padded"} /\ appended' \in BOOLEAN
        /\ opens' \in 0 .. MaxOpens
    BY DEF Typed
  <1> QED
    BY <1>3, <1>4, <1>5, <1>6 DEF Typed, T

\* An image that was added lies behind what was written.
LEMMA BehindCurrent ==
    ASSUME Typed, Headed, Behind, ~appended, NEW i \in 1 .. Len(parts), parts[i].done
    PROVE  parts[i].addr + parts[i].size <= CurrentSize
  BY DEF Headed, Behind, CurrentSize

LEMMA EndTyped ==
    ASSUME NEW size \in Nat, NEW a \in Nat
    PROVE  EndOf(size, a) \in Nat /\ EndOf(size, a) >= a + size
  <1>1. size % 4 \in Nat
    OBVIOUS
  <1> QED
    BY <1>1 DEF EndOf

LEMMA FilledKeeps ==
    ASSUME CombinedInv, NEW r \in Requests, Len(parts) < MaxImages, kind # "none",
           r.addr >= CurrentSize, Filled(r.size, r.addr)
    PROVE  CombinedInv'
  <1> DEFINE x == [size |-> r.size, addr |-> r.addr, done |-> TRUE]
             n == Len(parts) + 1
             size == r.size
             a == r.addr
  <1>1. Typed /\ Headed /\ Behind /\ Extracted
    BY DEF CombinedInv
  <1>2. /\ size \in ImageSizes /\ a \in ImageAddrs /\ size \in Nat \ {0}
        /\ a \in Nat
        /\ queue # <<>> => r = queue[1]
    BY <1>1, RequestTyped
  <1>3. /\ parts' = Append(parts, x) /\ GoOn(TRUE)
        /\ kind' = kind /\ appended' = appended /\ opens' = opens
        /\ spoiled' \in BOOLEAN
        /\ Len(file') \in Nat /\ pos' \in 0 .. Len(file')
        /\ known' = Len(file') /\ known' > 0
        /\ imageSize' \in {a + size, EndOf(size, a)}
        /\ kind = "sparse" =>
              IsSparse(file') /\ known' >= 4 /\ (AllDone => known' % 4 = 0)
    BY DEF Filled
  <1>4. /\ imageSize' \in Nat /\ a + size <= imageSize'
        /\ imageSize' <= EndOf(size, a) /\ EndOf(size, a) \in Nat
        /\ a \in Nat /\ size \in Nat
    <2> HIDE DEF a, size
    <2>1. EndOf(size, a) \in Nat /\ EndOf(size, a) >= a + size
      BY <1>2, EndTyped
    <2> QED
      BY <1>2, <1>3, <2>1
  <1>a. CurrentSize \in Nat /\ CurrentSize <= a
    BY <1>1, <1>2, CurrentTyped
  <1>5. Typed'
    <2>1. known' \in 0 .. Len(file')
      BY <1>3
    <2>2. parts' = Append(parts, [size |-> size, addr |-> a, done |-> TRUE])
      BY <1>3
    <2>3. UNCHANGED <<kind, appended, opens>>
      BY <1>3
    <2> HIDE DEF x, size, a, n
    <2> QED
      BY <1>1, <1>2, <1>3, <1>4, <2>1, <2>2, <2>3, AddKeepsTypes DEF size, a
  <1>6. /\ Len(parts) \in Nat /\ Len(parts') = n
        /\ \A i \in 1 .. Len(parts) : parts'[i] = parts[i]
        /\ parts'[n] = x
        /\ \A i \in 1 .. Len(parts') : i \in 1 .. Len(parts) \/ i = n
        /\ \A i \in 1 .. Len(parts) : i \in 1 .. Len(parts')
        /\ n \in 1 .. Len(parts')
    BY <1>1, <1>3, OneMore
  <1>7. AllDone' => AllDone
    BY <1>6 DEF AllDone
  <1>8. Headed'
    BY <1>3, <1>7 DEF Headed
  <1>9. Behind'
    <2> SUFFICES ASSUME ~appended', NEW j \in 1 .. Len(parts'), parts'[j].done
                 PROVE  /\ parts'[j].addr + parts'[j].size <= imageSize'
                        /\ \A i \in 1 .. j - 1 : parts'[i].done =>
                              parts'[i].addr + parts'[i].size <= parts'[j].addr
      BY DEF Behind
    <2>1. ~appended /\ CurrentSize \in Nat
      BY <1>1, <1>3, CurrentTyped
    <2>2. CASE j = n
      <3>1. parts'[j].addr = a /\ parts'[j].size = size
        BY <1>6, <2>2
      <3>2. ASSUME NEW i \in 1 .. j - 1, parts'[i].done
            PROVE  parts'[i].addr + parts'[i].size <= parts'[j].addr
        <4>1. i \in 1 .. Len(parts) /\ parts'[i] = parts[i]
          BY <1>6, <2>2
        <4>2. parts[i].addr + parts[i].size <= CurrentSize
          BY <1>1, <2>1, <3>2, <4>1, BehindCurrent
        <4>3. parts[i].addr + parts[i].size \in Nat
          BY <1>1, <4>1, PartFields
        <4> HIDE DEF a, size
        <4>4. parts[i].addr + parts[i].size <= a
          BY <1>a, <1>4, <4>2, <4>3
        <4> QED
          BY <3>1, <4>1, <4>4
      <3> QED
        BY <1>4, <3>1, <3>2
    <2>3. CASE j \in 1 .. Len(parts)
      <3>1. parts'[j] = parts[j]
        BY <1>6, <2>3
      <3>2. \A i \in 1 .. j - 1 : parts[i].done =>
               parts[i].addr + parts[i].size <= parts[j].addr
        BY <1>1, <2>1, <2>3, <3>1 DEF Behind
      <3>3. \A i \in 1 .. j - 1 : parts'[i] = parts[i]
        BY <1>6, <2>3
      <3>4. parts[j].addr + parts[j].size <= CurrentSize
        BY <1>1, <2>1, <2>3, <3>1, BehindCurrent
      <3>5. parts[j].addr + parts[j].size \in Nat
        BY <1>1, <2>3, PartFields
      <3>6. parts[j].addr + parts[j].size <= imageSize'
        <4> HIDE DEF a, size
        <4> QED
          BY <1>a, <1>4, <3>4, <3>5
      <3> QED
        BY <3>1, <3>2, <3>3, <3>6
    <2> QED
      BY <1>6, <2>2, <2>3
  <1>10. Extracted'
    <2>1. CASE queue = <<>>
      <3>1. queue' = <<>> /\ extract'.images = <<>>
        BY <1>1, <1>3, <2>1, GoesOn
      <3> QED
        BY <3>1 DEF Extracted
    <2>2. CASE queue # <<>>
      <3> DEFINE I == extract.images
      <3>1. /\ extract' = extract /\ Len(queue) \in Nat /\ Len(queue) >= 1
            /\ Len(queue') = Len(queue) - 1
            /\ \A i \in 1 .. Len(queue') : queue'[i] = queue[i + 1]
        BY <1>1, <1>3, <2>2, GoesOn
      <3>2. I # <<>> /\ Ascending(I) /\ r = queue[1]
        <4>1. I # <<>> /\ Ascending(I)
          BY <1>1, <2>2 DEF Extracted
        <4> QED
          BY <1>2, <2>2, <4>1
      <3>3. I \in Seq(Requested) /\ Len(I) \in Nat
        BY <1>1, LenProperties DEF Typed
      <3>4. ASSUME I # <<>>, extract.fresh, AllDone', AllClear(I)
            PROVE  \E k \in 0 .. Len(I) : AddedTo(I, k)'
        <4>1. PICK k \in 0 .. Len(I) : AddedTo(I, k)
          BY <1>1, <1>7, <3>4 DEF Extracted
        <4> HIDE DEF I
        <4>2. /\ k + Len(queue) = Len(I)
              /\ \A i \in 1 .. Len(queue) : queue[i] = I[k + i]
              /\ \A i \in 1 .. k : IsAdded(I[i])
          BY <4>1 DEF AddedTo
        <4>3. /\ k + 1 \in 0 .. Len(I) /\ k + 1 > 0
              /\ (k + 1) + Len(queue') = Len(I)
          <5>1. k \in Nat /\ Len(I) \in Nat /\ k + Len(queue) = Len(I)
            BY <3>3, <4>2
          <5>2. Len(queue) \in Nat /\ Len(queue) >= 1 /\ Len(queue') = Len(queue) - 1
            BY <3>1
          <5>3. \A a1, b1, c1 \in Nat : a1 + b1 = c1 /\ b1 >= 1 =>
                    /\ a1 + 1 \in 0 .. c1 /\ a1 + 1 > 0
                    /\ (a1 + 1) + (b1 - 1) = c1
            OBVIOUS
          <5> QED
            BY <5>1, <5>2, <5>3, Zenon
        <4>4. I[k + 1] = r
          BY <3>1, <3>2, <4>2
        <4>5. ASSUME NEW i \in 1 .. Len(queue') PROVE queue'[i] = I[(k + 1) + i]
          <5>1. i + 1 \in 1 .. Len(queue) /\ k + (i + 1) = (k + 1) + i
            BY <3>1
          <5> QED
            BY <3>1, <4>2, <5>1
        <4>6. ASSUME NEW i \in 1 .. k + 1 
              PROVE  \E j \in 1 .. Len(parts') : /\ parts'[j].size = I[i].size
                                               /\ parts'[j].addr = I[i].addr
          <5>1. CASE i \in 1 .. k
            <6>1. PICK j \in 1 .. Len(parts) : /\ parts[j].size = I[i].size
                                               /\ parts[j].addr = I[i].addr
              BY <4>2, <5>1 DEF IsAdded
            <6>2. j \in 1 .. Len(parts') /\ parts'[j] = parts[j]
              BY <1>6
            <6> QED
              BY <6>1, <6>2
          <5>2. CASE i = k + 1
            <6>1. parts'[n].size = r.size /\ parts'[n].addr = r.addr /\ I[i] = r
              BY <1>6, <4>4, <5>2
            <6> QED
              BY <1>6, <6>1
          <5> QED
            BY <5>1, <5>2
        <4>7. CurrentSize' <= EndOf(I[k + 1].size, I[k + 1].addr)
          <5>1. CurrentSize' = imageSize'
            BY <1>3 DEF CurrentSize
          <5> QED
            BY <1>4, <4>4, <5>1
        <4>8. I' = I
          BY <3>1 DEF I
        <4>9. /\ (k + 1) + Len(queue') = Len(I')
              /\ \A i \in 1 .. Len(queue') : queue'[i] = I'[(k + 1) + i]
              /\ \A i \in 1 .. k + 1 :
                    \E j \in 1 .. Len(parts') : /\ parts'[j].size = I'[i].size
                                               /\ parts'[j].addr = I'[i].addr
              /\ k + 1 # 0
              /\ CurrentSize' <= EndOf(I'[k + 1].size, I'[k + 1].addr)
          <5>1. k + 1 # 0
            BY <4>3
          <5> QED
            BY <4>3, <4>5, <4>6, <4>7, <4>8, <5>1, Zenon
        <4>10. AddedTo(I, k + 1)'
          BY <4>9 DEF AddedTo, IsAdded
        <4> QED
          BY <4>3, <4>10
      <3> QED
        BY <3>1, <3>2, <3>4 DEF Extracted
    <2> QED
      BY <2>1, <2>2
  <1> QED
    BY <1>5, <1>8, <1>9, <1>10 DEF CombinedInv

LEMMA CutKeeps ==
    ASSUME CombinedInv, NEW r \in Requests, Len(parts) < MaxImages, kind # "none",
           Cut(r.size, r.addr)
    PROVE  CombinedInv'
  <1> DEFINE x == [size |-> r.size, addr |-> r.addr, done |-> FALSE]
             n == Len(parts) + 1
  <1>1. Typed /\ Headed /\ Behind /\ Extracted
    BY DEF CombinedInv
  <1>2. /\ parts' = Append(parts, x) /\ GoOn(FALSE)
        /\ kind' = kind /\ appended' = appended /\ opens' = opens
        /\ spoiled' \in BOOLEAN
        /\ Len(file') \in Nat /\ pos' \in 0 .. Len(file')
        /\ known' \in known .. Len(file')
        /\ imageSize' = CurrentSize
        /\ kind = "sparse" => IsSparse(file') /\ known' >= 4
    BY DEF Cut
  <1>3. known \in Nat /\ known' \in 0 .. Len(file') /\ (known' = 0 => known = 0)
    <2>1. known \in Nat
      BY <1>1 DEF Typed
    <2> QED
      BY <1>2, <2>1
  <1>4. Typed'
    <2>1. r.size \in ImageSizes /\ r.addr \in ImageAddrs
      BY <1>1, RequestTyped
    <2>2. imageSize' \in Nat
      BY <1>1, <1>2, CurrentTyped
    <2>3. UNCHANGED <<kind, appended, opens>>
      BY <1>2
    <2> QED
      BY <1>1, <1>2, <1>3, <2>1, <2>2, <2>3, AddKeepsTypes
  <1>5. /\ Len(parts) \in Nat /\ Len(parts') = n
        /\ \A i \in 1 .. Len(parts) : parts'[i] = parts[i]
        /\ parts'[n] = x
        /\ \A i \in 1 .. Len(parts') : i \in 1 .. Len(parts) \/ i = n
        /\ n \in 1 .. Len(parts')
    BY <1>1, <1>2, OneMore
  <1>6. ~parts'[n].done /\ ~AllDone'
    BY <1>5 DEF AllDone
  <1>7. Headed'
    <2>1. known' = 0 => \A i \in 1 .. Len(parts') : ~parts'[i].done
      <3>1. known' = 0 => \A i \in 1 .. Len(parts) : ~parts[i].done
        BY <1>1, <1>3 DEF Headed
      <3> QED
        BY <1>5, <1>6, <3>1
    <2> QED
      BY <1>2, <1>6, <2>1 DEF Headed
  <1>8. Behind'
    <2> SUFFICES ASSUME ~appended', NEW j \in 1 .. Len(parts'), parts'[j].done
                 PROVE  /\ parts'[j].addr + parts'[j].size <= imageSize'
                        /\ \A i \in 1 .. j - 1 : parts'[i].done =>
                              parts'[i].addr + parts'[i].size <= parts'[j].addr
      BY DEF Behind
    <2>1. ~appended /\ j \in 1 .. Len(parts)
      BY <1>2, <1>5, <1>6
    <2>2. parts'[j] = parts[j]
      BY <1>5, <2>1
    <2>3. \A i \in 1 .. j - 1 : parts[i].done =>
             parts[i].addr + parts[i].size <= parts[j].addr
      BY <1>1, <2>1, <2>2 DEF Behind
    <2>4. \A i \in 1 .. j - 1 : parts'[i] = parts[i]
      BY <1>5, <2>1
    <2>5. parts[j].addr + parts[j].size <= CurrentSize
      BY <1>1, <2>1, <2>2, BehindCurrent
    <2> QED
      BY <1>2, <2>2, <2>3, <2>4, <2>5
  <1>9. Extracted'
    <2>1. queue' = <<>>
      BY <1>1, <1>2, GoesOn
    <2>2. extract'.images # <<>> => Ascending(extract'.images)
      <3>1. CASE queue = <<>>
        BY <1>1, <1>2, <3>1, GoesOn
      <3>2. CASE queue # <<>>
        <4>1. extract' = extract
          BY <1>1, <1>2, <3>2, GoesOn
        <4> QED
          BY <1>1, <4>1 DEF Extracted
      <3> QED
        BY <3>1, <3>2
    <2> QED
      BY <1>6, <2>1, <2>2 DEF Extracted
  <1> QED
    BY <1>4, <1>7, <1>8, <1>9 DEF CombinedInv

\* Nothing is added: while all went well this happens only outside an
\* AutoExtract.
LEMMA NothingAdded ==
    ASSUME CombinedInv, UNCHANGED outfile, GoOn(FALSE),
           queue # <<>> =>
               ~(extract.fresh /\ AllDone /\ AllClear(extract.images))
    PROVE  CombinedInv'
  <1>1. Typed /\ Headed /\ Behind /\ Extracted
    BY DEF CombinedInv
  <1>2. /\ kind' = kind /\ file' = file /\ pos' = pos /\ known' = known
        /\ imageSize' = imageSize /\ parts' = parts /\ appended' = appended
        /\ spoiled' = spoiled /\ opens' = opens
    BY DEF outfile
  <1>3. /\ queue' = <<>> /\ queue' \in Seq(Requested)
        /\ extract'.images \in Seq(Requested)
        /\ queue = <<>> => extract'.images = <<>>
        /\ queue # <<>> => extract' = extract
    BY <1>1, GoesOn
  <1>4. Typed'
    BY <1>1, <1>2, <1>3 DEF Typed
  <1>5. Headed' /\ Behind'
    BY <1>1, <1>2 DEF Headed, Behind, AllDone
  <1>6. AllDone' = AllDone
    BY <1>2 DEF AllDone
  <1>7. Extracted'
    <2>1. CASE queue = <<>>
      BY <1>3, <2>1 DEF Extracted
    <2>2. CASE queue # <<>>
      <3>1. extract' = extract /\ queue' = <<>>
        BY <1>3, <2>2
      <3>2. ~(extract'.fresh /\ AllDone' /\ AllClear(extract'.images))
        BY <1>6, <2>2, <3>1
      <3> QED
        BY <1>1, <3>1, <3>2 DEF Extracted
    <2> QED
      BY <2>1, <2>2
  <1> QED
    BY <1>4, <1>5, <1>7 DEF CombinedInv

LEMMA RefuseKeeps ==
    ASSUME CombinedInv, NEW r \in Requests, Refuse(r.addr)
    PROVE  CombinedInv'
  <1> DEFINE I == extract.images
  <1>1. Typed /\ Headed /\ Behind /\ Extracted
    BY DEF CombinedInv
  <1>2. r.addr < CurrentSize /\ UNCHANGED outfile /\ GoOn(FALSE)
    BY DEF Refuse
  <1>3. ASSUME queue # <<>>, extract.fresh, AllDone, AllClear(I)
        PROVE  FALSE
    <2>1. I # <<>> /\ Ascending(I)
      BY <1>1, <1>3 DEF Extracted
    <2>2. PICK k \in 0 .. Len(I) : AddedTo(I, k)
      BY <1>1, <1>3, <2>1 DEF Extracted
    <2>3. I \in Seq(Requested) /\ Len(I) \in Nat /\ queue \in Seq(Requested)
      BY <1>1, LenProperties DEF Typed
    <2>4. Len(queue) \in Nat /\ Len(queue) >= 1
      BY <1>3, <2>3, LenProperties, EmptySeq
    <2> HIDE DEF I
    <2>5. /\ k + Len(queue) = Len(I)
          /\ \A i \in 1 .. Len(queue) : queue[i] = I[k + i]
          /\ k = 0 => known = 0
          /\ k > 0 => CurrentSize <= EndOf(I[k].size, I[k].addr)
      BY <2>2 DEF AddedTo
    <2>6. k + 1 \in 1 .. Len(I) /\ I[k + 1] = r
      <3>1. r = queue[1]
        BY <1>1, <1>3, RequestTyped
      <3> QED
        BY <2>3, <2>4, <2>5, <3>1
    <2>7. r.addr \in Nat /\ r.size \in Nat /\ CurrentSize \in Nat
      BY <1>1, RequestTyped, CurrentTyped
    <2>8. k # 0
      <3>1. k = 0 => CurrentSize = 0
        BY <2>5 DEF CurrentSize
      <3> QED
        BY <1>2, <2>7, <3>1
    <2>9. k \in 1 .. Len(I) /\ k < k + 1 /\ k # k + 1 /\ k > 0
      BY <2>3, <2>8
    <2>10. I[k].addr <= r.addr /\ Clear(I[k], r)
      BY <1>3, <2>1, <2>6, <2>9 DEF Ascending, AllClear
    <2>11. I[k].size \in Nat \ {0} /\ I[k].addr \in Nat
      <3>1. I[k] \in Requested
        BY <2>3, <2>9, ElementOfSeq
      <3> QED
        BY <3>1, RequestFields
    <2>12. r.size \in Nat \ {0}
      BY <1>1, RequestTyped
    <2>13. /\ EndOf(r.size, r.addr) \in Nat
           /\ EndOf(r.size, r.addr) >= r.addr + r.size
      BY <2>7, EndTyped
    <2>14. EndOf(I[k].size, I[k].addr) <= r.addr
      BY <2>7, <2>10, <2>11, <2>12, <2>13 DEF Clear
    <2>15. EndOf(I[k].size, I[k].addr) \in Nat
      BY <2>11, EndTyped
    <2>16. CurrentSize <= EndOf(I[k].size, I[k].addr)
      BY <2>5, <2>9
    <2> QED
      BY <1>2, <2>7, <2>14, <2>15, <2>16
  <1> QED
    BY <1>2, <1>3, NothingAdded

LEMMA WrongFileKeeps ==
    ASSUME CombinedInv, NEW r \in Requests, WrongFile(r.addr)
    PROVE  CombinedInv'
  <1>1. /\ kind = "sparse" /\ known # 0 /\ ~(known % 4 = 0 /\ IsSparse(file))
        /\ UNCHANGED outfile /\ GoOn(FALSE)
    BY DEF WrongFile
  <1>2. ~AllDone
    BY <1>1 DEF CombinedInv, Headed
  <1> QED
    BY <1>1, <1>2, NothingAdded

LEMMA NewFileKeeps ==
    ASSUME CombinedInv, NEW k \in {"sparse", "padded"}, NewFile(k)
    PROVE  CombinedInv'
  <1>1. Typed /\ Headed /\ Behind /\ Extracted
    BY DEF CombinedInv
  <1>2. /\ queue = <<>> /\ opens < MaxOpens /\ kind' = k
        /\ file' = <<>> /\ pos' = 0 /\ known' = 0 /\ parts' = <<>>
        /\ appended' = FALSE /\ spoiled' = FALSE /\ opens' = opens + 1
        /\ extract'.images = <<>> /\ imageSize' = imageSize /\ queue' = queue
    BY DEF NewFile, NoExtract
  <1>3. Typed'
    <2>1. \A S : <<>> \in Seq(S) /\ Len(<<>>) = 0
      BY EmptySeq
    <2>2. /\ Len(file') = 0 /\ Len(parts') = 0 /\ 0 <= MaxImages
          /\ parts' \in Seq([size : ImageSizes, addr : ImageAddrs, done : BOOLEAN])
          /\ queue' \in Seq(Requested) /\ extract'.images \in Seq(Requested)
      BY <1>2, <2>1, CombinedAssumption
    <2>3. opens' \in 0 .. MaxOpens
      <3>1. opens \in 0 .. MaxOpens
        BY <1>1 DEF Typed
      <3> QED
        BY <1>2, <3>1, CombinedAssumption
    <2>4. /\ kind' \in {"none", "sparse", "padded"}
          /\ appended' \in BOOLEAN /\ spoiled' \in BOOLEAN
      BY <1>2
    <2>5. Len(file') \in Nat /\ pos' \in 0 .. Len(file') /\ known' \in 0 .. Len(file')
      BY <1>2, <2>2
    <2>6. imageSize' \in Nat /\ Len(parts') <= MaxImages
      BY <1>1, <1>2, <2>2 DEF Typed
    <2> QED
      BY <2>2, <2>3, <2>4, <2>5, <2>6 DEF Typed
  <1>4. Len(parts') = 0 /\ Len(file') = 0
    BY <1>2, EmptySeq
  <1>5. Headed'
    <2>1. kind' # "none" /\ 0 % 4 = 0
      BY <1>2
    <2> QED
      BY <1>2, <1>4, <2>1 DEF Headed
  <1>6. Behind'
    BY <1>4 DEF Behind
  <1>7. Extracted'
    BY <1>2 DEF Extracted
  <1> QED
    BY <1>3, <1>5, <1>6, <1>7 DEF CombinedInv

LEMMA AppendToKeeps ==
    ASSUME CombinedInv, NEW k \in {"sparse", "padded"}, AppendTo(k)
    PROVE  CombinedInv'
  <1>1. Typed /\ Headed /\ Behind /\ Extracted
    BY DEF CombinedInv
  <1>2. /\ queue = <<>> /\ opens < MaxOpens /\ file # <<>> /\ kind = k
        /\ pos' = 0 /\ known' = Len(file) /\ imageSize' \in {imageSize, 0}
        /\ appended' = TRUE /\ opens' = opens + 1
        /\ extract'.images = <<>> /\ kind' = kind /\ file' = file
        /\ parts' = parts /\ spoiled' = spoiled /\ queue' = queue
    BY DEF AppendTo, NoExtract
  <1>3. Len(file) \in Nat /\ known \in 0 .. Len(file) /\ (Len(file) = 0 => known = 0)
    BY <1>1 DEF Typed
  <1>4. Typed'
    <2>1. extract'.images \in Seq(Requested)
      BY <1>2, EmptySeq
    <2>2. opens' \in 0 .. MaxOpens
      <3>1. opens \in 0 .. MaxOpens
        BY <1>1 DEF Typed
      <3> QED
        BY <1>2, <3>1, CombinedAssumption
    <2>3. Len(file') \in Nat /\ pos' \in 0 .. Len(file') /\ known' \in 0 .. Len(file')
      BY <1>2, <1>3
    <2>4. imageSize' \in Nat
      BY <1>1, <1>2 DEF Typed
    <2> QED
      BY <1>1, <1>2, <2>1, <2>2, <2>3, <2>4 DEF Typed
  <1>5. AllDone' = AllDone
    BY <1>2 DEF AllDone
  <1>6. Headed'
    <2>1. known' = 0 => \A i \in 1 .. Len(parts') : ~parts'[i].done
      BY <1>1, <1>2, <1>3 DEF Headed
    <2>2. kind' # "none"
      BY <1>2
    <2>3. kind' = "sparse" => known' >= 4 /\ IsSparse(file')
      BY <1>1, <1>2, <1>3 DEF Headed, IsSparse
    <2>4. kind' = "sparse" /\ AllDone' => known' = Len(file') /\ known' % 4 = 0
      BY <1>1, <1>2, <1>5 DEF Headed
    <2> QED
      BY <2>1, <2>2, <2>3, <2>4 DEF Headed
  <1>7. Behind'
    BY <1>2 DEF Behind
  <1>8. Extracted'
    BY <1>2 DEF Extracted
  <1> QED
    BY <1>4, <1>6, <1>7, <1>8 DEF CombinedInv

LEMMA ThreeElements ==
    ASSUME NEW S, NEW x \in S, NEW y \in S, NEW z \in S
    PROVE  <<x, y>> \o <<z>> = <<x, y, z>>
  <1> DEFINE p == <<x, y>>
             q == <<z>>
             t == <<x, y, z>>
  <1>1. /\ p \in Seq(S) /\ Len(p) = 2 /\ p[1] = x /\ p[2] = y
        /\ q \in Seq(S) /\ Len(q) = 1 /\ q[1] = z
        /\ t \in Seq(S) /\ Len(t) = 3 /\ t[1] = x /\ t[2] = y /\ t[3] = z
    OBVIOUS
  <1> HIDE DEF p, q, t
  <1>2. /\ p \o q \in Seq(S) /\ Len(p \o q) = Len(p) + Len(q)
        /\ \A i \in 1 .. Len(p) + Len(q) :
              (p \o q)[i] = IF i <= Len(p) THEN p[i] ELSE q[i - Len(p)]
    BY <1>1, ConcatProperties
  <1>3. \A i \in 1 .. 3 : i = 1 \/ i = 2 \/ i = 3
    OBVIOUS
  <1>4. (p \o q)[1] = x /\ (p \o q)[2] = y /\ (p \o q)[3] = z /\ Len(p \o q) = 3
    <2>1. 1 \in 1 .. 2 + 1 /\ 2 \in 1 .. 2 + 1 /\ 3 \in 1 .. 2 + 1 /\ 3 - 2 = 1
          /\ 1 <= 2 /\ 2 <= 2 /\ ~(3 <= 2) /\ 2 + 1 = 3
      OBVIOUS
    <2> QED
      BY <1>1, <1>2, <2>1
  <1>5. \A i \in 1 .. 3 : (p \o q)[i] = t[i]
    BY <1>1, <1>3, <1>4
  <1>6. p \o q = t
    BY <1>1, <1>2, <1>4, <1>5, SeqEqual
  <1> QED
    BY <1>6 DEF p, q, t

\* The images of an ELF file come in the order of their addresses.
LEMMA InOrderTyped ==
    ASSUME NEW boot \in [size : BootSizes, addr : {0}],
           NEW irom \in [size : ElfSizes, addr : ElfAddrs \ {0}],
           NEW extra \in {<<>>} \cup {<<x>> : x \in [size : ElfSizes, addr : ElfAddrs]}
    PROVE  /\ InOrder(boot, irom, extra) \in Seq(Requested)
           /\ Ascending(InOrder(boot, irom, extra))
           /\ Len(InOrder(boot, irom, extra)) \in {2, 3}
  <1>1. boot \in Requested /\ boot.addr = 0
    BY DEF Requested, ImageSizes, ImageAddrs
  <1>2. irom \in Requested
    BY CombinedAssumption DEF Requested, ImageSizes, ImageAddrs
  <1>3. \A r \in Requested : r.addr \in Nat
    BY RequestFields
  <1>4. ASSUME extra = <<>>
        PROVE  InOrder(boot, irom, extra) = <<boot, irom>>
    <2>1. InOrder(boot, irom, extra) = <<boot, irom>> \o <<>>
      BY <1>4 DEF InOrder
    <2>2. <<boot, irom>> \in Seq(Requested)
      BY <1>1, <1>2
    <2> QED
      BY <2>1, <2>2, ConcatEmptySeq
  <1>5. ASSUME extra # <<>>
        PROVE  \E x \in Requested :
                  \/ irom.addr <= x.addr
                     /\ InOrder(boot, irom, extra) = <<boot, irom, x>>
                  \/ x.addr <= irom.addr
                     /\ InOrder(boot, irom, extra) = <<boot, x, irom>>
    <2>1. PICK x \in [size : ElfSizes, addr : ElfAddrs] : extra = <<x>>
      BY <1>5
    <2>2. x \in Requested
      BY CombinedAssumption DEF Requested, ImageSizes, ImageAddrs
    <2>3. extra[1] = x
      BY <2>1
    <2>4. x.addr \in Nat /\ irom.addr \in Nat
      BY <1>2, <1>3, <2>2
    <2>5. CASE x.addr < irom.addr
      <3>1. InOrder(boot, irom, extra) = <<boot, x, irom>>
        BY <1>5, <2>3, <2>5 DEF InOrder
      <3> QED
        BY <2>2, <2>4, <2>5, <3>1
    <2>6. CASE ~(x.addr < irom.addr)
      <3>1. InOrder(boot, irom, extra) = <<boot, irom>> \o <<x>>
        BY <2>1, <2>3, <2>6 DEF InOrder
      <3>2. <<boot, irom>> \o <<x>> = <<boot, irom, x>>
        BY <1>1, <1>2, <2>2, ThreeElements
      <3>3. irom.addr <= x.addr
        BY <2>4, <2>6
      <3> QED
        BY <2>2, <3>1, <3>2, <3>3
    <2> QED
      BY <2>5, <2>6
  <1>6. ASSUME NEW x \in Requested
        PROVE  /\ <<boot, x>> \in Seq(Requested) /\ Len(<<boot, x>>) = 2
               /\ Ascending(<<boot, x>>)
    <2>1. /\ <<boot, x>> \in Seq(Requested) /\ Len(<<boot, x>>) = 2
          /\ <<boot, x>>[1] = boot /\ <<boot, x>>[2] = x
      BY <1>1
    <2> DEFINE I == <<boot, x>>
    <2> HIDE DEF I
    <2>2. \A i, j \in 1 .. 2 : i < j => i = 1 /\ j = 2
      OBVIOUS
    <2>3. boot.addr <= x.addr
      BY <1>1, <1>3
    <2>4. \A i, j \in 1 .. Len(I) : i < j => I[i].addr <= I[j].addr
      BY <2>1, <2>2, <2>3 DEF I
    <2> QED
      BY <2>1, <2>4 DEF Ascending, I
  <1>7. ASSUME NEW x \in Requested, NEW y \in Requested, x.addr <= y.addr
        PROVE  /\ <<boot, x, y>> \in Seq(Requested) /\ Len(<<boot, x, y>>) = 3
               /\ Ascending(<<boot, x, y>>)
    <2>1. /\ <<boot, x, y>> \in Seq(Requested) /\ Len(<<boot, x, y>>) = 3
          /\ <<boot, x, y>>[1] = boot /\ <<boot, x, y>>[2] = x
          /\ <<boot, x, y>>[3] = y
      BY <1>1
    <2> DEFINE I == <<boot, x, y>>
    <2> HIDE DEF I
    <2>2. \A i, j \in 1 .. 3 :
             i < j => (i = 1 /\ j = 2) \/ (i = 1 /\ j = 3) \/ (i = 2 /\ j = 3)
      OBVIOUS
    <2>3. boot.addr <= x.addr /\ boot.addr <= y.addr
      BY <1>1, <1>3
    <2>4. \A i, j \in 1 .. Len(I) : i < j => I[i].addr <= I[j].addr
      BY <1>7, <2>1, <2>2, <2>3 DEF I
    <2> QED
      BY <2>1, <2>4 DEF Ascending, I
  <1>8. CASE extra = <<>>
    BY <1>2, <1>4, <1>6, <1>8
  <1>9. CASE extra # <<>>
    BY <1>2, <1>5, <1>7, <1>9
  <1> QED
    BY <1>8, <1>9

LEMMA AutoExtractKeeps ==
    ASSUME CombinedInv, AutoExtract
    PROVE  CombinedInv'
  <1>1. Typed /\ Headed /\ Behind /\ Extracted
    BY DEF CombinedInv
  <1>2. PICK boot \in [size : BootSizes, addr : {0}],
             irom \in [size : ElfSizes, addr : ElfAddrs \ {0}],
             extra \in {<<>>} \cup {<<x>> : x \in [size : ElfSizes, addr : ElfAddrs]} :
             /\ queue' = InOrder(boot, irom, extra)
             /\ extract' = [images |-> InOrder(boot, irom, extra),
                            fresh |-> known = 0]
    BY DEF AutoExtract
  <1> DEFINE I == InOrder(boot, irom, extra)
  <1>3. I \in Seq(Requested) /\ Ascending(I) /\ Len(I) \in {2, 3}
    BY InOrderTyped
  <1>4. queue' = I /\ extract'.images = I /\ extract'.fresh = (known = 0)
    BY <1>2
  <1>5. /\ kind' = kind /\ file' = file /\ pos' = pos /\ known' = known
        /\ imageSize' = imageSize /\ parts' = parts /\ appended' = appended
        /\ spoiled' = spoiled /\ opens' = opens
    BY DEF AutoExtract, outfile
  <1> HIDE DEF I
  <1>6. Typed'
    BY <1>1, <1>3, <1>4, <1>5 DEF Typed
  <1>7. Headed' /\ Behind'
    BY <1>1, <1>5 DEF Headed, Behind, AllDone
  <1>8. I # <<>>
    BY <1>3, EmptySeq
  <1>9. extract'.fresh => AddedTo(extract.images, 0)'
    <2>1. \A i \in 1 .. Len(I) : 0 + i = i
      BY <1>3
    <2>2. 0 + Len(I) = Len(I)
      BY <1>3
    <2>3. ~(0 > 0) /\ \A i \in 1 .. 0 : FALSE
      OBVIOUS
    <2>4. /\ 0 + Len(queue') = Len(extract'.images)
          /\ \A i \in 1 .. Len(queue') : queue'[i] = extract'.images[0 + i]
          /\ \A i \in 1 .. 0 : IsAdded(extract.images[i])'
          /\ extract'.fresh => known' = 0
      BY <1>4, <1>5, <2>1, <2>2, <2>3
    <2> QED
      BY <2>3, <2>4 DEF AddedTo
  <1>10. Extracted'
    <2>1. 0 \in 0 .. Len(extract'.images)
      BY <1>3, <1>4
    <2> QED
      BY <1>3, <1>4, <1>8, <1>9, <2>1 DEF Extracted
  <1> QED
    BY <1>6, <1>7, <1>10 DEF CombinedInv

LEMMA StutterKeeps ==
    ASSUME CombinedInv, UNCHANGED vars
    PROVE  CombinedInv'
  <1>1. /\ kind' = kind /\ file' = file /\ pos' = pos /\ known' = known
        /\ imageSize' = imageSize /\ parts' = parts /\ appended' = appended
        /\ spoiled' = spoiled /\ opens' = opens /\ queue' = queue
        /\ extract' = extract
    BY DEF vars, outfile
  <1> QED
    BY <1>1 DEF CombinedInv, Typed, Headed, Behind, Extracted, AllDone, AddedTo,
                IsAdded, CurrentSize

LEMMA CombinedStep == CombinedInv /\ [Next]_vars => CombinedInv'
  <1> SUFFICES ASSUME CombinedInv, [Next]_vars
               PROVE  CombinedInv'
    OBVIOUS
  <1>1. ASSUME NEW k \in {"sparse", "padded"}, NewFile(k)
        PROVE  CombinedInv'
    BY <1>1, NewFileKeeps
  <1>2. ASSUME NEW k \in {"sparse", "padded"}, AppendTo(k)
        PROVE  CombinedInv'
    BY <1>2, AppendToKeeps
  <1>3. CASE AutoExtract
    BY <1>3, AutoExtractKeeps
  <1>4. ASSUME NEW r \in Requests,
               AddPadded(r.size, r.addr) \/ AddSparse(r.size, r.addr)
        PROVE  CombinedInv'
    <2>1. r.size \in Nat \ {0} /\ r.addr \in Nat
      BY RequestTyped DEF CombinedInv
    <2>2. /\ kind # "none" /\ Len(parts) < MaxImages /\ r.addr >= CurrentSize
          /\ Filled(r.size, r.addr) \/ Cut(r.size, r.addr)
      BY <1>4, <2>1, PaddedEffect, SparseEffect
         DEF CombinedInv, AddPadded, AddSparse, Fits
    <2> QED
      BY <2>2, FilledKeeps, CutKeeps
  <1>5. ASSUME NEW r \in Requests, Refuse(r.addr)
        PROVE  CombinedInv'
    BY <1>5, RefuseKeeps
  <1>6. ASSUME NEW r \in Requests, WrongFile(r.addr)
        PROVE  CombinedInv'
    BY <1>6, WrongFileKeeps
  <1>7. CASE UNCHANGED vars
    BY <1>7, StutterKeeps
  <1> QED
    BY <1>1, <1>2, <1>3, <1>4, <1>5, <1>6, <1>7 DEF Next

LEMMA CombinedAlways == Spec => []CombinedInv
  BY CombinedInit, CombinedStep, PTL DEF Spec

-----------------------------------------------------------------------------
(* Theorems *)

\* The variables have their types; the position in the combined file and the
\* size that fstat gives are within the file.
THEOREM CombinedTyped == Spec => []TypeOK
  <1>1. CombinedInv => TypeOK
    BY DEF CombinedInv, Typed, TypeOK, Requested
  <1> QED
    BY <1>1, CombinedAlways, PTL

\* The block of the last byte before an address, and the block of an address
\* behind it.
LEMMA BlocksApart ==
    ASSUME NEW e \in Nat, NEW a \in Nat, e <= a, e >= 1
    PROVE  /\ (e - 1) \div BlkSize <= a \div BlkSize
           /\ a % BlkSize = 0 => (e - 1) \div BlkSize < a \div BlkSize
  BY CombinedAssumption

\* An image begins at its address, or before it in the same block.
LEMMA LandsBelow ==
    ASSUME NEW a \in Nat
    PROVE  /\ LandsAt(a) \in Nat /\ LandsAt(a) <= a
           /\ LandsAt(a) \div BlkSize = a \div BlkSize
  BY CombinedAssumption DEF LandsAt

LEMMA PlaceBelow ==
    ASSUME NEW p, p.addr \in Nat
    PROVE  /\ Place(p) \in Nat /\ Place(p) <= p.addr
           /\ Place(p) \div BlkSize = p.addr \div BlkSize
  BY LandsBelow DEF Place

\* Two images of a file that was new, as AddImage let them in (esp.cpp:1008),
\* share no block of the Flash, where flashBegin would erase the one with the
\* other, but the block in which the later one begins, and that only when its
\* address is not on a block boundary; although m_imageSize lasts from file to
\* file and an image may be cut short.
THEOREM ImagesKeptApart == Spec => []KeptApart
  <1>1. ASSUME CombinedInv PROVE KeptApart
    <2> SUFFICES ASSUME ~appended,
                        NEW x \in DOMAIN parts, NEW y \in DOMAIN parts, x < y,
                        parts[x].done, parts[y].done,
                        NEW b \in Blocks(parts[x]) \cap Blocks(parts[y])
                 PROVE  b = parts[y].addr \div BlkSize /\ parts[y].addr % BlkSize # 0
      BY DEF KeptApart
    <2>1. Typed /\ Behind
      BY <1>1 DEF CombinedInv
    <2>2. x \in 1 .. Len(parts) /\ y \in 1 .. Len(parts) /\ Len(parts) \in Nat
      BY <2>1, LenProperties DEF Typed
    <2> DEFINE e == Place(parts[x]) + parts[x].size
               a == parts[y].addr
               l == (e - 1) \div BlkSize
               f == a \div BlkSize
    <2>3. x \in 1 .. y - 1
      BY <2>2
    <2>4. /\ parts[x].addr \in Nat /\ parts[x].size \in Nat \ {0} /\ a \in Nat
          /\ parts[y].size \in Nat \ {0}
      BY <2>1, <2>2, PartFields
    <2>5. parts[x].addr + parts[x].size <= a
      BY <2>1, <2>2, <2>3 DEF Behind
    <2>6. /\ Place(parts[x]) \in Nat /\ Place(parts[x]) <= parts[x].addr
          /\ Place(parts[y]) \div BlkSize = f
      BY <2>4, PlaceBelow
    <2>7. e \in Nat /\ e >= 1 /\ e <= a
      BY <2>4, <2>5, <2>6
    <2>8. b \in Int /\ b <= l /\ f <= b
      <3>1. Blocks(parts[x]) = Place(parts[x]) \div BlkSize .. l
        <4>1. Place(parts[x]) + parts[x].size - 1 = e - 1
          BY <2>4, <2>6
        <4> HIDE DEF e
        <4> QED
          BY <4>1, Zenon DEF Blocks
      <3>2. \A v \in Blocks(parts[y]) : v \in Int /\ Place(parts[y]) \div BlkSize <= v
        BY DEF Blocks
      <3> HIDE DEF l, f
      <3> QED
        BY <2>6, <3>1, <3>2
    <2> HIDE DEF e, a
    <2>9. /\ l \in Int /\ f \in Int /\ l <= f
          /\ a % BlkSize = 0 => l < f
      BY <2>4, <2>7, BlocksApart, CombinedAssumption
    <2> HIDE DEF l, f
    <2> QED
      BY <2>8, <2>9 DEF f, a
  <1> QED
    BY <1>1, CombinedAlways, PTL

\* ESP::AutoExtract brings every image of the ELF file into a combined file
\* that was empty, in whichever order they lie, unless one could not be read or
\* there is no room between them.
THEOREM ElfImagesAllAdded == Spec => []ExtractWhole
  <1>1. ASSUME CombinedInv PROVE ExtractWhole
    <2> DEFINE I == extract.images
    <2> SUFFICES ASSUME I # <<>>, queue = <<>>, extract.fresh,
                        \A i \in DOMAIN parts : parts[i].done,
                        \A i, j \in DOMAIN I : i # j => Clear(I[i], I[j])
                 PROVE  \A i \in DOMAIN I : \E j \in DOMAIN parts :
                           parts[j].size = I[i].size /\ parts[j].addr = I[i].addr
      BY DEF ExtractWhole
    <2>1. DOMAIN I = 1 .. Len(I) /\ DOMAIN parts = 1 .. Len(parts) /\ Len(I) \in Nat
      BY <1>1, LenProperties DEF CombinedInv, Typed
    <2>2. AllDone /\ AllClear(I)
      BY <2>1 DEF AllDone, AllClear
    <2>3. PICK k \in 0 .. Len(I) : AddedTo(I, k)
      BY <1>1, <2>2 DEF CombinedInv, Extracted
    <2>4. k + Len(queue) = Len(I) /\ \A i \in 1 .. k : IsAdded(I[i])
      BY <2>3 DEF AddedTo
    <2>5. k = Len(I)
      <3>1. Len(queue) = 0
        BY EmptySeq
      <3> QED
        BY <2>1, <2>4, <3>1
    <2> QED
      BY <2>1, <2>4, <2>5 DEF IsAdded
  <1> QED
    BY <1>1, CombinedAlways, PTL

-----------------------------------------------------------------------------
(* Where the images lie in a sparse file *)

\* The file f has the header of the image r at p.
HeaderAt(f, p, r) ==
    /\ p + 8 <= Len(f)
    /\ f[p + 1] = <<"addr", r.addr>> /\ f[p + 5] = <<"length", RoundUp(r.size)>>

\* The n-th image, r, is in the file f with its header at p.
BytesAt(f, p, n, r) ==
    /\ p + 8 + RoundUp(r.size) <= Len(f)
    /\ \A k \in 1 .. r.size : f[p + 8 + k] = ImageByte(n, k - 1)

\* The header of image i of a sparse file starts at at[i - 1].
Offsets(at) ==
    /\ at \in [0 .. Len(parts) -> {p \in Nat : p >= 4}]
    /\ at[0] = 4
    /\ \A i \in 1 .. Len(parts) : at[i] = at[i - 1] + 8 + RoundUp(parts[i].size)

LaidAt(at) ==
    /\ \A i \in 1 .. Len(parts) :
          /\ HeaderAt(file, at[i - 1], parts[i])
          /\ parts[i].done => BytesAt(file, at[i - 1], i, parts[i])
    /\ AllDone => Len(file) = at[Len(parts)]

\* No image is added to a file after one that could not be read.
NotSpoiled ==
    /\ ~spoiled => \A i \in 1 .. Len(parts) - 1 : parts[i].done
    /\ spoiled => ~AllDone

\* All images of a sparse file are where the headers before them say.
Laid ==
    /\ kind = "sparse" /\ parts = <<>> => known = 0
    /\ kind = "sparse" /\ ~spoiled /\ parts # <<>> =>
          /\ file[4] = <<"count", Len(parts)>>
          /\ \E at : Offsets(at) /\ LaidAt(at)

LaidInv == CombinedInv /\ NotSpoiled /\ Laid

\* The first n cells of f behind the header of the file are in g as well.
Extends(g, f, n) == n <= Len(g) /\ \A i \in 5 .. n : g[i] = f[i]

\* What is laid stays where it is when the header of the file is written again
\* and something is added at its end.
LEMMA LaidStays ==
    ASSUME NEW f, NEW g, Len(f) \in Nat, Len(g) \in Nat, Extends(g, f, Len(f)),
           NEW p \in {q \in Nat : q >= 4}, NEW n \in Nat,
           NEW r, r.size \in Nat, r.addr \in Nat
    PROVE  /\ HeaderAt(f, p, r) => HeaderAt(g, p, r)
           /\ BytesAt(f, p, n, r) => BytesAt(g, p, n, r)
  <1>1. Len(f) <= Len(g) /\ \A i \in 5 .. Len(f) : g[i] = f[i]
    BY DEF Extends
  <1>2. p \in Nat /\ p >= 4
    OBVIOUS
  <1>3. ASSUME HeaderAt(f, p, r) PROVE HeaderAt(g, p, r)
    <2>1. p + 8 <= Len(f)
      BY <1>3 DEF HeaderAt
    <2>2. p + 1 \in 5 .. Len(f) /\ p + 5 \in 5 .. Len(f) /\ p + 8 <= Len(g)
      BY <1>1, <1>2, <2>1
    <2>3. g[p + 1] = f[p + 1] /\ g[p + 5] = f[p + 5]
      BY <1>1, <2>2
    <2> QED
      BY <1>3, <2>2, <2>3 DEF HeaderAt
  <1>4. ASSUME BytesAt(f, p, n, r) PROVE BytesAt(g, p, n, r)
    <2>1. RoundUp(r.size) \in Nat /\ RoundUp(r.size) >= r.size
      BY Rounded
    <2>2. p + 8 + RoundUp(r.size) <= Len(f)
      BY <1>4 DEF BytesAt
    <2>3. p + 8 + RoundUp(r.size) <= Len(g)
      BY <1>1, <1>2, <2>1, <2>2
    <2>4. ASSUME NEW k \in 1 .. r.size PROVE g[p + 8 + k] = f[p + 8 + k]
      <3>1. p + 8 + k \in 5 .. Len(f)
        BY <1>2, <2>1, <2>2
      <3> QED
        BY <1>1, <3>1
    <2> QED
      BY <1>4, <2>3, <2>4 DEF BytesAt
  <1> QED
    BY <1>3, <1>4

\* The file g after s was written behind the header of the image r, at p.
SparseWritten(g, p, s, r) ==
    /\ Len(g) = p + 8 + Len(s) /\ Len(g) \in Nat
    /\ Extends(g, file, Len(file))
    /\ p = IF known = 0 THEN 4 ELSE Len(file)
    /\ g[4] = <<"count", IF known = 0 THEN 1 ELSE (Count(file) + 1) % 256>>
    /\ HeaderAt(g, p, r)
    /\ \A k \in 1 .. Len(s) : g[p + 8 + k] = s[k]

\* What AddImage writes, when all images before were read to their end.
LEMMA SparseCellsWritten ==
    ASSUME Typed, Headed, AllDone, kind = "sparse", NEW h, h = WithHeader,
           known = 0 \/ (known % 4 = 0 /\ IsSparse(file)),
           NEW r, r.addr \in Nat, r.size \in Nat, NEW s \in Seq(Cells),
           NEW g, g = WriteAt(h.file, h.pos, ImageHeader(r.addr, RoundUp(r.size)) \o s)
    PROVE  SparseWritten(g, h.pos, s, r)
  <1> DEFINE hf == h.file
             hp == h.pos
             len == RoundUp(r.size)
             header == ImageHeader(r.addr, len)
             text == header \o s
  <1>1. /\ Len(hf) \in Nat /\ Len(hf) >= 4 /\ hp \in 4 .. Len(hf)
        /\ known = 0 => hp = 4 /\ Len(hf) = 4
        /\ known # 0 => hp = known /\ Len(hf) = Len(file)
        /\ known = 0 => hf[4] = <<"count", 1>>
        /\ known # 0 => hf[4] = <<"count", (Count(file) + 1) % 256>>
        /\ \A i \in 5 .. Len(file) : hf[i] = file[i]
    BY HeaderWritten
  <1>2. len \in Nat
    BY Rounded
  <1>3. /\ header \in Seq(Cells) /\ Len(header) = 8
        /\ \A i \in 1 .. 4 : header[i] = <<"addr", r.addr>>
        /\ \A i \in 5 .. 8 : header[i] = <<"length", len>>
    <2> HIDE DEF len
    <2> QED
      BY <1>2, HeaderTyped
  <1>4. g = WriteAt(hf, hp, text)
    OBVIOUS
  <1>5. Len(s) \in Nat
    BY LenProperties
  <1>6. Len(file) \in Nat /\ known = Len(file)
    BY DEF Headed, Typed
  <1> HIDE DEF hf, hp, header, len
  <1>7. /\ text \in Seq(Cells) /\ Len(text) = Len(header) + Len(s)
        /\ \A i \in 1 .. Len(header) + Len(s) :
              text[i] = IF i <= Len(header) THEN header[i] ELSE s[i - Len(header)]
    BY <1>3, ConcatProperties
  <1> HIDE DEF text
  <1>8. Len(text) = 8 + Len(s) /\ Len(text) \in Nat
    BY <1>3, <1>5, <1>7
  <1>9. /\ hp \in Nat /\ hp >= 4 /\ Len(hf) \in Nat /\ Len(hf) = hp
        /\ hp = IF known = 0 THEN 4 ELSE Len(file)
        /\ Len(file) <= Len(hf)
    <2>1. CASE known = 0
      BY <1>1, <1>6, <2>1
    <2>2. CASE known # 0
      BY <1>1, <1>6, <2>2
    <2> QED
      BY <2>1, <2>2
  <1>10. /\ Len(g) = Larger(Len(hf), hp + Len(text)) /\ Len(g) \in Nat
         /\ \A i \in 1 .. Len(text) : g[hp + i] = text[i]
         /\ \A i \in 1 .. Len(hf) : i <= hp \/ i > hp + Len(text) => g[i] = hf[i]
    <2>1. hp \in Nat /\ Len(hf) \in Nat /\ Len(text) \in Nat
      BY <1>8, <1>9
    <2>2. WrittenAt(hf, hp, text, g)
      BY <1>4, <2>1, WrittenThere
    <2> QED
      BY <2>2 DEF WrittenAt
  <1>11. Len(g) = hp + 8 + Len(s)
    <2>1. hp \in Nat /\ Len(hf) = hp /\ Len(text) = 8 + Len(s)
      BY <1>8, <1>9
    <2>2. Len(g) = Larger(hp, hp + Len(text))
      BY <1>10, <2>1
    <2>3. \A x, y \in Nat : Larger(x, x + (8 + y)) = x + 8 + y
      BY DEF Larger
    <2> QED
      BY <1>5, <2>1, <2>2, <2>3
  <1>12. Extends(g, file, Len(file))
    <2>1. ASSUME NEW i \in 5 .. Len(file) PROVE g[i] = file[i]
      <3>1. i \in 1 .. Len(hf) /\ i <= hp
        BY <1>6, <1>9
      <3> QED
        BY <1>1, <1>10, <3>1
    <2>2. Len(file) <= Len(g)
      BY <1>5, <1>6, <1>9, <1>11
    <2> QED
      BY <2>1, <2>2 DEF Extends
  <1>13. g[4] = hf[4]
    <2>1. 4 \in 1 .. Len(hf) /\ 4 <= hp
      BY <1>9
    <2> QED
      BY <1>10, <2>1
  <1>14. HeaderAt(g, hp, r)
    <2>1. 1 \in 1 .. Len(text) /\ 5 \in 1 .. Len(text) /\ hp + 8 <= Len(g)
      BY <1>5, <1>8, <1>9, <1>11
    <2>2. g[hp + 1] = text[1] /\ g[hp + 5] = text[5]
      BY <1>10, <2>1
    <2>3. text[1] = header[1] /\ text[5] = header[5]
      <3>1. /\ 1 \in 1 .. Len(header) + Len(s) /\ 5 \in 1 .. Len(header) + Len(s)
            /\ 1 <= Len(header) /\ 5 <= Len(header)
        BY <1>3, <1>5
      <3> QED
        BY <1>7, <3>1
    <2>4. header[1] = <<"addr", r.addr>> /\ header[5] = <<"length", len>>
      <3>1. 1 \in 1 .. 4 /\ 5 \in 5 .. 8
        OBVIOUS
      <3> QED
        BY <1>3, <3>1
    <2> QED
      BY <2>1, <2>2, <2>3, <2>4 DEF HeaderAt, len
  <1>15. ASSUME NEW k \in 1 .. Len(s) PROVE g[hp + 8 + k] = s[k]
    <2>1. /\ 8 + k \in 1 .. Len(text) /\ hp + (8 + k) = hp + 8 + k
          /\ 8 + k \in 1 .. Len(header) + Len(s) /\ ~(8 + k <= Len(header))
          /\ (8 + k) - Len(header) = k
      <3>1. hp \in Nat /\ Len(text) = 8 + Len(s) /\ Len(header) = 8
        BY <1>3, <1>8, <1>9
      <3>2. k \in Nat /\ k >= 1 /\ k <= Len(s)
        BY <1>5
      <3> QED
        BY <1>5, <3>1, <3>2
    <2>2. g[hp + (8 + k)] = text[8 + k]
      BY <1>10, <2>1
    <2>3. text[8 + k] = s[k]
      BY <1>7, <2>1
    <2> QED
      BY <2>1, <2>2, <2>3
  <1> QED
    BY <1>1, <1>9, <1>10, <1>11, <1>12, <1>13, <1>14, <1>15 DEF hp, SparseWritten

\* Before AddImage adds to a sparse file that is whole: the offsets of the
\* images in it, and the next.
LEMMA OldOffsets ==
    ASSUME LaidInv, AllDone, kind = "sparse", MaxImages <= 255,
           known = 0 \/ (known % 4 = 0 /\ IsSparse(file)),
           NEW hp, hp = IF known = 0 THEN 4 ELSE Len(file)
    PROVE  \E at : /\ Offsets(at) /\ at[Len(parts)] = hp
                   /\ \A i \in 1 .. Len(parts) :
                         /\ HeaderAt(file, at[i - 1], parts[i])
                         /\ BytesAt(file, at[i - 1], i, parts[i])
  <1>1. Typed /\ Headed /\ NotSpoiled /\ Laid
    BY DEF LaidInv, CombinedInv
  <1>2. ~spoiled
    BY <1>1 DEF NotSpoiled, Typed
  <1>3. CASE known = 0
    <2> DEFINE at == [i \in 0 .. 0 |-> 4]
    <2>1. parts = <<>> /\ Len(parts) = 0
      BY <1>1, <1>3, EmptySeq DEF Headed
    <2>2. at \in [0 .. 0 -> {p \in Nat : p >= 4}] /\ at[0] = 4
      OBVIOUS
    <2> HIDE DEF at
    <2>3. Offsets(at) /\ at[Len(parts)] = hp
      BY <1>3, <2>1, <2>2 DEF Offsets
    <2> QED
      BY <2>1, <2>3
  <1>4. CASE known # 0
    <2>1. parts # <<>>
      BY <1>1, <1>4 DEF Laid
    <2>2. PICK at : Offsets(at) /\ LaidAt(at)
      BY <1>1, <1>2, <2>1 DEF Laid
    <2>3. at[Len(parts)] = hp
      BY <1>4, <2>2 DEF LaidAt
    <2>4. \A i \in 1 .. Len(parts) : parts[i].done
      BY DEF AllDone
    <2> QED
      BY <2>2, <2>3, <2>4 DEF LaidAt
  <1> QED
    BY <1>3, <1>4

\* The count in the header is that of the images.
LEMMA CountKept ==
    ASSUME LaidInv, AllDone, kind = "sparse", MaxImages <= 255, Len(parts) < MaxImages,
           known = 0 \/ (known % 4 = 0 /\ IsSparse(file))
    PROVE  (IF known = 0 THEN 1 ELSE (Count(file) + 1) % 256) = Len(parts) + 1
  <1>1. Typed /\ Headed /\ NotSpoiled /\ Laid
    BY DEF LaidInv, CombinedInv
  <1>2. CASE known = 0
    <2>1. Len(parts) = 0
      BY <1>1, <1>2, EmptySeq DEF Headed
    <2> QED
      BY <1>2, <2>1
  <1>3. CASE known # 0
    <2>1. parts # <<>> /\ ~spoiled
      BY <1>1, <1>3 DEF Laid, NotSpoiled, Typed
    <2>2. file[4] = <<"count", Len(parts)>>
      BY <1>1, <2>1 DEF Laid
    <2>3. Count(file) = Len(parts)
      BY <2>2 DEF Count
    <2>4. Len(parts) \in Nat /\ Len(parts) < 255
      BY <1>1, LenProperties, CombinedAssumption DEF Typed
    <2>5. (Len(parts) + 1) % 256 = Len(parts) + 1
      BY <2>4
    <2> QED
      BY <1>3, <2>3, <2>5
  <1> QED
    BY <1>2, <1>3

\* One image more is laid.
LEMMA OneMoreLaid ==
    ASSUME Typed, NEW r, r.size \in Nat, r.addr \in Nat, r.done \in BOOLEAN,
           AllDone, Len(file') \in Nat, parts' = Append(parts, r),
           NEW at, Offsets(at),
           \A i \in 1 .. Len(parts) : /\ HeaderAt(file, at[i - 1], parts[i])
                                      /\ BytesAt(file, at[i - 1], i, parts[i]),
           Extends(file', file, Len(file)),
           HeaderAt(file', at[Len(parts)], r),
           r.done => /\ BytesAt(file', at[Len(parts)], Len(parts) + 1, r)
                     /\ Len(file') = at[Len(parts)] + 8 + RoundUp(r.size)
    PROVE  \E new : Offsets(new)' /\ LaidAt(new)'
  <1> DEFINE n == Len(parts)
             end == at[n] + 8 + RoundUp(r.size)
             built == [i \in 0 .. n + 1 |-> IF i = n + 1 THEN end ELSE at[i]]
             B == {p \in Nat : p >= 4}
  <1>1. /\ n \in Nat /\ Len(parts') = n + 1
        /\ \A i \in 1 .. n : parts'[i] = parts[i]
        /\ parts'[n + 1] = r
        /\ \A i \in 1 .. n + 1 : i \in 1 .. n \/ i = n + 1
    BY OneMore
  <1>2. at \in [0 .. n -> B] /\ at[0] = 4
        /\ \A i \in 1 .. n : at[i] = at[i - 1] + 8 + RoundUp(parts[i].size)
    BY DEF Offsets
  <1>3. RoundUp(r.size) \in Nat
    BY Rounded
  <1>4. n \in 0 .. n /\ 0 \in 0 .. n /\ n + 1 \notin 0 .. n /\ n + 1 # 0
    BY <1>1
  <1>5. end \in B
    <2>1. at[n] \in B
      BY <1>2, <1>4
    <2> QED
      BY <1>3, <2>1
  <1>6. \A i \in 0 .. n : i # n + 1 /\ i \in 0 .. n + 1
    BY <1>1
  <1> HIDE DEF end, n
  <1>7. \A i \in 0 .. n + 1 : i = n + 1 \/ i \in 0 .. n
    BY <1>1
  <1>8. n + 1 \in 0 .. n + 1
    BY <1>1
  <1>9. \A i \in 0 .. n : at[i] \in B
    BY <1>2
  <1> HIDE DEF B
  <1>n. PICK new : new = built
    OBVIOUS
  <1>10. new \in [0 .. n + 1 -> B]
    BY <1>n, <1>5, <1>7, <1>9
  <1>11. new[n + 1] = end /\ \A i \in 0 .. n : new[i] = at[i]
    BY <1>n, <1>6, <1>8
  <1> HIDE DEF built
  <1>12. \A i \in 1 .. n : i \in 0 .. n /\ i - 1 \in 0 .. n
    BY <1>1
  <1>13. \A i \in 1 .. n : new[i] = at[i] /\ new[i - 1] = at[i - 1] /\ at[i - 1] \in B
    BY <1>9, <1>11, <1>12
  <1>14. (n + 1) - 1 = n /\ new[n] = at[n]
    BY <1>1, <1>4, <1>11
  <1>15. Offsets(new)'
    <2>1. new[0] = 4
      BY <1>2, <1>4, <1>11
    <2>2. ASSUME NEW i \in 1 .. n + 1
          PROVE  new[i] = new[i - 1] + 8 + RoundUp(parts'[i].size)
      <3>1. CASE i \in 1 .. n
        BY <1>1, <1>2, <1>13, <3>1
      <3>2. CASE i = n + 1
        BY <1>1, <1>11, <1>14, <3>2 DEF end
      <3> QED
        BY <1>1, <3>1, <3>2
    <2> QED
      BY <1>1, <1>10, <2>1, <2>2 DEF Offsets, B
  <1>16. ASSUME NEW i \in 1 .. n + 1
         PROVE  /\ HeaderAt(file', new[i - 1], parts'[i])
                /\ parts'[i].done => BytesAt(file', new[i - 1], i, parts'[i])
    <2>1. CASE i \in 1 .. n
      <3>1. HeaderAt(file, at[i - 1], parts[i]) /\ BytesAt(file, at[i - 1], i, parts[i])
        BY <2>1 DEF n
      <3>2. at[i - 1] \in {q \in Nat : q >= 4} /\ i \in Nat
        BY <1>13, <2>1 DEF B
      <3>3. parts[i].size \in Nat /\ parts[i].addr \in Nat
        BY <2>1, PartFields DEF n
      <3>4. Len(file) \in Nat
        BY DEF Typed
      <3>5. HeaderAt(file', at[i - 1], parts[i]) /\ BytesAt(file', at[i - 1], i, parts[i])
        BY <3>1, <3>2, <3>3, <3>4, LaidStays
      <3>6. parts'[i] = parts[i] /\ new[i - 1] = at[i - 1]
        BY <1>1, <1>13, <2>1
      <3> QED
        BY <3>5, <3>6
    <2>2. CASE i = n + 1
      <3>1. parts'[i] = r /\ new[i - 1] = at[n]
        BY <1>1, <1>14, <2>2
      <3> QED
        BY <2>2, <3>1 DEF n
    <2> QED
      BY <1>1, <2>1, <2>2
  <1>17. AllDone' => Len(file') = new[n + 1]
    <2>1. AllDone' => r.done
      <3>1. n + 1 \in 1 .. Len(parts')
        BY <1>1
      <3> QED
        BY <1>1, <3>1 DEF AllDone
    <2> QED
      BY <1>11, <2>1 DEF end, n
  <1>18. LaidAt(new)'
    BY <1>1, <1>16, <1>17 DEF LaidAt
  <1> QED
    BY <1>15, <1>18

\* Adding an image behind one that was cut short spoils the file.
LEMMA Spoils ==
    ASSUME Typed, NotSpoiled, NEW x, parts' = Append(parts, x),
           spoiled' = (spoiled \/ \E i \in 1 .. Len(parts) : ~parts[i].done)
    PROVE  /\ NotSpoiled' /\ parts' # <<>>
           /\ ~spoiled' => ~spoiled /\ AllDone
  <1>1. /\ Len(parts) \in Nat /\ Len(parts') = Len(parts) + 1
        /\ \A i \in 1 .. Len(parts) : parts'[i] = parts[i]
        /\ \A i \in 1 .. Len(parts) : i \in 1 .. Len(parts')
    BY OneMore
  <1>2. ~spoiled' => ~spoiled /\ AllDone
    BY DEF AllDone
  <1>3. AllDone' => AllDone
    BY <1>1 DEF AllDone
  <1>4. spoiled' => ~AllDone
    BY DEF NotSpoiled, AllDone
  <1>5. ~spoiled' => \A i \in 1 .. Len(parts') - 1 : parts'[i].done
    <2>1. Len(parts') - 1 = Len(parts)
      BY <1>1
    <2> QED
      BY <1>1, <1>2, <2>1 DEF AllDone
  <1>6. parts' # <<>>
    <2>1. Len(parts') # 0
      BY <1>1
    <2> QED
      BY <2>1, EmptySeq
  <1> QED
    BY <1>2, <1>3, <1>4, <1>5, <1>6 DEF NotSpoiled

\* AddImage has written s behind the headers.
LEMMA SparseLays ==
    ASSUME LaidInv, MaxImages <= 255, Len(parts) < MaxImages,
           kind = "sparse", kind' = kind,
           known = 0 \/ (known % 4 = 0 /\ IsSparse(file)),
           NEW size \in Nat \ {0}, NEW a \in Nat, NEW d \in BOOLEAN,
           NEW s \in Seq(Cells),
           d => /\ Len(s) = RoundUp(size)
                /\ \A k \in 1 .. size : s[k] = ImageByte(Len(parts) + 1, k - 1),
           file' = WriteAt(WithHeader.file, WithHeader.pos,
                           ImageHeader(a, RoundUp(size)) \o s),
           parts' = Append(parts, [size |-> size, addr |-> a, done |-> d]),
           spoiled' = (spoiled \/ \E i \in 1 .. Len(parts) : ~parts[i].done)
    PROVE  NotSpoiled' /\ Laid'
  <1> DEFINE r == [size |-> size, addr |-> a, done |-> d]
             n == Len(parts)
  <1>1. Typed /\ Headed /\ NotSpoiled
    BY DEF LaidInv, CombinedInv
  <1>2. NotSpoiled' /\ parts' # <<>> /\ (~spoiled' => ~spoiled /\ AllDone)
    BY <1>1, Spoils
  <1>3. ASSUME ~spoiled'
        PROVE  /\ file'[4] = <<"count", Len(parts')>>
               /\ \E at : Offsets(at)' /\ LaidAt(at)'
    <2>1. AllDone
      BY <1>2, <1>3
    <2>2. PICK h : h = WithHeader
      OBVIOUS
    <2>3. r.size = size /\ r.addr = a /\ r.done = d
      OBVIOUS
    <2>4. parts' = Append(parts, r)
      OBVIOUS
    <2>5. file' = WriteAt(h.file, h.pos, ImageHeader(r.addr, RoundUp(r.size)) \o s)
      BY <2>2, <2>3
    <2>6. r.addr \in Nat /\ r.size \in Nat /\ r.done \in BOOLEAN
      BY <2>3
    <2> HIDE DEF r
    <2>7. /\ Len(file') = h.pos + 8 + Len(s) /\ Len(file') \in Nat
          /\ Extends(file', file, Len(file))
          /\ h.pos = IF known = 0 THEN 4 ELSE Len(file)
          /\ file'[4] = <<"count", IF known = 0 THEN 1 ELSE (Count(file) + 1) % 256>>
          /\ HeaderAt(file', h.pos, r)
          /\ \A k \in 1 .. Len(s) : file'[h.pos + 8 + k] = s[k]
      <3>1. SparseWritten(file', h.pos, s, r)
        BY <1>1, <2>1, <2>2, <2>5, <2>6, SparseCellsWritten
      <3> QED
        BY <3>1 DEF SparseWritten
    <2>8. n \in Nat /\ Len(parts') = n + 1
      BY <1>1, <2>4, OneMore
    <2>9. file'[4] = <<"count", Len(parts')>>
      BY <2>1, <2>7, <2>8, CountKept
    <2>10. PICK at : /\ Offsets(at) /\ at[n] = h.pos
                     /\ \A i \in 1 .. n : /\ HeaderAt(file, at[i - 1], parts[i])
                                          /\ BytesAt(file, at[i - 1], i, parts[i])
      BY <2>1, <2>7, OldOffsets
    <2>11. ASSUME r.done
           PROVE  /\ BytesAt(file', at[n], n + 1, r)
                  /\ Len(file') = at[n] + 8 + RoundUp(r.size)
      <3>1. d
        BY <2>3, <2>11
      <3>2. Len(s) = RoundUp(r.size)
        BY <2>3, <3>1
      <3>3. \A k \in 1 .. r.size : s[k] = ImageByte(n + 1, k - 1)
        BY <2>3, <3>1
      <3>4. RoundUp(r.size) \in Nat /\ r.size <= RoundUp(r.size)
        BY <2>6, Rounded
      <3>5. \A k \in 1 .. r.size : k \in 1 .. Len(s)
        BY <2>6, <3>2, <3>4
      <3>6. \A k \in 1 .. r.size : file'[at[n] + 8 + k] = ImageByte(n + 1, k - 1)
        BY <2>7, <2>10, <3>3, <3>5
      <3>7. Len(file') = at[n] + 8 + RoundUp(r.size)
        BY <2>7, <2>10, <3>2
      <3>8. at[n] + 8 + RoundUp(r.size) <= Len(file')
        BY <2>7, <3>7
      <3> QED
        BY <3>6, <3>7, <3>8 DEF BytesAt
    <2>12. HeaderAt(file', at[n], r)
      BY <2>7, <2>10
    <2> HIDE DEF n
    <2>13. \E at2 : Offsets(at2)' /\ LaidAt(at2)'
      <3>1. r.done => /\ BytesAt(file', at[Len(parts)], Len(parts) + 1, r)
                      /\ Len(file') = at[Len(parts)] + 8 + RoundUp(r.size)
        BY <2>11 DEF n
      <3>2. HeaderAt(file', at[Len(parts)], r)
        BY <2>12 DEF n
      <3>3. \A i \in 1 .. Len(parts) : /\ HeaderAt(file, at[i - 1], parts[i])
                                       /\ BytesAt(file, at[i - 1], i, parts[i])
        BY <2>10 DEF n
      <3>4. Offsets(at) /\ Len(file') \in Nat /\ Extends(file', file, Len(file))
        BY <2>7, <2>10
      <3> QED
        BY <1>1, <2>1, <2>4, <2>6, <3>1, <3>2, <3>3, <3>4, OneMoreLaid
    <2> QED
      BY <2>9, <2>13
  <1>4. Laid'
    BY <1>2, <1>3 DEF Laid
  <1> QED
    BY <1>2, <1>4

\* While nothing happens to the file its images lie where they lay.
LEMMA LaidUnchanged ==
    ASSUME LaidInv, UNCHANGED <<kind, file, known, parts, spoiled>>
    PROVE  NotSpoiled' /\ Laid'
  BY DEF LaidInv, NotSpoiled, Laid, AllDone, Offsets, LaidAt

LEMMA AddSparseLays ==
    ASSUME LaidInv, MaxImages <= 255, NEW size \in Nat \ {0}, NEW a \in Nat,
           AddSparse(size, a)
    PROVE  NotSpoiled' /\ Laid'
  <1> DEFINE n == Len(parts) + 1
             len == RoundUp(size)
             whole == Image(n, size) \o Padding(size)
             f(s) == WriteAt(WithHeader.file, WithHeader.pos, ImageHeader(a, len) \o s)
  <1>1. /\ kind = "sparse" /\ Len(parts) < MaxImages /\ n \in Nat
        /\ known = 0 \/ (known % 4 = 0 /\ IsSparse(file))
    BY LenProperties DEF AddSparse, Fits, LaidInv, CombinedInv, Typed
  <1>2. \/ Added(f(whole), WithHeader.pos + 8 + len, size, a)
        \/ \E k \in Copied(size) :
               Broken(f(Image(n, k)), WithHeader.pos + 8 + k, size, a, 4)
    BY DEF AddSparse
  <1>3. /\ whole \in Seq(Cells) /\ Len(whole) = RoundUp(size)
        /\ \A k \in 1 .. size : whole[k] = ImageByte(Len(parts) + 1, k - 1)
    BY <1>1, PaddedImage
  <1>4. CASE Added(f(whole), WithHeader.pos + 8 + len, size, a)
    <2>1. /\ file' = f(whole) /\ kind' = kind
          /\ parts' = Append(parts, [size |-> size, addr |-> a, done |-> TRUE])
          /\ spoiled' = (spoiled \/ \E i \in 1 .. Len(parts) : ~parts[i].done)
      BY <1>4 DEF Added
    <2> HIDE DEF whole, n
    <2>2. file' = WriteAt(WithHeader.file, WithHeader.pos,
                          ImageHeader(a, RoundUp(size)) \o whole)
      BY <2>1
    <2> QED
      BY <1>1, <1>3, <2>1, <2>2, SparseLays
  <1>5. ASSUME NEW k \in Copied(size),
               Broken(f(Image(n, k)), WithHeader.pos + 8 + k, size, a, 4)
        PROVE  NotSpoiled' /\ Laid'
    <2> DEFINE part == Image(n, k)
    <2>1. /\ file' = f(part) /\ kind' = kind
          /\ parts' = Append(parts, [size |-> size, addr |-> a, done |-> FALSE])
          /\ spoiled' = (spoiled \/ \E i \in 1 .. Len(parts) : ~parts[i].done)
      BY <1>5 DEF Broken
    <2>2. part \in Seq(Cells)
      BY <1>1, CopiedTyped, ImageTyped
    <2> HIDE DEF part, n
    <2>3. file' = WriteAt(WithHeader.file, WithHeader.pos,
                          ImageHeader(a, RoundUp(size)) \o part)
      BY <2>1
    <2> QED
      BY <1>1, <2>1, <2>2, <2>3, SparseLays
  <1> QED
    BY <1>2, <1>4, <1>5

LEMMA LaidInit == Init => LaidInv
  <1> SUFFICES ASSUME Init PROVE LaidInv
    OBVIOUS
  <1>1. /\ kind = "none" /\ known = 0 /\ parts = <<>> /\ spoiled = FALSE
        /\ Len(parts) = 0
    BY EmptySeq DEF Init
  <1>2. NotSpoiled /\ Laid
    BY <1>1 DEF NotSpoiled, Laid
  <1> QED
    BY <1>2, CombinedInit DEF LaidInv

LEMMA LaidStep ==
    ASSUME MaxImages <= 255
    PROVE  LaidInv /\ [Next]_vars => LaidInv'
  <1> SUFFICES ASSUME LaidInv, [Next]_vars
               PROVE  NotSpoiled' /\ Laid'
    BY CombinedStep DEF LaidInv
  <1>1. ASSUME NEW k \in {"sparse", "padded"}, NewFile(k)
        PROVE  NotSpoiled' /\ Laid'
    <2>1. parts' = <<>> /\ known' = 0 /\ spoiled' = FALSE /\ Len(parts') = 0
      BY <1>1, EmptySeq DEF NewFile
    <2> QED
      BY <2>1 DEF NotSpoiled, Laid
  <1>2. ASSUME NEW k \in {"sparse", "padded"}, AppendTo(k)
        PROVE  NotSpoiled' /\ Laid'
    <2>1. /\ file # <<>> /\ kind' = kind /\ file' = file /\ parts' = parts
          /\ spoiled' = spoiled
      BY <1>2 DEF AppendTo
    <2>2. ~(kind = "sparse" /\ parts = <<>>)
      BY <2>1 DEF LaidInv, Laid, CombinedInv, Headed
    <2>3. NotSpoiled'
      BY <2>1 DEF LaidInv, NotSpoiled, AllDone
    <2>4. Laid'
      BY <2>1, <2>2 DEF LaidInv, Laid, AllDone, Offsets, LaidAt
    <2> QED
      BY <2>3, <2>4
  <1>3. CASE AutoExtract
    BY <1>3, LaidUnchanged DEF AutoExtract, outfile
  <1>4. ASSUME NEW r \in Requests, AddPadded(r.size, r.addr)
        PROVE  NotSpoiled' /\ Laid'
    <2>1. kind' = "padded"
      BY <1>4 DEF AddPadded, Added, Broken
    <2>2. \E x : parts' = Append(parts, x)
      BY <1>4 DEF AddPadded, Added, Broken
    <2>3. spoiled' = (spoiled \/ \E i \in 1 .. Len(parts) : ~parts[i].done)
      BY <1>4 DEF AddPadded, Added, Broken
    <2>4. Typed /\ NotSpoiled
      BY DEF LaidInv, CombinedInv
    <2>5. NotSpoiled'
      BY <2>2, <2>3, <2>4, Spoils
    <2> QED
      BY <2>1, <2>5 DEF Laid
  <1>5. ASSUME NEW r \in Requests, AddSparse(r.size, r.addr)
        PROVE  NotSpoiled' /\ Laid'
    <2>1. r.size \in Nat \ {0} /\ r.addr \in Nat
      BY RequestTyped DEF LaidInv, CombinedInv
    <2> QED
      BY <1>5, <2>1, AddSparseLays
  <1>6. ASSUME NEW r \in Requests, Refuse(r.addr) \/ WrongFile(r.addr)
        PROVE  NotSpoiled' /\ Laid'
    BY <1>6, LaidUnchanged DEF Refuse, WrongFile, outfile
  <1>7. CASE UNCHANGED vars
    BY <1>7, LaidUnchanged DEF vars, outfile
  <1> QED
    BY <1>1, <1>2, <1>3, <1>4, <1>5, <1>6, <1>7 DEF Next

LEMMA LaidAlways ==
    ASSUME MaxImages <= 255
    PROVE  Spec => []LaidInv
  <1>1. LaidInv /\ [Next]_vars => LaidInv'
    BY LaidStep
  <1> QED
    BY <1>1, LaidInit, PTL DEF Spec

-----------------------------------------------------------------------------
(* What ImageInfo lists *)

Listing == [addr : Nat, size : Nat]

\* The images e lie in the file f, one after the other.
ListCells(f, n, at, e) ==
    \A i \in 1 .. n : /\ at[i] = at[i - 1] + 8 + e[i].size
                      /\ at[i - 1] + 8 <= Len(f)
                      /\ f[at[i - 1] + 1] = <<"addr", e[i].addr>>
                      /\ f[at[i - 1] + 5] = <<"length", e[i].size>>

\* What ImageInfo reads of image i is in the file.
InFile(f, at, reach, i) ==
    at[i - 1] + 12 <= Len(f) /\ at[i - 1] + 8 + reach[i] <= Len(f)

LEMMA MoreListed ==
    ASSUME NEW n \in Nat, NEW e \in [1 .. n -> Listing], NEW i \in 1 .. n
    PROVE  Append(FirstOf(e, i - 1), e[i]) = FirstOf(e, i)
  BY OneMoreOf

\* ImageInfo finds image after image where they were laid, up to image m of
\* which it cannot read enough, or up to the last.
LEMMA ListedUpTo ==
    ASSUME NEW f, NEW n \in Nat, Count(f) = n,
           NEW at \in [0 .. n -> Nat], at[0] = 4, NEW e \in [1 .. n -> Listing],
           ListCells(f, n, at, e), NEW reach,
           NEW m \in 1 .. n + 1, \A i \in 1 .. m - 1 : InFile(f, at, reach, i),
           m <= n => ~InFile(f, at, reach, m)
    PROVE  Listed(f, reach) =
               IF n < m THEN [at |-> at[n], images |-> FirstOf(e, n), ok |-> TRUE]
               ELSE [at |-> at[m], images |-> FirstOf(e, m), ok |-> FALSE]
  <1> DEFINE after(p, i) ==
                IF p.ok /\ p.at + 8 <= Len(f) /\ f[p.at + 1][1] = "addr"
                THEN [at     |-> AfterImage(p.at, f[p.at + 5][2]),
                      images |-> Append(p.images, [addr |-> f[p.at + 1][2],
                                                   size |-> f[p.at + 5][2]]),
                      ok     |-> /\ p.at + 12 <= Len(f)
                                 /\ p.at + 8 + reach[i] <= Len(f)]
                ELSE [p EXCEPT !.ok = FALSE]
             start == [at |-> 4, images |-> <<>>, ok |-> TRUE]
             Equation(l) ==
                l = [i \in 0 .. Count(f) |->
                        IF i = 0 THEN start ELSE after(l[i - 1], i)]
             im(i) == FirstOf(e, i)
             found(i, b) == [at |-> at[i], images |-> im(i), ok |-> b]
             g == [i \in 0 .. n |-> IF i < m THEN found(i, TRUE) ELSE found(m, FALSE)]
  <1>0. \A i \in 1 .. n : /\ at[i] = at[i - 1] + 8 + e[i].size
                          /\ at[i - 1] + 8 <= Len(f)
                          /\ f[at[i - 1] + 1] = <<"addr", e[i].addr>>
                          /\ f[at[i - 1] + 5] = <<"length", e[i].size>>
    BY DEF ListCells
  <1>1. Listed(f, reach) = (CHOOSE l : Equation(l))[Count(f)]
    BY DEF Listed
  <1>2. g[0] = start
    <2>1. im(0) = <<>>
      BY DEF FirstOf
    <2> HIDE DEF im
    <2>2. 0 \in 0 .. n /\ 0 < m
      OBVIOUS
    <2> QED
      BY <2>1, <2>2
  <1>3. ASSUME NEW i \in 1 .. n
        PROVE  after(found(i - 1, TRUE), i) = found(i, InFile(f, at, reach, i))
    <2> DEFINE p == found(i - 1, TRUE)
    <2>1. i - 1 \in 0 .. n /\ i \in 0 .. n
      OBVIOUS
    <2>2. p.at = at[i - 1] /\ p.images = im(i - 1) /\ p.ok = TRUE
      OBVIOUS
    <2> HIDE DEF p, g
    <2>4. Append(im(i - 1), e[i]) = im(i)
      BY MoreListed
    <2> HIDE DEF im
    <2>5. e[i] = [addr |-> e[i].addr, size |-> e[i].size]
      <3>1. e[i] \in Listing
        OBVIOUS
      <3> QED
        BY <3>1 DEF Listing
    <2>6. /\ f[p.at + 1][1] = "addr" /\ f[p.at + 1][2] = e[i].addr
          /\ f[p.at + 5][2] = e[i].size /\ p.at + 8 <= Len(f)
      <3>1. /\ at[i - 1] + 8 <= Len(f)
            /\ f[at[i - 1] + 1] = <<"addr", e[i].addr>>
            /\ f[at[i - 1] + 5] = <<"length", e[i].size>>
        BY <1>0
      <3>2. /\ f[at[i - 1] + 1][1] = "addr" /\ f[at[i - 1] + 1][2] = e[i].addr
            /\ f[at[i - 1] + 5][2] = e[i].size
        BY <3>1
      <3> QED
        BY <2>2, <3>1, <3>2
    <2>7. AfterImage(p.at, e[i].size) = at[i]
      BY <1>0, <2>2 DEF AfterImage
    <2>8. after(p, i) = [at |-> AfterImage(p.at, f[p.at + 5][2]),
                         images |-> Append(p.images, [addr |-> f[p.at + 1][2],
                                                      size |-> f[p.at + 5][2]]),
                         ok |-> /\ p.at + 12 <= Len(f)
                                /\ p.at + 8 + reach[i] <= Len(f)]
      BY <2>2, <2>6
    <2>9. (/\ p.at + 12 <= Len(f) /\ p.at + 8 + reach[i] <= Len(f))
             = InFile(f, at, reach, i)
      BY <2>2 DEF InFile
    <2> HIDE DEF after
    <2>10. after(p, i) = found(i, InFile(f, at, reach, i))
      BY <2>2, <2>4, <2>5, <2>6, <2>7, <2>8, <2>9
    <2> QED
      BY <2>10 DEF p
  <1>4. ASSUME NEW i \in 1 .. n, i > m
        PROVE  after(found(m, FALSE), i) = found(m, FALSE)
    OBVIOUS
  <1> HIDE DEF after, start, found
  <1>5. ASSUME NEW i \in 1 .. n PROVE g[i] = after(g[i - 1], i)
    <2>1. i \in 0 .. n /\ i - 1 \in 0 .. n
      OBVIOUS
    <2>2. /\ g[i] = IF i < m THEN found(i, TRUE) ELSE found(m, FALSE)
          /\ g[i - 1] = IF i - 1 < m THEN found(i - 1, TRUE) ELSE found(m, FALSE)
      BY <2>1
    <2> HIDE DEF g
    <2>3. CASE i < m
      <3>1. i - 1 < m /\ i \in 1 .. m - 1
        BY <2>3
      <3>2. InFile(f, at, reach, i) = TRUE
        BY <3>1 DEF InFile
      <3> QED
        BY <1>3, <2>2, <2>3, <3>1, <3>2
    <2>4. CASE i = m
      <3>1. i - 1 < m /\ ~(i < m) /\ m <= n
        BY <2>4
      <3>2. InFile(f, at, reach, i) = FALSE
        BY <2>4, <3>1 DEF InFile
      <3> QED
        BY <1>3, <2>2, <2>4, <3>1, <3>2
    <2>5. CASE i > m
      <3>1. ~(i - 1 < m) /\ ~(i < m)
        BY <2>5
      <3> QED
        BY <1>4, <2>2, <2>5, <3>1
    <2> QED
      BY <2>3, <2>4, <2>5
  <1>6. Equation(g)
    <2>1. ASSUME NEW i \in 0 .. n
          PROVE  g[i] = IF i = 0 THEN start ELSE after(g[i - 1], i)
      <3>1. i = 0 \/ i \in 1 .. n
        OBVIOUS
      <3> HIDE DEF g
      <3> QED
        BY <1>2, <1>5, <3>1
    <2>2. g = [i \in 0 .. n |-> g[i]]
      OBVIOUS
    <2> HIDE DEF g
    <2> QED
      BY <2>1, <2>2
  <1>7. n \in 0 .. n
    OBVIOUS
  <1>8. g[n] = IF n < m THEN found(n, TRUE) ELSE found(m, FALSE)
    BY <1>7
  <1> HIDE DEF g
  <1>9. ASSUME NEW l, Equation(l) PROVE l[n] = g[n]
    <2>1. \A i \in 0 .. n : l[i] = IF i = 0 THEN start ELSE after(l[i - 1], i)
      BY <1>9
    <2>2. l[0] = g[0]
      <3>1. 0 \in 0 .. n
        OBVIOUS
      <3>2. l[0] = start
        BY <2>1, <3>1
      <3> QED
        BY <1>2, <3>2
    <2>3. ASSUME NEW i \in 1 .. n, l[i - 1] = g[i - 1] PROVE l[i] = g[i]
      <3>1. i \in 0 .. n /\ i # 0
        OBVIOUS
      <3> QED
        BY <1>5, <2>1, <2>3, <3>1
    <2>4. Agree(n, l, g)
      BY <2>2, <2>3, RecursionUnique
    <2> QED
      BY <2>4 DEF Agree
  <1> HIDE DEF Equation
  <1>10. Equation(CHOOSE l : Equation(l))
    BY <1>6
  <1>11. Listed(f, reach) = g[n]
    BY <1>1, <1>9, <1>10
  <1> QED
    BY <1>8, <1>11 DEF found

\* ImageInfo lists what was laid, or it ends with an error.
LEMMA ListedLaid ==
    ASSUME NEW f, NEW n \in Nat, Count(f) = n,
           NEW at \in [0 .. n -> Nat], at[0] = 4, NEW e \in [1 .. n -> Listing],
           ListCells(f, n, at, e), NEW reach
    PROVE  /\ Listed(f, reach).ok <=> (\A i \in 1 .. n : InFile(f, at, reach, i))
           /\ Listed(f, reach).ok => /\ Listed(f, reach).at = at[n]
                                     /\ Listed(f, reach).images = FirstOf(e, n)
  <1>1. CASE \A i \in 1 .. n : InFile(f, at, reach, i)
    <2>1. n + 1 \in 1 .. n + 1 /\ (n + 1) - 1 = n /\ ~(n + 1 <= n) /\ n < n + 1
      OBVIOUS
    <2>2. Listed(f, reach) = [at |-> at[n], images |-> FirstOf(e, n), ok |-> TRUE]
      BY <1>1, <2>1, ListedUpTo
    <2> QED
      BY <1>1, <2>2
  <1>2. CASE ~\A i \in 1 .. n : InFile(f, at, reach, i)
    <2> DEFINE T == {i \in 1 .. n : ~InFile(f, at, reach, i)}
    <2>1. T \in SUBSET Nat /\ T # {}
      BY <1>2
    <2>2. PICK m \in T : \A i \in T : m <= i
      BY <2>1, LeastNumber
    <2>3. m \in 1 .. n /\ ~InFile(f, at, reach, m)
      OBVIOUS
    <2>4. \A i \in 1 .. m - 1 : InFile(f, at, reach, i)
      BY <2>2, <2>3
    <2>5. m \in 1 .. n + 1 /\ ~(n < m)
      BY <2>3
    <2> HIDE DEF T
    <2>6. Listed(f, reach) = [at |-> at[m], images |-> FirstOf(e, m), ok |-> FALSE]
      BY <2>3, <2>4, <2>5, ListedUpTo
    <2> QED
      BY <1>2, <2>6
  <1> QED
    BY <1>1, <1>2

\* When ESP::ImageInfo ends without an error, it has listed every image of a
\* sparse file with the address it was added for, and ends at the end of the
\* file.  It does so when stdImageInfo, which it calls for what begins like a
\* boot image, reads none of the images further than it goes; it ends with an
\* error when the last one is read further.  The count of images must fit into
\* its byte (esp.cpp:1060).
THEOREM SparseImagesListed ==
    ASSUME MaxImages <= 255
    PROVE  Spec => []ListedAsAdded
  <1>1. ASSUME LaidInv PROVE ListedAsAdded
    <2> DEFINE Within(reach, i) == reach[i] <= RoundUp(parts[i].size)
    <2> SUFFICES ASSUME kind = "sparse", parts # <<>>,
                        \A i \in DOMAIN parts : parts[i].done,
                        NEW reach \in [DOMAIN parts -> Reaches]
                 PROVE  LET l == Listed(file, reach)
                        IN  /\ l.ok => /\ l.at = Len(file)
                                       /\ l.images = [i \in DOMAIN parts |->
                                             [addr |-> parts[i].addr,
                                              size |-> RoundUp(parts[i].size)]]
                            /\ (\A i \in DOMAIN parts : Within(reach, i)) => l.ok
                            /\ ~Within(reach, Len(parts)) => ~l.ok
      BY DEF ListedAsAdded
    <2> HIDE DEF Within
    <2> DEFINE n == Len(parts)
               part(i) == [addr |-> parts[i].addr, size |-> RoundUp(parts[i].size)]
               e == [i \in 1 .. n |-> part(i)]
    <2>1. Typed /\ NotSpoiled /\ Laid
      BY <1>1 DEF LaidInv, CombinedInv
    <2>2. n \in Nat /\ DOMAIN parts = 1 .. n /\ n # 0
      BY <2>1, LenProperties, EmptySeq DEF Typed
    <2>3. AllDone /\ ~spoiled
      BY <2>1, <2>2 DEF AllDone, NotSpoiled, Typed
    <2>4. Count(file) = n
      BY <2>1, <2>3 DEF Laid, Count
    <2>5. PICK at : Offsets(at) /\ LaidAt(at)
      BY <2>1, <2>3 DEF Laid
    <2>6. \A i \in 1 .. n : e[i].addr = parts[i].addr /\ e[i].size = RoundUp(parts[i].size)
      OBVIOUS
    <2>7. e \in [1 .. n -> Listing]
      <3>1. \A i \in 1 .. n : part(i) \in Listing
        BY <2>1, PartFields, Rounded DEF Listing
      <3> HIDE DEF part
      <3> QED
        BY <3>1
    <2>8. FirstOf(e, n) = [i \in DOMAIN parts |-> part(i)]
      BY <2>2 DEF FirstOf
    <2> HIDE DEF e, n, part
    <2>9. at \in [0 .. n -> Nat] /\ at[0] = 4
      BY <2>5 DEF Offsets, n
    <2>10. ASSUME NEW i \in 1 .. n
           PROVE  /\ at[i] = at[i - 1] + 8 + e[i].size
                  /\ at[i - 1] + 8 + RoundUp(parts[i].size) <= Len(file)
                  /\ at[i - 1] + 8 <= Len(file) /\ at[i - 1] + 12 <= Len(file)
                  /\ file[at[i - 1] + 1] = <<"addr", e[i].addr>>
                  /\ file[at[i - 1] + 5] = <<"length", e[i].size>>
                  /\ at[i - 1] \in Nat /\ RoundUp(parts[i].size) \in Nat
      <3>1. i - 1 \in 0 .. n /\ i \in 1 .. Len(parts)
        BY <2>2 DEF n
      <3>2. /\ at[i] = at[i - 1] + 8 + RoundUp(parts[i].size)
            /\ HeaderAt(file, at[i - 1], parts[i])
            /\ BytesAt(file, at[i - 1], i, parts[i])
        BY <2>3, <2>5, <3>1 DEF Offsets, LaidAt, AllDone
      <3>3. parts[i].size \in Nat \ {0}
        BY <2>1, <3>1, PartFields
      <3>4. RoundUp(parts[i].size) \in Nat /\ RoundUp(parts[i].size) >= 4
        <4>1. RoundUp(parts[i].size) \in Nat /\ RoundUp(parts[i].size) % 4 = 0
              /\ RoundUp(parts[i].size) >= parts[i].size
          BY <3>3, Rounded
        <4> QED
          BY <3>3, <4>1
      <3>5. at[i - 1] \in Nat
        BY <2>9, <3>1
      <3>6. Len(file) \in Nat
        BY <2>1 DEF Typed
      <3>7. at[i - 1] + 8 + RoundUp(parts[i].size) <= Len(file)
        BY <3>2 DEF BytesAt
      <3>8. at[i - 1] + 8 <= Len(file) /\ at[i - 1] + 12 <= Len(file)
        BY <3>4, <3>5, <3>6, <3>7
      <3> QED
        BY <2>6, <3>2, <3>4, <3>5, <3>7, <3>8 DEF HeaderAt
    <2> DEFINE l == Listed(file, reach)
    <2>11. /\ l.ok <=> (\A i \in 1 .. n : InFile(file, at, reach, i))
           /\ l.ok => l.at = at[n] /\ l.images = FirstOf(e, n)
      <3>1. ListCells(file, n, at, e)
        BY <2>10 DEF ListCells
      <3> QED
        BY <2>2, <2>4, <2>7, <2>9, <3>1, ListedLaid
    <2>12. at[n] = Len(file)
      BY <2>3, <2>5 DEF LaidAt, n
    <2> HIDE DEF l
    <2>13. \A i \in 1 .. n : reach[i] \in Nat
      BY <2>2, CombinedAssumption
    <2>14. Len(file) \in Nat
      BY <2>1 DEF Typed
    <2>15. ASSUME \A i \in DOMAIN parts : Within(reach, i) PROVE l.ok
      <3>1. ASSUME NEW i \in 1 .. n PROVE InFile(file, at, reach, i)
        <4>1. reach[i] <= RoundUp(parts[i].size)
          BY <2>2, <2>15 DEF Within
        <4> QED
          BY <2>10, <2>13, <2>14, <4>1 DEF InFile
      <3> QED
        BY <2>11, <3>1
    <2>16. ASSUME ~Within(reach, n) PROVE ~l.ok
      <3>1. n \in 1 .. n
        BY <2>2
      <3>2. ~(reach[n] <= RoundUp(parts[n].size))
        BY <2>16 DEF Within
      <3>3. at[n - 1] + 8 + RoundUp(parts[n].size) = Len(file)
        BY <2>6, <2>10, <2>12, <3>1
      <3>4. ~InFile(file, at, reach, n)
        BY <2>10, <2>13, <2>14, <3>1, <3>2, <3>3 DEF InFile
      <3> QED
        BY <2>11, <3>1, <3>4
    <2>17. l.ok => l.at = Len(file) /\ l.images = [i \in DOMAIN parts |-> part(i)]
      BY <2>8, <2>11, <2>12
    <2> QED
      BY <2>15, <2>16, <2>17 DEF l, n, part
  <1> QED
    BY <1>1, LaidAlways, PTL

-----------------------------------------------------------------------------
(* Blocks of the Flash *)

LEMMA BlkTyped == BlkSize \in Nat \ {0}
  BY CombinedAssumption

LEMMA DivBounds ==
    ASSUME NEW n \in Int
    PROVE  /\ n \div BlkSize \in Int
           /\ (n \div BlkSize) * BlkSize <= n
           /\ n < (n \div BlkSize) * BlkSize + BlkSize
  BY BlkTyped

LEMMA MulMono ==
    ASSUME NEW p \in Int, NEW q \in Int, p < q
    PROVE  p * BlkSize + BlkSize <= q * BlkSize
  BY BlkTyped

LEMMA DivUnique ==
    ASSUME NEW n \in Int, NEW q \in Int, q * BlkSize <= n, n < q * BlkSize + BlkSize
    PROVE  n \div BlkSize = q
  <1> DEFINE r == n \div BlkSize
  <1>1. r \in Int /\ r * BlkSize <= n /\ n < r * BlkSize + BlkSize
    BY DivBounds
  <1> HIDE DEF r
  <1>2. r * BlkSize \in Int /\ q * BlkSize \in Int
    BY <1>1, BlkTyped
  <1>3. ~(r < q)
    <2> SUFFICES ASSUME r < q PROVE FALSE
      OBVIOUS
    <2>1. r * BlkSize + BlkSize <= q * BlkSize
      BY <1>1, MulMono
    <2> QED
      BY <1>1, <1>2, <2>1, BlkTyped
  <1>4. ~(q < r)
    <2> SUFFICES ASSUME q < r PROVE FALSE
      OBVIOUS
    <2>1. q * BlkSize + BlkSize <= r * BlkSize
      BY <1>1, MulMono
    <2> QED
      BY <1>1, <1>2, <2>1, BlkTyped
  <1> QED
    BY <1>1, <1>3, <1>4 DEF r

LEMMA RoundedBelow ==
    ASSUME NEW n \in Nat, NEW k \in Int, n <= 4 * k
    PROVE  RoundUp(n) <= 4 * k
  BY DEF RoundUp

\* The zeros after an image do not reach into another block.
LEMMA WholeBlocks ==
    ASSUME BlkSize % 4 = 0, NEW size \in Nat \ {0}
    PROVE  (RoundUp(size) + BlkSize - 1) \div BlkSize = (size - 1) \div BlkSize + 1
  <1> DEFINE m == (size - 1) \div BlkSize
             R == RoundUp(size)
             b == BlkSize \div 4
  <1>1. size - 1 \in Int
    OBVIOUS
  <1>2. m \in Int /\ m * BlkSize <= size - 1 /\ size - 1 < m * BlkSize + BlkSize
    BY <1>1, DivBounds
  <1>3. b \in Int /\ BlkSize = 4 * b
    BY BlkTyped
  <1>4. R \in Nat /\ R >= size
    BY DEF RoundUp
  <1> HIDE DEF m, R, b
  <1>5. /\ (m + 1) * b \in Int /\ m * BlkSize + BlkSize = 4 * ((m + 1) * b)
        /\ m * BlkSize \in Int
    BY <1>2, <1>3
  <1>6. R <= 4 * ((m + 1) * b)
    <2>1. size <= 4 * ((m + 1) * b)
      BY <1>2, <1>5
    <2> QED
      BY <1>5, <2>1, RoundedBelow DEF R
  <1>7. (m + 1) * BlkSize = m * BlkSize + BlkSize
    BY <1>2, BlkTyped
  <1>8. /\ (m + 1) * BlkSize <= R + BlkSize - 1
        /\ R + BlkSize - 1 < (m + 1) * BlkSize + BlkSize
    BY <1>2, <1>4, <1>5, <1>6, <1>7, BlkTyped
  <1>9. R + BlkSize - 1 \in Int /\ m + 1 \in Int
    BY <1>2, <1>4, BlkTyped
  <1>10. (R + BlkSize - 1) \div BlkSize = m + 1
    BY <1>8, <1>9, DivUnique
  <1> QED
    BY <1>10 DEF m, R

\* The blocks flashWrite writes for an image of a sparse file are the blocks in
\* which its bytes come to lie from the start, a, of a block on.
LEMMA CoveredBlocks ==
    ASSUME BlkSize % 4 = 0, NEW a \in Nat,
           NEW size \in Nat \ {0}, NEW x \in Int,
           NEW s, LandsAt(s.addr) = a, a = (a \div BlkSize) * BlkSize,
           s.size = RoundUp(size)
    PROVE  /\ x \in Covered(s)
                 => x \div BlkSize \in a \div BlkSize .. (a + size - 1) \div BlkSize
           /\ x \in a .. a + size - 1 => x \in Covered(s)
  <1> DEFINE q == a \div BlkSize
             m == (size - 1) \div BlkSize
  <1>1. q \in Int /\ a = q * BlkSize
    BY DivBounds
  <1>2. m \in Int /\ m * BlkSize <= size - 1 /\ size - 1 < m * BlkSize + BlkSize
    <2>1. size - 1 \in Int
      OBVIOUS
    <2> QED
      BY <2>1, DivBounds
  <1>3. (RoundUp(size) + BlkSize - 1) \div BlkSize = m + 1
    BY WholeBlocks
  <1> HIDE DEF q, m
  <1>4. /\ q * BlkSize \in Int /\ m * BlkSize \in Int
        /\ (q + m) * BlkSize = q * BlkSize + m * BlkSize
        /\ (m + 1) * BlkSize = m * BlkSize + BlkSize /\ q + m \in Int
    BY <1>1, <1>2, BlkTyped
  <1>5. (a + size - 1) \div BlkSize = q + m
    <2>1. (q + m) * BlkSize <= a + size - 1 /\ a + size - 1 < (q + m) * BlkSize + BlkSize
      BY <1>1, <1>2, <1>4, BlkTyped
    <2>2. a + size - 1 \in Int
      OBVIOUS
    <2> QED
      BY <1>4, <2>1, <2>2, DivUnique
  <1>6. Covered(s) = a .. a + (m * BlkSize + BlkSize) - 1
    BY <1>3, <1>4 DEF Covered
  <1>7. ASSUME x \in Covered(s)
        PROVE  x \div BlkSize \in a \div BlkSize .. (a + size - 1) \div BlkSize
    <2>1. a <= x /\ x <= a + (m * BlkSize + BlkSize) - 1
      BY <1>4, <1>6, <1>7, BlkTyped
    <2>2. x < (q + m) * BlkSize + BlkSize
      <3>1. a + (m * BlkSize + BlkSize) - 1 = (q + m) * BlkSize + BlkSize - 1
        BY <1>1, <1>4, BlkTyped
      <3> QED
        BY <1>4, <2>1, <3>1, BlkTyped
    <2> DEFINE y == x \div BlkSize
    <2>3. y \in Int /\ y * BlkSize <= x /\ x < y * BlkSize + BlkSize
      BY DivBounds
    <2> HIDE DEF y
    <2>4. y * BlkSize \in Int
      BY <2>3, BlkTyped
    <2>5. ~(y < q)
      <3> SUFFICES ASSUME y < q PROVE FALSE
        OBVIOUS
      <3>1. y * BlkSize + BlkSize <= q * BlkSize
        BY <1>1, <2>3, MulMono
      <3> QED
        BY <1>1, <1>4, <2>1, <2>3, <2>4, <3>1, BlkTyped
    <2>6. ~(q + m < y)
      <3> SUFFICES ASSUME q + m < y PROVE FALSE
        OBVIOUS
      <3>1. (q + m) * BlkSize + BlkSize <= y * BlkSize
        BY <1>4, <2>3, MulMono
      <3>2. (q + m) * BlkSize \in Int
        BY <1>4
      <3>3. \A u, v, w \in Int :
                u < v + BlkSize /\ v + BlkSize <= w /\ w <= u => FALSE
        BY BlkTyped
      <3> QED
        BY <2>2, <2>3, <2>4, <3>1, <3>2, <3>3
    <2>7. y \in q .. q + m
      BY <1>1, <1>4, <2>3, <2>5, <2>6
    <2> QED
      BY <1>5, <2>7 DEF y, q
  <1>8. x \in a .. a + size - 1 => x \in Covered(s)
    BY <1>2, <1>4, <1>6, BlkTyped
  <1> QED
    BY <1>7, <1>8

\* The blocks that flashWrite writes for a file hold all of its bytes.
LEMMA WholeFile ==
    ASSUME NEW n \in Nat, NEW x \in 0 .. n - 1,
           NEW s, s.addr = 0, s.size = n
    PROVE  x \in Covered(s)
  <1> DEFINE y == n + BlkSize - 1
             q == y \div BlkSize
  <1>1. y \in Int
    BY BlkTyped
  <1>2. q \in Int /\ y < q * BlkSize + BlkSize
    BY <1>1, DivBounds
  <1>3. Covered(s) = 0 .. 0 + q * BlkSize - 1
    <2>1. LandsAt(s.addr) = 0
      BY BlkTyped DEF LandsAt
    <2> QED
      BY <2>1 DEF Covered
  <1> HIDE DEF q
  <1>4. q * BlkSize \in Int
    BY <1>2, BlkTyped
  <1>5. n <= q * BlkSize
    BY <1>2, <1>4, BlkTyped
  <1> QED
    BY <1>3, <1>4, <1>5

\* Where only one segment covers an address, its byte is in the Flash.
LEMMA OnlySegment ==
    ASSUME NEW f, NEW x \in Int, Len(Segments(f)) \in Nat,
           NEW m \in 1 .. Len(Segments(f)), x \in Covered(Segments(f)[m]),
           \A i \in 1 .. Len(Segments(f)) : i # m => x \notin Covered(Segments(f)[i])
    PROVE  FlashByte(f, x) = ByteOf(f, Segments(f)[m], x)
  <1> DEFINE segs == Segments(f)
             over == {n \in 1 .. Len(segs) : x \in Covered(segs[n])}
  <1>1. over = {m}
    OBVIOUS
  <1>2. over \in SUBSET (1 .. Len(segs)) /\ over # {}
    OBVIOUS
  <1>3. FlashByte(f, x) = IF over = {} THEN Old ELSE ByteOf(f, segs[Max(over)], x)
    BY DEF FlashByte
  <1> HIDE DEF over, segs
  <1>4. Len(segs) \in Nat
    BY DEF segs
  <1>5. Max(over) \in over
    BY <1>2, <1>4, LargestNumber
  <1>6. Max(over) = m
    BY <1>1, <1>5
  <1> QED
    BY <1>1, <1>3, <1>6 DEF segs

-----------------------------------------------------------------------------
(* What FlashWrite finds in a sparse file *)

Segment == [addr : Nat, ofst : Nat, size : Nat]

\* The segments e are those of the images in the file f, one after the other.
WalkCells(f, n, at, e) ==
    \A i \in 1 .. n : /\ at[i] = at[i - 1] + 8 + e[i].size
                      /\ at[i - 1] + 8 <= Len(f) /\ e[i].ofst = at[i - 1] + 8
                      /\ f[at[i - 1] + 1] = <<"addr", e[i].addr>>
                      /\ f[at[i - 1] + 5] = <<"length", e[i].size>>

\* FlashWrite finds image after image where they were laid.
LEMMA WalkLaid ==
    ASSUME NEW f, NEW n \in Nat, Count(f) = n,
           NEW at \in [0 .. n -> Nat], at[0] = 4, NEW e \in [1 .. n -> Segment],
           WalkCells(f, n, at, e)
    PROVE  Walk(f) = FirstOf(e, n)
  <1> DEFINE after(p) ==
                IF p.more /\ p.at + 8 <= Len(f) /\ f[p.at + 1][1] = "addr"
                THEN LET len == f[p.at + 5][2]
                     IN  [at   |-> p.at + 8 + len,
                          segs |-> Append(p.segs, [addr |-> f[p.at + 1][2],
                                                   ofst |-> p.at + 8,
                                                   size |-> len]),
                          more |-> TRUE]
                ELSE [p EXCEPT !.more = FALSE]
             start == [at |-> 4, segs |-> <<>>, more |-> TRUE]
             Equation(w) ==
                w = [i \in 0 .. Count(f) |-> IF i = 0 THEN start ELSE after(w[i - 1])]
             im(i) == FirstOf(e, i)
             g == [i \in 0 .. n |-> [at |-> at[i], segs |-> im(i), more |-> TRUE]]
  <1>0. \A i \in 1 .. n : /\ at[i] = at[i - 1] + 8 + e[i].size
                          /\ at[i - 1] + 8 <= Len(f) /\ e[i].ofst = at[i - 1] + 8
                          /\ f[at[i - 1] + 1] = <<"addr", e[i].addr>>
                          /\ f[at[i - 1] + 5] = <<"length", e[i].size>>
    BY DEF WalkCells
  <1>1. Walk(f) = (CHOOSE w : Equation(w))[Count(f)].segs
    BY DEF Walk
  <1>2. g[0] = start
    <2>1. im(0) = <<>>
      BY DEF FirstOf
    <2> HIDE DEF im
    <2>2. 0 \in 0 .. n
      OBVIOUS
    <2> QED
      BY <2>1, <2>2
  <1>3. ASSUME NEW i \in 1 .. n
        PROVE  after(g[i - 1]) = g[i]
    <2> DEFINE p == g[i - 1]
    <2>1. i - 1 \in 0 .. n /\ i \in 0 .. n
      OBVIOUS
    <2>2. p.at = at[i - 1] /\ p.segs = im(i - 1) /\ p.more = TRUE
      BY <2>1
    <2>3. g[i] = [at |-> at[i], segs |-> im(i), more |-> TRUE]
      BY <2>1
    <2> HIDE DEF p, g
    <2>4. Append(im(i - 1), e[i]) = im(i)
      BY OneMoreOf
    <2> HIDE DEF im
    <2>5. e[i] = [addr |-> e[i].addr, ofst |-> e[i].ofst, size |-> e[i].size]
      <3>1. e[i] \in Segment
        OBVIOUS
      <3> QED
        BY <3>1 DEF Segment
    <2>6. /\ f[p.at + 1][1] = "addr" /\ f[p.at + 1][2] = e[i].addr
          /\ f[p.at + 5][2] = e[i].size /\ p.at + 8 <= Len(f)
      <3>1. /\ at[i - 1] + 8 <= Len(f)
            /\ f[at[i - 1] + 1] = <<"addr", e[i].addr>>
            /\ f[at[i - 1] + 5] = <<"length", e[i].size>>
        BY <1>0
      <3>2. /\ f[at[i - 1] + 1][1] = "addr" /\ f[at[i - 1] + 1][2] = e[i].addr
            /\ f[at[i - 1] + 5][2] = e[i].size
        BY <3>1
      <3> QED
        BY <2>2, <3>1, <3>2
    <2>7. p.at + 8 + e[i].size = at[i] /\ p.at + 8 = e[i].ofst
      BY <1>0, <2>2
    <2>8. after(p) = [at |-> p.at + 8 + f[p.at + 5][2],
                      segs |-> Append(p.segs, [addr |-> f[p.at + 1][2],
                                               ofst |-> p.at + 8,
                                               size |-> f[p.at + 5][2]]),
                      more |-> TRUE]
      BY <2>2, <2>6
    <2> HIDE DEF after
    <2>9. after(p) = [at |-> at[i], segs |-> im(i), more |-> TRUE]
      BY <2>2, <2>4, <2>5, <2>6, <2>7, <2>8
    <2> QED
      BY <2>3, <2>9 DEF p
  <1> HIDE DEF after, start
  <1>4. Equation(g)
    <2>1. ASSUME NEW i \in 0 .. n
          PROVE  g[i] = IF i = 0 THEN start ELSE after(g[i - 1])
      <3>1. i = 0 \/ i \in 1 .. n
        OBVIOUS
      <3> HIDE DEF g
      <3> QED
        BY <1>2, <1>3, <3>1
    <2>2. g = [i \in 0 .. n |-> g[i]]
      OBVIOUS
    <2> HIDE DEF g
    <2> QED
      BY <2>1, <2>2
  <1> HIDE DEF g
  <1>5. ASSUME NEW w, Equation(w) PROVE w[n] = g[n]
    <2>1. \A i \in 0 .. n : w[i] = IF i = 0 THEN start ELSE after(w[i - 1])
      BY <1>5
    <2>2. w[0] = g[0]
      BY <1>2, <2>1
    <2>3. ASSUME NEW i \in 1 .. n, w[i - 1] = g[i - 1] PROVE w[i] = g[i]
      <3>1. i \in 0 .. n /\ i # 0
        OBVIOUS
      <3> QED
        BY <1>3, <2>1, <2>3, <3>1
    <2>4. Agree(n, w, g)
      BY <2>2, <2>3, RecursionUnique
    <2> QED
      BY <2>4 DEF Agree
  <1> HIDE DEF Equation
  <1>6. Equation(CHOOSE w : Equation(w))
    BY <1>4
  <1>7. Walk(f) = g[n].segs
    BY <1>1, <1>5, <1>6
  <1>8. n \in 0 .. n
    OBVIOUS
  <1> QED
    BY <1>7, <1>8 DEF g

\* The same of an image that was added.
LEMMA PartCovered ==
    ASSUME BlkSize % 4 = 0, Typed, kind = "sparse",
           NEW i \in 1 .. Len(parts), NEW x \in Int,
           NEW s, s.addr = parts[i].addr, s.size = RoundUp(parts[i].size)
    PROVE  /\ x \in Covered(s) => x \div BlkSize \in Blocks(parts[i])
           /\ x \in Place(parts[i]) .. Place(parts[i]) + parts[i].size - 1
                 => x \in Covered(s)
  <1> DEFINE a == Place(parts[i])
             size == parts[i].size
  <1>0. parts[i].addr \in Nat /\ size \in Nat \ {0}
    BY PartFields
  <1>1. /\ a \in Nat /\ a = LandsAt(s.addr)
        /\ a \div BlkSize = parts[i].addr \div BlkSize
    BY <1>0, PlaceBelow DEF Place
  <1>2. a = (a \div BlkSize) * BlkSize /\ s.size = RoundUp(size)
    BY <1>1 DEF LandsAt
  <1>3. Blocks(parts[i]) = a \div BlkSize .. (a + size - 1) \div BlkSize
    BY DEF Blocks
  <1> HIDE DEF a, size
  <1>4. /\ x \in Covered(s)
              => x \div BlkSize \in a \div BlkSize .. (a + size - 1) \div BlkSize
        /\ x \in a .. a + size - 1 => x \in Covered(s)
    BY <1>0, <1>1, <1>2, CoveredBlocks
  <1> QED
    BY <1>3, <1>4 DEF a, size

\* An image of a sparse file arrives where it belongs.
LEMMA SparseArrives ==
    ASSUME BlkSize % 4 = 0, LaidInv, kind = "sparse", ~spoiled,
           NEW m \in 1 .. Len(parts), parts[m].done, Alone(m),
           NEW k \in 0 .. parts[m].size - 1
    PROVE  FlashByte(file, Place(parts[m]) + k) = ImageByte(m, k)
  <1> DEFINE n == Len(parts)
  <1>1. Typed /\ Headed /\ Laid
    BY DEF LaidInv, CombinedInv
  <1>2. n \in Nat /\ DOMAIN parts = 1 .. n /\ parts # <<>>
    BY <1>1, LenProperties, EmptySeq DEF Typed
  <1>3. IsSparse(file) /\ Len(file) \in Nat
    BY <1>1, <1>2 DEF Headed, Typed
  <1>4. Count(file) = n
    BY <1>1, <1>2 DEF Laid, Count
  <1>5. PICK at : Offsets(at) /\ LaidAt(at)
    BY <1>1, <1>2 DEF Laid
  <1>6. at \in [0 .. n -> {p \in Nat : p >= 4}] /\ at[0] = 4
    BY <1>5 DEF Offsets
  <1>7. at \in [0 .. n -> Nat]
    BY <1>6
  <1>8. \A i \in 1 .. n : /\ at[i - 1] \in Nat
                          /\ at[i] = at[i - 1] + 8 + RoundUp(parts[i].size)
                          /\ HeaderAt(file, at[i - 1], parts[i])
    <2>1. \A i \in 1 .. n : i - 1 \in 0 .. n
      BY <1>2
    <2> QED
      BY <1>5, <1>7, <2>1 DEF Offsets, LaidAt
  <1> DEFINE seg(i) == [addr |-> parts[i].addr, ofst |-> at[i - 1] + 8,
                        size |-> RoundUp(parts[i].size)]
             e == [i \in 1 .. n |-> seg(i)]
  <1>9. \A i \in 1 .. n : /\ e[i].addr = parts[i].addr /\ e[i].ofst = at[i - 1] + 8
                          /\ e[i].size = RoundUp(parts[i].size)
    OBVIOUS
  <1>10. e \in [1 .. n -> Segment]
    <2>1. ASSUME NEW i \in 1 .. n PROVE seg(i) \in Segment
      <3>1. at[i - 1] + 8 \in Nat
        BY <1>8
      <3>2. parts[i].addr \in Nat /\ RoundUp(parts[i].size) \in Nat
        BY <1>1, PartFields, Rounded
      <3> QED
        BY <3>1, <3>2 DEF Segment
    <2> HIDE DEF seg
    <2> QED
      BY <2>1
  <1>11. FirstOf(e, n) = e
    BY DEF FirstOf
  <1> HIDE DEF e, seg, n
  <1>12. WalkCells(file, n, at, e)
    BY <1>8, <1>9 DEF WalkCells, HeaderAt
  <1>13. Walk(file) = e
    BY <1>2, <1>4, <1>6, <1>7, <1>10, <1>11, <1>12, WalkLaid
  <1>14. Segments(file) = e
    BY <1>3, <1>13 DEF Segments, IsSparse
  <1>15. Len(e) = n
    BY <1>2, <1>10, FunctionIsSeq
  <1> DEFINE x == Place(parts[m]) + k
  <1>16. /\ Place(parts[m]) \in Nat /\ parts[m].size \in Nat \ {0}
         /\ LandsAt(parts[m].addr) = Place(parts[m]) /\ m \in 1 .. n
    BY <1>1, PartFields, PlaceBelow DEF n, Place
  <1>17. x \in Int /\ x \in Place(parts[m]) .. Place(parts[m]) + parts[m].size - 1
    BY <1>16
  <1> HIDE DEF x
  <1>18. x \in Covered(e[m]) /\ x \div BlkSize \in Blocks(parts[m])
    BY <1>1, <1>9, <1>16, <1>17, PartCovered
  <1>19. ASSUME NEW i \in 1 .. n, i # m PROVE x \notin Covered(e[i])
    <2>1. i \in 1 .. Len(parts) /\ i \in DOMAIN parts /\ m \in DOMAIN parts
      BY <1>2, <1>16 DEF n
    <2>2. x \in Covered(e[i]) => x \div BlkSize \in Blocks(parts[i])
      BY <1>1, <1>9, <1>17, <2>1, PartCovered
    <2>3. Blocks(parts[i]) \cap Blocks(parts[m]) = {}
      BY <1>19, <2>1 DEF Alone
    <2> QED
      BY <1>18, <2>2, <2>3
  <1>20. FlashByte(file, x) = ByteOf(file, e[m], x)
    <2>1. \A i \in 1 .. n : i # m => x \notin Covered(e[i])
      BY <1>19
    <2> QED
      BY <1>2, <1>14, <1>15, <1>16, <1>17, <1>18, <2>1, OnlySegment
  <1>21. e[m].ofst + (x - LandsAt(e[m].addr)) + 1 = at[m - 1] + 8 + (k + 1)
    <2>1. /\ e[m].addr = parts[m].addr /\ e[m].ofst = at[m - 1] + 8
          /\ at[m - 1] \in Nat
      BY <1>8, <1>9, <1>16
    <2>2. x - LandsAt(parts[m].addr) = k
      BY <1>16 DEF x
    <2> QED
      BY <2>1, <2>2
  <1>22. /\ at[m - 1] + 8 + RoundUp(parts[m].size) <= Len(file)
         /\ \A j \in 1 .. parts[m].size : file[at[m - 1] + 8 + j] = ImageByte(m, j - 1)
    BY <1>5, <1>16 DEF LaidAt, BytesAt, n
  <1>23. /\ k + 1 \in 1 .. parts[m].size /\ (k + 1) - 1 = k
         /\ at[m - 1] + 8 + (k + 1) <= Len(file)
    <2>1. RoundUp(parts[m].size) \in Nat /\ RoundUp(parts[m].size) >= parts[m].size
      BY <1>16, Rounded
    <2>2. at[m - 1] \in Nat
      BY <1>8, <1>16
    <2> QED
      BY <1>3, <1>16, <1>22, <2>1, <2>2
  <1>24. file[at[m - 1] + 8 + (k + 1)] = ImageByte(m, k)
    BY <1>22, <1>23
  <1>25. ByteOf(file, e[m], x) = ImageByte(m, k)
    BY <1>21, <1>23, <1>24 DEF ByteOf
  <1> QED
    BY <1>20, <1>25 DEF x

-----------------------------------------------------------------------------
(* Where the images lie in a padded file *)

\* The n-th image, r, is in the file f at its address.
ImageAt(f, n, r) ==
    /\ r.addr + r.size <= Len(f)
    /\ \A k \in 1 .. r.size : f[r.addr + k] = ImageByte(n, k - 1)

\* The images of a padded file are at their addresses.  As long as all were
\* read to their end, the next one is written to the end of the file, and
\* m_imageSize is its size.  It does not begin like a sparse file.
Placed ==
    /\ appended => kind = "sparse"
    /\ kind = "padded" /\ ~spoiled =>
          /\ \A i \in 1 .. Len(parts) : parts[i].done => ImageAt(file, i, parts[i])
          /\ AllDone => pos = Len(file) /\ CurrentSize = Len(file)
          /\ Len(file) >= 1 => file[1] \in Cells

PlacedInv == LaidInv /\ Placed

\* An image of a padded file arrives at its address.
LEMMA PaddedArrives ==
    ASSUME Typed, Placed, kind = "padded", ~spoiled, Len(file) >= 4,
           NEW m \in 1 .. Len(parts), parts[m].done,
           NEW k \in 0 .. parts[m].size - 1
    PROVE  FlashByte(file, parts[m].addr + k) = ImageByte(m, k)
  <1> DEFINE s == [addr |-> 0, ofst |-> 0, size |-> Len(file)]
             x == parts[m].addr + k
  <1>1. parts[m].size \in Nat \ {0} /\ parts[m].addr \in Nat /\ Len(file) \in Nat
    BY PartFields DEF Typed
  <1>2. ImageAt(file, m, parts[m]) /\ file[1] \in Cells
    BY <1>1 DEF Placed
  <1>3. ~IsSparse(file)
    <2>1. \A c \in Cells : c # <<"e">>
      BY DEF Cells, Zero, Ones
    <2> QED
      BY <1>2, <2>1, SparseCells
  <1>4. Segments(file) = <<s>>
    BY <1>1, <1>3 DEF Segments
  <1>5. s.addr = 0 /\ s.ofst = 0 /\ s.size = Len(file)
    OBVIOUS
  <1> HIDE DEF s
  <1>6. /\ Len(Segments(file)) = 1 /\ Segments(file)[1] = s
    BY <1>4
  <1>7. x \in Nat /\ x \in 0 .. Len(file) - 1
    BY <1>1, <1>2 DEF ImageAt
  <1>8. x \in Covered(s)
    BY <1>1, <1>5, <1>7, WholeFile
  <1> HIDE DEF x
  <1>9. FlashByte(file, x) = ByteOf(file, s, x)
    <2>1. \A i \in 1 .. Len(Segments(file)) :
              i # 1 => x \notin Covered(Segments(file)[i])
      BY <1>6
    <2>2. 1 \in 1 .. Len(Segments(file)) /\ Len(Segments(file)) \in Nat /\ x \in Int
      BY <1>6, <1>7
    <2> QED
      BY <1>6, <1>8, <2>1, <2>2, OnlySegment
  <1>10. ByteOf(file, s, x) = file[x + 1]
    <2>1. LandsAt(s.addr) = 0
      BY <1>5, BlkTyped DEF LandsAt
    <2> QED
      BY <1>1, <1>5, <1>7, <2>1 DEF ByteOf
  <1>11. file[x + 1] = ImageByte(m, k)
    <2>1. k + 1 \in 1 .. parts[m].size /\ (k + 1) - 1 = k
          /\ x + 1 = parts[m].addr + (k + 1)
      BY <1>1 DEF x
    <2> QED
      BY <1>2, <2>1 DEF ImageAt
  <1> QED
    BY <1>9, <1>10, <1>11 DEF x

\* The file g after k bytes of image n were written for the address a.
PaddedTo(g, a, n, k) ==
    /\ Len(g) = a + k /\ Len(file) <= Len(g)
    /\ pos + Len(Repeat(Ones, a - CurrentSize)) = a
    /\ \A i \in 1 .. Len(file) : g[i] = file[i]
    /\ \A i \in 1 .. k : g[a + i] = ImageByte(n, i - 1)
    /\ \A i \in Len(file) + 1 .. Len(g) : g[i] \in Cells

\* What AddImage writes into a padded file whose images were all read to their
\* end: the image, behind what is there.
LEMMA PaddedWritten ==
    ASSUME Typed, pos = Len(file), CurrentSize = Len(file),
           NEW a \in Nat, a >= CurrentSize, NEW n \in Nat, NEW k \in Nat,
           NEW g, g = WriteAt(file, pos, Repeat(Ones, a - CurrentSize) \o Image(n, k))
    PROVE  PaddedTo(g, a, n, k)
  <1> DEFINE gap == Repeat(Ones, a - CurrentSize)
             image == Image(n, k)
             text == gap \o image
             d == a - CurrentSize
  <1>1. Len(file) \in Nat /\ pos = Len(file) /\ CurrentSize = Len(file)
    BY DEF Typed
  <1>2. Ones \in Cells /\ d \in Nat /\ Len(file) + d = a
    BY <1>1 DEF Cells
  <1>3. gap \in Seq(Cells) /\ Len(gap) = d
    BY <1>2, RepeatTyped
  <1>4. /\ image \in Seq(Cells) /\ Len(image) = k
        /\ \A i \in 1 .. k : image[i] = ImageByte(n, i - 1)
    BY ImageTyped
  <1>5. g = WriteAt(file, pos, text)
    OBVIOUS
  <1> HIDE DEF gap, image, d
  <1>6. /\ text \in Seq(Cells) /\ Len(text) = Len(gap) + Len(image)
        /\ \A i \in 1 .. Len(gap) + Len(image) :
              text[i] = IF i <= Len(gap) THEN gap[i] ELSE image[i - Len(gap)]
    BY <1>3, <1>4, ConcatProperties
  <1> HIDE DEF text
  <1>7. Len(text) = d + k /\ Len(text) \in Nat
    BY <1>2, <1>3, <1>4, <1>6
  <1>8. /\ Len(g) = Larger(Len(file), pos + Len(text)) /\ Len(g) \in Nat
        /\ \A i \in 1 .. Len(text) : g[pos + i] = text[i]
        /\ \A i \in 1 .. Len(file) : i <= pos \/ i > pos + Len(text) => g[i] = file[i]
    <2>1. Len(file) \in Nat /\ pos \in Nat
      BY <1>1
    <2>2. WrittenAt(file, pos, text, g)
      BY <1>5, <1>7, <2>1, WrittenThere
    <2> QED
      BY <2>2 DEF WrittenAt
  <1>9. Len(g) = a + k /\ Len(file) <= Len(g)
    BY <1>1, <1>2, <1>7, <1>8 DEF Larger
  <1>10. \A i \in 1 .. Len(file) : g[i] = file[i]
    BY <1>1, <1>8
  <1>11. ASSUME NEW i \in 1 .. k PROVE g[a + i] = ImageByte(n, i - 1)
    <2>1. d + i \in 1 .. Len(text) /\ pos + (d + i) = a + i
      BY <1>1, <1>2, <1>7
    <2>2. ~(d + i <= Len(gap)) /\ (d + i) - Len(gap) = i
      BY <1>2, <1>3
    <2>3. text[d + i] = image[i]
      BY <1>3, <1>4, <1>6, <1>7, <2>1, <2>2
    <2>4. g[a + i] = text[d + i]
      BY <1>8, <2>1
    <2> QED
      BY <1>4, <2>3, <2>4
  <1>12. ASSUME NEW i \in Len(file) + 1 .. Len(g) PROVE g[i] \in Cells
    <2>1. i - pos \in 1 .. Len(text) /\ pos + (i - pos) = i
      BY <1>1, <1>2, <1>7, <1>9
    <2>2. text[i - pos] \in Cells
      BY <1>6, <2>1, ElementOfSeq
    <2> QED
      BY <1>8, <2>1, <2>2
  <1> QED
    BY <1>1, <1>2, <1>3, <1>9, <1>10, <1>11, <1>12 DEF PaddedTo, gap, d

\* An image that was in the file stays where it is.
LEMMA ImageStays ==
    ASSUME NEW f, NEW g, Len(f) \in Nat, Len(g) \in Nat, Len(f) <= Len(g),
           \A i \in 1 .. Len(f) : g[i] = f[i],
           NEW n \in Nat, NEW r, r.size \in Nat, r.addr \in Nat, ImageAt(f, n, r)
    PROVE  ImageAt(g, n, r)
  <1>1. r.addr + r.size <= Len(f) /\ r.addr + r.size <= Len(g)
    BY DEF ImageAt
  <1>2. \A k \in 1 .. r.size : r.addr + k \in 1 .. Len(f)
    BY <1>1
  <1>3. \A k \in 1 .. r.size : g[r.addr + k] = f[r.addr + k]
    BY <1>2
  <1> QED
    BY <1>1, <1>3 DEF ImageAt

\* AddImage has written k bytes of the image, all of them when it is done.
LEMMA PaddedPlaces ==
    ASSUME Typed, NotSpoiled, Placed, kind = "padded", kind' = kind,
           appended' = appended,
           NEW size \in Nat \ {0}, NEW a \in Nat, a >= CurrentSize,
           NEW d \in BOOLEAN, NEW k \in Nat, d => k = size,
           file' = WriteAt(file, pos, Repeat(Ones, a - CurrentSize)
                                        \o Image(Len(parts) + 1, k)),
           parts' = Append(parts, [size |-> size, addr |-> a, done |-> d]),
           spoiled' = (spoiled \/ \E i \in 1 .. Len(parts) : ~parts[i].done),
           d => /\ pos' = pos + Len(Repeat(Ones, a - CurrentSize)) + size
                /\ known' = Len(file') /\ imageSize' = a + size
    PROVE  Placed'
  <1> DEFINE r == [size |-> size, addr |-> a, done |-> d]
             n == Len(parts)
  <1>1. r.size = size /\ r.addr = a /\ r.done = d /\ parts' = Append(parts, r)
    OBVIOUS
  <1> HIDE DEF r
  <1>2. /\ n \in Nat /\ Len(parts') = n + 1 /\ parts'[n + 1] = r
        /\ \A i \in 1 .. n : parts'[i] = parts[i]
        /\ \A i \in 1 .. Len(parts') : i \in 1 .. n \/ i = n + 1
        /\ n + 1 \in 1 .. Len(parts')
    BY <1>1, OneMore
  <1>3. SUFFICES ASSUME ~spoiled'
                 PROVE  /\ \A i \in 1 .. Len(parts') :
                               parts'[i].done => ImageAt(file', i, parts'[i])
                        /\ AllDone' => /\ pos' = Len(file')
                                       /\ CurrentSize' = Len(file')
                        /\ Len(file') >= 1 => file'[1] \in Cells
    BY DEF Placed
  <1>4. ~spoiled /\ AllDone
    BY <1>1, <1>3, Spoils
  <1>5. /\ \A i \in 1 .. n : ImageAt(file, i, parts[i])
        /\ pos = Len(file) /\ CurrentSize = Len(file)
        /\ Len(file) >= 1 => file[1] \in Cells
    BY <1>4 DEF Placed, AllDone
  <1>6. /\ Len(file') = a + k /\ Len(file) <= Len(file')
        /\ pos + Len(Repeat(Ones, a - CurrentSize)) = a
        /\ \A i \in 1 .. Len(file) : file'[i] = file[i]
        /\ \A i \in 1 .. k : file'[a + i] = ImageByte(n + 1, i - 1)
        /\ \A i \in Len(file) + 1 .. Len(file') : file'[i] \in Cells
    <2>1. Len(parts) + 1 \in Nat
      BY <1>2
    <2>2. PaddedTo(file', a, Len(parts) + 1, k)
      BY <1>5, <2>1, PaddedWritten
    <2> QED
      BY <2>2 DEF PaddedTo
  <1>7. Len(file) \in Nat /\ Len(file') \in Nat
    BY <1>6 DEF Typed
  <1> HIDE DEF n
  <1>8. ASSUME NEW i \in 1 .. Len(parts'), parts'[i].done
        PROVE  ImageAt(file', i, parts'[i])
    <2>1. CASE i \in 1 .. n
      <3>1. i \in 1 .. Len(parts) /\ i \in Nat
        BY <2>1 DEF n
      <3>2. parts[i].size \in Nat /\ parts[i].addr \in Nat /\ parts'[i] = parts[i]
        BY <1>2, <2>1, <3>1, PartFields
      <3>3. ImageAt(file, i, parts[i])
        BY <1>5, <2>1
      <3> QED
        BY <1>6, <1>7, <3>1, <3>2, <3>3, ImageStays
    <2>2. CASE i = n + 1
      <3>1. parts'[i] = r /\ d /\ k = size
        BY <1>1, <1>2, <1>8, <2>2
      <3> QED
        BY <1>1, <1>6, <2>2, <3>1 DEF ImageAt
    <2> QED
      BY <1>2, <2>1, <2>2
  <1>9. ASSUME AllDone' PROVE pos' = Len(file') /\ CurrentSize' = Len(file')
    <2>1. d
      BY <1>1, <1>2, <1>9 DEF AllDone
    <2>2. pos' = a + size /\ known' = a + size /\ imageSize' = a + size
      BY <1>6, <2>1
    <2>3. known' # 0
      BY <2>2
    <2> QED
      BY <1>6, <2>1, <2>2, <2>3 DEF CurrentSize
  <1>10. ASSUME Len(file') >= 1 PROVE file'[1] \in Cells
    <2>1. CASE Len(file) >= 1
      BY <1>5, <1>6, <1>7, <2>1
    <2>2. CASE Len(file) = 0
      BY <1>6, <1>7, <1>10, <2>2
    <2> QED
      BY <1>7, <2>1, <2>2
  <1> QED
    BY <1>8, <1>9, <1>10

LEMMA AddPaddedPlaces ==
    ASSUME LaidInv, Placed, NEW size \in Nat \ {0}, NEW a \in Nat,
           AddPadded(size, a)
    PROVE  Placed'
  <1> DEFINE n == Len(parts) + 1
             gap == Repeat(Ones, a - CurrentSize)
             f(k) == WriteAt(file, pos, gap \o Image(n, k))
  <1>1. kind = "padded" /\ a >= CurrentSize
    BY DEF AddPadded
  <1>2. \/ /\ Added(f(size), pos + Len(gap) + size, size, a)
           /\ imageSize' = a + size
        \/ \E k \in Copied(size) : Broken(f(k), pos + Len(gap) + k, size, a, 0)
    BY DEF AddPadded
  <1>3. Typed /\ NotSpoiled
    BY DEF LaidInv, CombinedInv
  <1>4. CASE /\ Added(f(size), pos + Len(gap) + size, size, a)
             /\ imageSize' = a + size
    <2>1. /\ file' = f(size) /\ pos' = pos + Len(gap) + size /\ known' = Len(file')
          /\ parts' = Append(parts, [size |-> size, addr |-> a, done |-> TRUE])
          /\ spoiled' = (spoiled \/ \E i \in 1 .. Len(parts) : ~parts[i].done)
          /\ kind' = kind /\ appended' = appended /\ imageSize' = a + size
      BY <1>4 DEF Added
    <2> QED
      BY <1>1, <1>3, <2>1, PaddedPlaces
  <1>5. ASSUME NEW k \in Copied(size), Broken(f(k), pos + Len(gap) + k, size, a, 0)
        PROVE  Placed'
    <2>1. /\ file' = f(k)
          /\ parts' = Append(parts, [size |-> size, addr |-> a, done |-> FALSE])
          /\ spoiled' = (spoiled \/ \E i \in 1 .. Len(parts) : ~parts[i].done)
          /\ kind' = kind /\ appended' = appended
      BY <1>5 DEF Broken
    <2>2. k \in Nat
      BY CopiedTyped
    <2> QED
      BY <1>1, <1>3, <2>1, <2>2, PaddedPlaces
  <1> QED
    BY <1>2, <1>4, <1>5

LEMMA PlacedUnchanged ==
    ASSUME Placed,
           UNCHANGED <<kind, file, pos, known, imageSize, parts, appended, spoiled>>
    PROVE  Placed'
  BY DEF Placed, AllDone, CurrentSize

LEMMA PlacedInit == Init => PlacedInv
  <1> SUFFICES ASSUME Init PROVE Placed
    BY LaidInit DEF PlacedInv
  <1> QED
    BY DEF Init, Placed

LEMMA PlacedStep ==
    ASSUME MaxImages <= 255, AppendKinds \subseteq {"sparse"}
    PROVE  PlacedInv /\ [Next]_vars => PlacedInv'
  <1> SUFFICES ASSUME LaidInv, Placed, [Next]_vars
               PROVE  Placed'
    BY LaidStep DEF PlacedInv
  <1>1. ASSUME NEW k \in {"sparse", "padded"}, NewFile(k)
        PROVE  Placed'
    <2>1. /\ file' = <<>> /\ pos' = 0 /\ known' = 0 /\ parts' = <<>>
          /\ appended' = FALSE /\ Len(parts') = 0 /\ Len(file') = 0
      BY <1>1, EmptySeq DEF NewFile
    <2> QED
      BY <2>1 DEF Placed, CurrentSize
  <1>2. ASSUME NEW k \in {"sparse", "padded"}, AppendTo(k)
        PROVE  Placed'
    <2>1. kind' = "sparse"
      BY <1>2 DEF AppendTo
    <2> QED
      BY <2>1 DEF Placed
  <1>3. CASE AutoExtract
    BY <1>3, PlacedUnchanged DEF AutoExtract, outfile
  <1>4. ASSUME NEW r \in Requests, AddPadded(r.size, r.addr)
        PROVE  Placed'
    <2>1. r.size \in Nat \ {0} /\ r.addr \in Nat
      BY RequestTyped DEF LaidInv, CombinedInv
    <2> QED
      BY <1>4, <2>1, AddPaddedPlaces
  <1>5. ASSUME NEW r \in Requests, AddSparse(r.size, r.addr)
        PROVE  Placed'
    <2>1. kind' = "sparse"
      BY <1>5 DEF AddSparse, Added, Broken
    <2> QED
      BY <2>1 DEF Placed
  <1>6. ASSUME NEW r \in Requests, Refuse(r.addr) \/ WrongFile(r.addr)
        PROVE  Placed'
    BY <1>6, PlacedUnchanged DEF Refuse, WrongFile, outfile
  <1>7. CASE UNCHANGED vars
    BY <1>7, PlacedUnchanged DEF vars, outfile
  <1> QED
    BY <1>1, <1>2, <1>3, <1>4, <1>5, <1>6, <1>7 DEF Next

\* Downloading a combined file puts every image that was added without error
\* where it belongs, whatever its address, if no other image belongs into one of
\* its blocks: in a file of either kind that was made anew or, a sparse one,
\* appended to, as long as the count of images fits into its byte (esp.cpp:1060)
\* and blocks are multiples of four bytes (ESP_FLASH_BLK_SIZE).  Appending to a
\* padded file is left out: it breaks this (esp.cpp:1024).
THEOREM CombinedImagesArrive ==
    ASSUME MaxImages <= 255, AppendKinds \subseteq {"sparse"}, BlkSize % 4 = 0
    PROVE  Spec => []ImagesArrive
  <1>1. ASSUME PlacedInv PROVE ImagesArrive
    <2> SUFFICES ASSUME ~spoiled, Len(file) >= 4,
                        NEW n \in DOMAIN parts, parts[n].done, Alone(n),
                        NEW k \in 0 .. parts[n].size - 1
                 PROVE  FlashByte(file, Place(parts[n]) + k) = ImageByte(n, k)
      BY DEF ImagesArrive
    <2>1. LaidInv /\ Placed /\ Typed /\ Headed
      BY <1>1 DEF PlacedInv, LaidInv, CombinedInv
    <2>2. n \in 1 .. Len(parts)
      BY <2>1, LenProperties DEF Typed
    <2>3. kind # "none"
      BY <2>1, EmptySeq DEF Headed
    <2>4. CASE kind = "sparse"
      BY <2>1, <2>2, <2>4, SparseArrives
    <2>5. CASE kind = "padded"
      <3>1. Place(parts[n]) = parts[n].addr
        BY <2>5 DEF Place
      <3> QED
        BY <2>1, <2>2, <2>5, <3>1, PaddedArrives
    <2> QED
      BY <2>1, <2>3, <2>4, <2>5 DEF Typed
  <1>2. PlacedInv /\ [Next]_vars => PlacedInv'
    BY PlacedStep
  <1> QED
    BY <1>1, <1>2, PlacedInit, PTL DEF Spec

==============================================================================
