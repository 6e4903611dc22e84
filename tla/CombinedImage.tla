---------------------------- MODULE CombinedImage ----------------------------
(***************************************************************************)
(* Combined image files: ESP::AddImage, which builds them, called for one  *)
(* image file after the other (processFile) or for the images of an ELF    *)
(* file (ESP::AutoExtract), the options that open them for a new or an     *)
(* existing file, and their readers: ESP::FlashWrite with the block loop   *)
(* of ESP::flashWrite, and ESP::ImageInfo (src/esp.cpp, src/esp_tool.cpp). *)
(*                                                                         *)
(* A sparse file is the three bytes of COMPOSITE_SIG, the number of        *)
(* images, and for each image an 8-byte header with its address and length *)
(* followed by the image, padded with zeros to a multiple of four.  A      *)
(* padded file is the images with 0xff between them.  A byte is a tuple    *)
(* that tells where it came from; a field of several bytes is the same     *)
(* tuple repeated.                                                         *)
(***************************************************************************)
EXTENDS Integers, Sequences, FiniteSetsExt

CONSTANTS
    BlkSize,     \* ESP_FLASH_BLK_SIZE
    PartSize,    \* AddImage copies an image in parts of this size
    Sizes,       \* sizes of image files
    BootSizes,   \* sizes of boot images made from an ELF file
    ElfSizes,    \* sizes of the images AutoExtract adds after those
    Addrs,       \* addresses of image files: on block boundaries, as
                 \* processFile demands (esp_tool.cpp:1311)
    ElfAddrs,    \* addresses of the images AutoExtract adds: any
    Reaches,     \* how far stdImageInfo reads into an image
    Kinds,       \* kinds of files made: subset of {"sparse", "padded"}
    AppendKinds, \* kinds of files appended to
    MaxImages,   \* bound: images added to one file
    MaxOpens     \* bound: times a file is opened

ASSUME CombinedAssumption ==
    /\ BlkSize \in Nat \ {0} /\ PartSize \in Nat \ {0}
    /\ Sizes \subseteq Nat \ {0}
    /\ ElfSizes \subseteq Sizes
    /\ \A n \in BootSizes : n \in Nat \ {0} /\ n % 4 = 0
    /\ \A a \in Addrs : a \in Nat /\ a % BlkSize = 0
    /\ ElfAddrs \subseteq Nat /\ Reaches \subseteq Nat
    /\ Kinds \cup AppendKinds \subseteq {"sparse", "padded"}
    /\ MaxImages \in Nat /\ MaxOpens \in Nat

VARIABLES
    kind,       \* parm.padded while a combined file is open, else "none"
    file,       \* content of the combined file
    pos,        \* position in it
    known,      \* its size as fstat gives it
    imageSize,  \* m_imageSize
    parts,      \* images added, [size, addr, done]: done means without error
    appended,   \* TRUE when the file was opened to append to it
    spoiled,    \* TRUE when an image was added after one that failed
    opens,      \* number of times a file was opened
    queue,      \* images AutoExtract has still to add, [size, addr]
    extract     \* the latest AutoExtract: [images, fresh], fresh when the file
                \* was empty

outfile == <<kind, file, pos, known, imageSize, parts, appended, spoiled, opens>>
vars == <<outfile, queue, extract>>

-----------------------------------------------------------------------------
(* Files *)

ImageByte(n, k) == <<"image", n, k>>
Zero == <<"zero">>
Ones == <<"ones">>
Old  == <<"old">>      \* what was in the Flash before

Repeat(b, n) == [i \in 1 .. n |-> b]
Larger(m, n) == IF m < n THEN n ELSE m

\* The bytes of image n.
Image(n, size) == [i \in 1 .. size |-> ImageByte(n, i - 1)]

\* Write: the bytes s go to position p of the file f.
WriteAt(f, p, s) ==
    [i \in 1 .. Larger(Len(f), p + Len(s)) |->
        IF i \in p + 1 .. p + Len(s) THEN s[i - p]
        ELSE IF i <= Len(f) THEN f[i] ELSE Zero]

Signature == <<<<"e">>, <<"s">>, <<"p">>>>
FileHeader(n) == Signature \o <<<<"count", n>>>>
ImageHeader(a, n) == Repeat(<<"addr", a>>, 4) \o Repeat(<<"length", n>>, 4)

IsSparse(f) == Len(f) >= 4 /\ SubSeq(f, 1, 3) = Signature
Count(f) == f[4][2]

\* (sizeIn + 3) & 0xfffffffc
RoundUp(n) == ((n + 3) \div 4) * 4

\* The zeros after an image of a sparse file.
Padding(size) == Repeat(Zero, RoundUp(size) - size)

-----------------------------------------------------------------------------
(* Opening *)

NoExtract == [images |-> <<>>, fresh |-> FALSE]

Init ==
    /\ kind = "none" /\ file = <<>> /\ pos = 0 /\ known = 0
    /\ imageSize = 0 /\ parts = <<>> /\ appended = FALSE /\ spoiled = FALSE
    /\ opens = 0
    /\ queue = <<>> /\ extract = NoExtract

\* Mutation: the size of the former file is kept.
NewFileKeepsSize(k) ==
    /\ queue = <<>> /\ opens < MaxOpens /\ k \in Kinds
    /\ kind' = k
    /\ file' = <<>> /\ pos' = 0 /\ known' = known
    /\ parts' = <<>> /\ appended' = FALSE /\ spoiled' = FALSE
    /\ opens' = opens + 1
    /\ extract' = NoExtract
    /\ UNCHANGED <<imageSize, queue>>

\* --sparse=, --padded=: mode "w+b".  m_imageSize is left alone.
NewFile(k) ==
    /\ queue = <<>> /\ opens < MaxOpens /\ k \in Kinds
    /\ kind' = k
    /\ file' = <<>> /\ pos' = 0 /\ known' = 0
    /\ parts' = <<>> /\ appended' = FALSE /\ spoiled' = FALSE
    /\ opens' = opens + 1
    /\ extract' = NoExtract
    /\ UNCHANGED <<imageSize, queue>>

\* --sparse+=, --padded+=: mode "r+b", on a file of the same kind that was
\* closed, in this run of the program or, m_imageSize being zero then, in a
\* new one.
AppendTo(k) ==
    /\ queue = <<>> /\ opens < MaxOpens /\ k \in AppendKinds
    /\ file # <<>> /\ kind = k
    /\ pos' = 0 /\ known' = Len(file)
    /\ imageSize' \in {imageSize, 0}
    /\ appended' = TRUE
    /\ opens' = opens + 1
    /\ extract' = NoExtract
    /\ UNCHANGED <<kind, file, parts, spoiled, queue>>

-----------------------------------------------------------------------------
(* AutoExtract *)

\* Mutation: the additional image comes last always.
InOrderLast(boot, irom, extra) == <<boot, irom>> \o extra

\* The boot image goes to address 0, the image of .irom0.text where its section
\* lies, and the additional image, if there is one, before it or after it.
InOrder(boot, irom, extra) ==
    IF extra # <<>> /\ extra[1].addr < irom.addr THEN <<boot, extra[1], irom>>
    ELSE <<boot, irom>> \o extra

\* The images are made in memory; an ELF file that lacks a section leads no
\* further.  Then AddImage is called for one after the other.  An address of
\* zero for .irom0.text is refused; that the others are on block boundaries is
\* asked neither of it (esp.cpp:764) nor of the additional image
\* (esp_tool.cpp:1158).
AutoExtract ==
    /\ queue = <<>> /\ kind # "none"
    /\ \E boot \in [size : BootSizes, addr : {0}],
          irom \in [size : ElfSizes, addr : ElfAddrs \ {0}],
          extra \in {<<>>} \cup {<<x>> : x \in [size : ElfSizes, addr : ElfAddrs]} :
          LET images == InOrder(boot, irom, extra)
          IN  /\ Len(parts) + Len(images) <= MaxImages
              /\ queue' = images
              /\ extract' = [images |-> images, fresh |-> known = 0]
    /\ UNCHANGED outfile

\* The images AddImage may be called with.
Requests == IF queue = <<>> THEN [size : Sizes, addr : Addrs] ELSE {queue[1]}

\* AutoExtract stops at the first image that is not added.
GoOn(done) ==
    /\ queue' = IF done /\ queue # <<>> THEN Tail(queue) ELSE <<>>
    /\ extract' = IF queue # <<>> THEN extract ELSE NoExtract

-----------------------------------------------------------------------------
(* AddImage *)

\* Mutation: the address is never looked at.
CurrentSizeZero == 0

\* m_imageSize once AddImage has reset it for an empty file.
CurrentSize == IF known = 0 THEN 0 ELSE imageSize

\* The parts of an image that may have been copied when its file cannot be
\* read any further.
Copied(size) == {j * PartSize : j \in 0 .. (size - 1) \div PartSize}

\* The address is below what was written.
Refuse(a) ==
    /\ kind # "none"
    /\ a < CurrentSize
    /\ UNCHANGED outfile /\ GoOn(FALSE)

\* AddImage has written bytes, ending at end, into the file f, and succeeded.
Added(f, end, size, a) ==
    /\ file' = f /\ pos' = end /\ known' = Len(f)
    /\ parts' = Append(parts, [size |-> size, addr |-> a, done |-> TRUE])
    /\ spoiled' = (spoiled \/ \E i \in 1 .. Len(parts) : ~parts[i].done)
    /\ UNCHANGED <<kind, appended, opens>> /\ GoOn(TRUE)

\* The image file could not be read: m_imageSize stays as it is, and how much
\* of f has left the buffer of stdio is not known, flushed bytes at least.
Broken(f, end, size, a, flushed) ==
    /\ file' = f /\ pos' = end
    /\ known' \in Larger(known, flushed) .. Len(f)
    /\ parts' = Append(parts, [size |-> size, addr |-> a, done |-> FALSE])
    /\ spoiled' = (spoiled \/ \E i \in 1 .. Len(parts) : ~parts[i].done)
    /\ imageSize' = CurrentSize
    /\ UNCHANGED <<kind, appended, opens>> /\ GoOn(FALSE)

Fits == kind # "none" /\ Len(parts) < MaxImages

AddPadded(size, a) ==
    /\ Fits /\ kind = "padded"
    /\ a >= CurrentSize
    /\ LET n    == Len(parts) + 1
           gap  == Repeat(Ones, a - CurrentSize)
           f(k) == WriteAt(file, pos, gap \o Image(n, k))
       IN  \/ /\ Added(f(size), pos + Len(gap) + size, size, a)
              /\ imageSize' = a + size
           \/ \E k \in Copied(size) :
                  Broken(f(k), pos + Len(gap) + k, size, a, 0)

\* Mutation: the count of the header stays.
WithHeaderSameCount ==
    IF known = 0
    THEN [file |-> WriteAt(file, pos, FileHeader(1)), pos |-> 4]
    ELSE [file |-> file, pos |-> known]

\* The file with its header brought up to date, and the position after it.
WithHeader ==
    IF known = 0
    THEN [file |-> WriteAt(file, pos, FileHeader(1)), pos |-> 4]
    ELSE [file |-> WriteAt(file, 0, FileHeader((Count(file) + 1) % 256)),
          pos |-> known]

\* m_imageSize after an image of a sparse file: the rest modulo four is added
\* (esp.cpp:1110), not the number of zeros.
EndOf(size, a) == a + size + (size % 4)

AddSparse(size, a) ==
    /\ Fits /\ kind = "sparse"
    /\ a >= CurrentSize
    /\ known = 0 \/ (known % 4 = 0 /\ IsSparse(file))
    /\ LET n    == Len(parts) + 1
           h    == WithHeader
           f(s) == WriteAt(h.file, h.pos, ImageHeader(a, RoundUp(size)) \o s)
       IN  \/ /\ Added(f(Image(n, size) \o Padding(size)),
                       h.pos + 8 + RoundUp(size), size, a)
              /\ imageSize' = EndOf(size, a)
           \/ \E k \in Copied(size) :
                  Broken(f(Image(n, k)), h.pos + 8 + k, size, a, 4)

\* The size is not a multiple of four ("this shouldn't happen"), or the
\* header is not that of a sparse file.
WrongFile(a) ==
    /\ kind = "sparse" /\ a >= CurrentSize
    /\ known # 0 /\ ~(known % 4 = 0 /\ IsSparse(file))
    /\ UNCHANGED outfile /\ GoOn(FALSE)

Next == \/ \E k \in {"sparse", "padded"} : NewFile(k) \/ AppendTo(k)
        \/ AutoExtract
        \/ \E r \in Requests :
              \/ AddPadded(r.size, r.addr) \/ AddSparse(r.size, r.addr)
              \/ Refuse(r.addr) \/ WrongFile(r.addr)

Spec == Init /\ [][Next]_vars

-----------------------------------------------------------------------------
(* Downloading a combined file *)

\* The images FlashWrite finds in a sparse file, in order: it stops when a
\* header cannot be read.
Walk(f) ==
    LET w[n \in 0 .. Count(f)] ==
            IF n = 0 THEN [at |-> 4, segs |-> <<>>, more |-> TRUE]
            ELSE LET p == w[n - 1]
                 IN  IF p.more /\ p.at + 8 <= Len(f) /\ f[p.at + 1][1] = "addr"
                     THEN LET len == f[p.at + 5][2]
                          IN  [at   |-> p.at + 8 + len,
                               segs |-> Append(p.segs, [addr |-> f[p.at + 1][2],
                                                        ofst |-> p.at + 8,
                                                        size |-> len]),
                               more |-> TRUE]
                     ELSE [p EXCEPT !.more = FALSE]
    IN  w[Count(f)].segs

\* What FlashWrite hands to flashWrite, one after the other.  It refuses a file
\* of less than four bytes.
Segments(f) ==
    IF Len(f) < 4 THEN <<>>
    ELSE IF IsSparse(f) THEN Walk(f)
    ELSE <<[addr |-> 0, ofst |-> 0, size |-> Len(f)]>>

\* flashBegin takes an address down to the start of its block.
LandsAt(a) == (a \div BlkSize) * BlkSize

\* The Flash addresses of the blocks of a segment.
Covered(s) ==
    LET a == LandsAt(s.addr)
    IN  a .. a + ((s.size + BlkSize - 1) \div BlkSize) * BlkSize - 1

\* flashWrite reads whole blocks; only the end of the file fills one up.
ByteOf(f, s, x) ==
    LET i == s.ofst + (x - LandsAt(s.addr)) + 1
    IN  IF i <= Len(f) THEN f[i] ELSE Ones

\* The byte of the Flash at address x after FlashWrite of the file f.
FlashByte(f, x) ==
    LET segs == Segments(f)
        over == {n \in 1 .. Len(segs) : x \in Covered(segs[n])}
    IN  IF over = {} THEN Old ELSE ByteOf(f, segs[Max(over)], x)

-----------------------------------------------------------------------------
(* Information about a combined file *)

\* Mutation: the length that is listed is looked for from the word read ahead.
AfterImageAhead(at, len) == at + 12 + len

\* Where the next header is: the position after this one plus the length.
AfterImage(at, len) == at + 8 + len

\* What ImageInfo lists of a sparse file.  It reads the first word of every
\* image ahead; of one that begins like a boot image stdImageInfo then reads as
\* far as its header and segments say, reach[n] bytes, into the next image if
\* they say so.  It ends with an error where it cannot read that far.
Listed(f, reach) ==
    LET l[n \in 0 .. Count(f)] ==
            IF n = 0 THEN [at |-> 4, images |-> <<>>, ok |-> TRUE]
            ELSE LET p   == l[n - 1]
                     len == f[p.at + 5][2]
                 IN  IF p.ok /\ p.at + 8 <= Len(f) /\ f[p.at + 1][1] = "addr"
                     THEN [at     |-> AfterImage(p.at, len),
                           images |-> Append(p.images,
                                             [addr |-> f[p.at + 1][2],
                                              size |-> len]),
                           ok     |-> /\ p.at + 12 <= Len(f)
                                      /\ p.at + 8 + reach[n] <= Len(f)]
                     ELSE [p EXCEPT !.ok = FALSE]
    IN  l[Count(f)]

-----------------------------------------------------------------------------
(* Properties *)

\* Where the bytes of an image belong: in a sparse file each image is written as
\* if it were downloaded alone, from the start of a block on.
Place(p) == IF kind = "sparse" THEN LandsAt(p.addr) ELSE p.addr

Blocks(p) == Place(p) \div BlkSize .. (Place(p) + p.size - 1) \div BlkSize

\* No other image belongs into a block of image n.
Alone(n) ==
    \A m \in DOMAIN parts \ {n} : Blocks(parts[m]) \cap Blocks(parts[n]) = {}

\* What AddImage may be called with: boot images go to address 0.
ImageSizes == Sizes \cup BootSizes
ImageAddrs == Addrs \cup ElfAddrs \cup {0}

\* The variables have their types; the position and the size that fstat gives
\* are within the file.
TypeOK ==
    /\ kind \in {"none", "sparse", "padded"}
    /\ pos \in 0 .. Len(file) /\ known \in 0 .. Len(file)
    /\ imageSize \in Nat
    /\ parts \in Seq([size : ImageSizes, addr : ImageAddrs, done : BOOLEAN])
    /\ Len(parts) <= MaxImages
    /\ appended \in BOOLEAN /\ spoiled \in BOOLEAN
    /\ opens \in 0 .. MaxOpens
    /\ queue \in Seq([size : ImageSizes, addr : ImageAddrs])
    /\ extract.images \in Seq([size : ImageSizes, addr : ImageAddrs])

\* "append images to an existing padded file" (esp_tool.cpp:528), and the same
\* of sparse files and of new ones: downloading the combined file puts every
\* image that was added where it belongs, those before a failed one included
\* (esp.cpp:413-445), if no other image belongs into one of its blocks.
ImagesArrive ==
    ~spoiled /\ Len(file) >= 4 =>
        \A n \in DOMAIN parts : parts[n].done /\ Alone(n) =>
            \A k \in 0 .. parts[n].size - 1 :
                FlashByte(file, Place(parts[n]) + k) = ImageByte(n, k)

\* Of the images of a file that was new no two share a block, where flashBegin
\* would erase the one with the other, although m_imageSize lasts from file to
\* file and AddImage may fail.  There is one exception: an image of an ELF file
\* that does not begin on a block boundary (esp.cpp:764, esp_tool.cpp:1158) may
\* erase the last block of the one before it, and no block but its first.
KeptApart ==
    ~appended =>
        \A i, j \in DOMAIN parts : i < j /\ parts[i].done /\ parts[j].done =>
            \A b \in Blocks(parts[i]) \cap Blocks(parts[j]) :
                b = parts[j].addr \div BlkSize /\ parts[j].addr % BlkSize # 0

\* Two images do not get in each other's way as AddImage sees them.
Clear(x, y) == \/ EndOf(x.size, x.addr) <= y.addr
               \/ EndOf(y.size, y.addr) <= x.addr

\* The images of an ELF file and the additional one all come into a combined
\* file that was empty, whichever of them lies higher, as long as there is room
\* between them and they can be read; AutoExtract tells nobody when one is
\* refused (esp.cpp:824, esp_tool.cpp:1194).
ExtractWhole ==
    LET I == extract.images
    IN  /\ I # <<>> /\ queue = <<>> /\ extract.fresh
        /\ \A i \in DOMAIN parts : parts[i].done
        /\ \A i, j \in DOMAIN I : i # j => Clear(I[i], I[j])
        => \A i \in DOMAIN I : \E j \in DOMAIN parts :
               parts[j].size = I[i].size /\ parts[j].addr = I[i].addr

\* When ImageInfo (esp.cpp:1165) ends without an error, it has listed the images
\* of a sparse file as they were added and found the end of the file behind the
\* last, although it reads ahead into each of them.  It does so whenever none of
\* them says that it is longer than it is; when the last one does, like a single
\* byte 0xe9, it ends with an error.  The file is a multiple of four bytes long
\* ("this shouldn't happen", esp.cpp:1041).
ListedAsAdded ==
    kind = "sparse" /\ parts # <<>> /\ (\A i \in DOMAIN parts : parts[i].done) =>
        \A reach \in [DOMAIN parts -> Reaches] :
            LET l         == Listed(file, reach)
                Within(i) == reach[i] <= RoundUp(parts[i].size)
            IN  /\ l.ok => /\ l.at = Len(file)
                           /\ l.images = [i \in DOMAIN parts |->
                                [addr |-> parts[i].addr,
                                 size |-> RoundUp(parts[i].size)]]
                /\ (\A i \in DOMAIN parts : Within(i)) => l.ok
                /\ ~Within(Len(parts)) => ~l.ok
=============================================================================
