---------------------------- MODULE ImageFormat -----------------------------
(***************************************************************************)
(* Boot images: ESP::WriteSections with ELF::WriteSection, which make one  *)
(* from sections of an ELF file; the options that collect the parameters   *)
(* of the Flash; the patch that flashWrite applies to the header of an     *)
(* image on its way to address 0; and ESP::stdImageInfo, which reads an    *)
(* image back and checks it (src/esp.cpp, src/elf.cpp, src/esp_tool.cpp).  *)
(*                                                                         *)
(* An image is a header of 8 bytes, for each segment 8 bytes and the data  *)
(* filled up to a multiple of four, and zeros up to a multiple of sixteen  *)
(* the last of which is replaced by a checksum of the data.                *)
(***************************************************************************)
EXTENDS Integers, SequencesExt

CONSTANTS
    Elf,        \* the sections of the ELF file: a sequence of [name, addr, data]
    Names,      \* section names that may be asked for
    MaxList,    \* bound: sections of an image
    Entry,      \* e_entry of the ELF file
    Values,     \* values the options give to a parameter of the Flash
    MaxEvents,  \* bound: options that set parameters, a fault counting as one
    SpoiltBy,   \* what a byte of the finished file may be changed by
    SeekFails   \* TRUE when fseek on the ELF file may fail

Byte == 0 .. 255
Limit == 2147483647   \* numbers of four bytes from here on are one to us
Word == 0 .. Limit - 1
MAGIC == 233          \* ESP_IMAGE_MAGIC
CKSUM_MAGIC == 239    \* ESP_CHECKSUM_MAGIC

ASSUME FormatAssumption ==
    /\ Elf \in Seq([name : STRING, addr : Word, data : Seq(Byte)])
    /\ \A i \in DOMAIN Elf : Len(Elf[i].data) \in 0 .. Limit - 4
    /\ MaxList \in Byte \ {0} /\ Entry \in Word
    /\ Values \subseteq 0 .. 3
    /\ MaxEvents \in Nat /\ SpoiltBy \subseteq Byte \ {0}
    /\ SeekFails \in BOOLEAN

VARIABLES
    pc,      \* "Options", then WriteSections at the "Header", a "Segment" or the
             \* "Padding"; "Made", "Raw" (one section without a header) or
             \* "Failed"
    val,     \* parm.flashParmVal
    mask,    \* parm.flashParmMask, as a set of parameters
    options, \* the options so far, in order
    list,    \* the names of the sections of the image
    used,    \* val when the image was made
    done,    \* sections written
    cksum,   \* cksum
    size,    \* imageSize
    file,    \* the image file
    flash,   \* the first block of the download: [zero, bytes], zero when it goes
             \* to address 0
    spoilt   \* index of the byte of the file that was changed, or 0

vars == <<pc, val, mask, options, list, used, done, cksum, size, file, flash,
          spoilt>>

-----------------------------------------------------------------------------
(* Bits of bytes *)

BitOf(a, w) == (a \div w) % 2

\* The byte with the bits x(w), w being their weights.
Weighted(x(_)) == x(1) + 2 * x(2) + 4 * x(4) + 8 * x(8) + 16 * x(16) + 32 * x(32)
                    + 64 * x(64) + 128 * x(128)

\* a ^ b and a | b
Xor(a, b) == Weighted(LAMBDA w : (BitOf(a, w) + BitOf(b, w)) % 2)
Or(a, b) == Weighted(LAMBDA w : IF BitOf(a, w) + BitOf(b, w) = 0 THEN 0 ELSE 1)

-----------------------------------------------------------------------------
(* Parameters of the Flash: two bits of mode, four of size, four of        *)
(* frequency, and six bits that no option of their own sets.               *)

Parms == {"mode", "size", "freq"}
Bits  == Parms \cup {"other"}

NoValue == [b \in Bits |-> 0]

ParmBytes(p) == <<p["other"] * 4 + p["mode"], p["size"] * 16 + p["freq"]>>

ParmsOf(f) == [mode |-> f[3] % 4, other |-> f[3] \div 4,
               size |-> f[4] \div 16, freq |-> f[4] % 16]

\* Mutation: the value of an option is not restricted to its mask.
MergedLoosely(v, new, m) == [b \in Bits |-> IF b \in m \/ new[b] # 0
                                             THEN new[b] ELSE v[b]]

\* (flashParmVal & ~flashMask) | (flashVal & flashMask)
Merged(v, new, m) == [b \in Bits |-> IF b \in m THEN new[b] ELSE v[b]]

\* The header on its way to the Flash: (flashParm & ~mask) | flashParmVal.
PatchedParms(f) ==
    [b \in Bits |-> Or(IF b \in mask THEN 0 ELSE ParmsOf(f)[b], val[b])]

-----------------------------------------------------------------------------
(* Sections *)

\* GetSectionNum: the first section of that name, or 0.
SectionNum(name) == SelectInSeq(Elf, LAMBDA s : s.name = name)

Field(n) == <<n % 256, (n \div 256) % 256, (n \div 65536) % 256,
              n \div 16777216>>
Zeros(n) == [i \in 1 .. n |-> 0]

Checksum(sum, s) ==
    LET after[n \in 0 .. Len(s)] ==
            IF n = 0 THEN sum ELSE Xor(after[n - 1], s[n])
    IN  after[Len(s)]

RoundUp(n) == ((n + 3) \div 4) * 4

\* The data of a section as WriteSection writes it.
Padded(s) == s.data \o Zeros(RoundUp(Len(s.data)) - Len(s.data))

Segment(s) == Field(s.addr) \o Field(RoundUp(Len(s.data)))

Header == <<MAGIC, Len(list)>> \o ParmBytes(val) \o Field(Entry)

\* ((imageSize + 16) & ~15) - imageSize
PadSize == ((size + 16) \div 16) * 16 - size

-----------------------------------------------------------------------------
Init ==
    /\ pc = "Options" /\ val = NoValue /\ mask = {} /\ options = <<>>
    /\ list = <<>> /\ used = NoValue /\ done = 0
    /\ cksum = CKSUM_MAGIC /\ size = 0 /\ file = <<>> /\ spoilt = 0
    /\ flash = [zero |-> FALSE, bytes |-> <<>>]

Eventful == Len(options) < MaxEvents

\* The options --flash-mode, --flash-size, --flash-freq (one parameter each)
\* and --flash-parm (all of them in one value), before or after the image is
\* made.
SetParms(m, new) ==
    /\ pc \in {"Options", "Made", "Raw"} /\ flash.bytes = <<>>
    /\ Eventful /\ spoilt = 0
    /\ val' = Merged(val, new, m)
    /\ mask' = mask \cup m
    /\ options' = Append(options, [sets |-> m, to |-> new])
    /\ UNCHANGED <<pc, list, used, done, cksum, size, file, flash, spoilt>>

\* Mutation: the combined value sets all sixteen bits.
AllBits == Bits

\* FLASH_FREQ_MASK | FLASH_SIZE_MASK | FLASH_MODE_MASK
AllParms == Parms

SetOption ==
    \/ \E p \in Parms, v \in Values : SetParms({p}, [NoValue EXCEPT ![p] = v])
    \/ \E v \in Values, o \in {0, 63} :
          SetParms(AllParms, [b \in Bits |-> IF b = "other" THEN o ELSE v])

\* A list of more than one name asks for an image.
MakeImage ==
    /\ pc = "Options"
    /\ \E n \in 2 .. MaxList : list' \in [1 .. n -> Names]
    /\ pc' = "Header" /\ used' = val
    /\ UNCHANGED <<val, mask, options, done, cksum, size, file, flash, spoilt>>

\* Bytes s are written, all of them.
Wrote(s) == file' = file \o s /\ size' = size + Len(s)

\* The file cannot be written any further, or the ELF file not read: some of
\* the bytes s are there.
Stops(s) ==
    /\ Eventful
    /\ \E k \in 0 .. Len(s) - 1 : file' = file \o SubSeq(s, 1, k)
    /\ pc' = "Failed"
    /\ UNCHANGED <<done, cksum, size>>

Rest == UNCHANGED <<val, mask, options, list, used, flash, spoilt>>

WriteHeader ==
    /\ pc = "Header" /\ Rest
    /\ \/ Wrote(Header) /\ pc' = "Segment" /\ UNCHANGED <<done, cksum>>
       \/ Stops(Header)

NextName == list[done + 1]

NoSection ==
    /\ pc = "Segment" /\ SectionNum(NextName) = 0
    /\ pc' = "Failed"
    /\ UNCHANGED <<done, cksum, size, file>> /\ Rest

\* Mutation: the zeros are left out of imageSize.
SegmentWrittenShort(s) ==
    /\ file' = file \o Segment(s) \o Padded(s)
    /\ size' = size + 8 + Len(s.data)
    /\ cksum' = Checksum(cksum, s.data)

\* A segment is written.  imageSize counts paddedSize.
SegmentWritten(s) ==
    /\ file' = file \o Segment(s) \o Padded(s)
    /\ size' = size + 8 + RoundUp(Len(s.data))
    /\ cksum' = Checksum(cksum, s.data)

\* fseek fails: WriteSection returns the size and has written nothing.
SegmentSkipped(s) ==
    /\ SeekFails /\ s.data # <<>>
    /\ file' = file \o Segment(s)
    /\ size' = size + 8 + RoundUp(Len(s.data))
    /\ cksum' = cksum

WriteSegment ==
    /\ pc = "Segment" /\ SectionNum(NextName) # 0 /\ Rest
    /\ LET s == Elf[SectionNum(NextName)]
       IN  \/ /\ SegmentWritten(s) \/ SegmentSkipped(s)
              /\ done' = done + 1
              /\ pc' = IF done + 1 = Len(list) THEN "Padding" ELSE "Segment"
           \/ Stops(Segment(s) \o Padded(s))

WritePadding ==
    /\ pc = "Padding" /\ Rest
    /\ LET pad == Append(Zeros(PadSize - 1), cksum)
       IN  \/ Wrote(pad) /\ pc' = "Made" /\ UNCHANGED <<done, cksum>>
           \/ Stops(pad)

\* One name only: the section as it is, without a header.
MakeRaw ==
    /\ pc = "Options" /\ UNCHANGED <<val, mask, options, flash, spoilt>>
    /\ \E name \in Names : list' = <<name>>
    /\ used' = val
    /\ IF SectionNum(list'[1]) = 0
       THEN pc' = "Failed" /\ UNCHANGED <<done, cksum, size, file>>
       ELSE LET s == Elf[SectionNum(list'[1])]
            IN  \/ /\ file' = s.data /\ cksum' = Checksum(cksum, s.data)
                   /\ pc' = "Raw" /\ done' = 1 /\ size' = size
                \/ Stops(s.data)

-----------------------------------------------------------------------------
(* Download *)

IsImage(f) == f[1] = MAGIC

\* flashWrite sends the first block.
Download(zero) ==
    /\ pc \in {"Made", "Raw"} /\ Len(file) >= 4 /\ flash.bytes = <<>>
    /\ flash' = [zero  |-> zero,
                 bytes |-> IF zero /\ IsImage(file) /\ mask # {}
                           THEN ReplaceAt(ReplaceAt(file, 3,
                                              ParmBytes(PatchedParms(file))[1]),
                                          4, ParmBytes(PatchedParms(file))[2])
                           ELSE file]
    /\ UNCHANGED <<pc, val, mask, options, list, used, done, cksum, size, file,
                   spoilt>>

-----------------------------------------------------------------------------
(* A byte of the finished file goes bad. *)

Spoil ==
    /\ pc = "Made" /\ spoilt = 0 /\ flash.bytes = <<>> /\ Eventful
    /\ \E i \in 1 .. Len(file), x \in SpoiltBy :
          /\ file' = [file EXCEPT ![i] = Xor(@, x)]
          /\ spoilt' = i
    /\ UNCHANGED <<pc, val, mask, options, list, used, done, cksum, size, flash>>

Next == \/ SetOption \/ MakeImage \/ WriteHeader \/ NoSection \/ WriteSegment
        \/ WritePadding \/ MakeRaw \/ Spoil
        \/ \E zero \in BOOLEAN : Download(zero)

Spec == Init /\ [][Next]_vars

-----------------------------------------------------------------------------
(* stdImageInfo *)

\* The number at position p.
Number(f, p) == IF f[p + 4] > 127 THEN Limit
                ELSE f[p + 1] + 256 * f[p + 2] + 65536 * f[p + 3]
                              + 16777216 * f[p + 4]

\* The n bytes at position p, fewer at the end of the file.
ReadAt(f, p, n) == SubSeq(f, p + 1, IF n < Len(f) - p THEN p + n ELSE Len(f))

\* The segments of f, the position after them and the checksum of their bytes;
\* ok becomes FALSE when one cannot be read.
Scan(f) ==
    LET seg[n \in 0 .. f[2]] ==
            IF n = 0
            THEN [at |-> 8, segs |-> <<>>, sum |-> CKSUM_MAGIC, ok |-> TRUE]
            ELSE LET s    == seg[n - 1]
                     len  == IF s.at + 8 <= Len(f) THEN Number(f, s.at + 4) ELSE 0
                     data == ReadAt(f, s.at + 8, len)
                 IN  IF s.ok /\ s.at + 8 <= Len(f) /\ Len(data) = len
                     THEN [at   |-> s.at + 8 + len,
                           segs |-> Append(s.segs, [addr |-> Number(f, s.at),
                                                    data |-> data]),
                           sum  |-> Checksum(s.sum, data), ok |-> TRUE]
                     ELSE [s EXCEPT !.ok = FALSE]
    IN  seg[f[2]]

\* The padding and the checksum byte: 16 - (pos & 0x0f) bytes.
TailSize(at) == 16 - (at % 16)

\* Mutation: the end of the file is not looked at.
TailReadAny(tail, at) == TRUE

TailRead(tail, at) == Len(tail) = TailSize(at)

\* Mutation: the last byte only is compared.
CorrectLast(sum, tail) == sum = Last(tail)

Correct(sum, tail) == Checksum(sum, tail) = 0

\* What stdImageInfo says of the file f: an error, or the segments and whether
\* the checksum is correct.
Info(f) ==
    IF Len(f) < 8 \/ f[1] # MAGIC THEN [stat |-> "error"]
    ELSE LET s    == Scan(f)
             tail == ReadAt(f, s.at, TailSize(s.at))
         IN  IF ~s.ok \/ ~TailRead(tail, s.at) THEN [stat |-> "error"]
             ELSE [stat |-> "read", segs |-> s.segs, end |-> s.at + Len(tail),
                   good |-> Correct(s.sum, tail)]

-----------------------------------------------------------------------------
(* Properties *)

Asked == [i \in 1 .. Len(list) |-> Elf[SectionNum(list[i])]]

\* Where the segments of the image end.
Ends ==
    LET end[n \in 0 .. Len(list)] ==
            IF n = 0 THEN 8 ELSE end[n - 1] + 8 + Len(Padded(Asked[n]))
    IN  end

IsBootImage == file[1] = MAGIC

Named(p) == p \in Parms /\ \E i \in DOMAIN options : p \in options[i].sets

\* The value the last option that names the parameter p gave it.
Wanted(p) ==
    LET k == SelectLastInSeq(options, LAMBDA o : p \in o.sets)
    IN  options[k].to[p]

\* The variables have their types.
TypeOK ==
    /\ pc \in {"Options", "Header", "Segment", "Padding", "Made", "Raw",
               "Failed"}
    /\ val \in [Bits -> Byte] /\ used \in [Bits -> Byte]
    /\ mask \subseteq Parms
    /\ Len(options) <= MaxEvents
    /\ list \in Seq(Names) /\ done \in 0 .. Len(list)
    /\ cksum \in Byte /\ size \in Nat
    /\ file \in Seq(Byte)
    /\ flash \in [zero : BOOLEAN, bytes : Seq(Byte)]
    /\ spoilt \in 0 .. Len(file)

\* What WriteSections (esp.cpp:590) makes, stdImageInfo (esp.cpp:1183) reads
\* back: the sections asked for in their order, each with its address and its
\* data filled up to words, then a tail that ends the file and makes the
\* checksum correct, whatever the sizes of the sections are modulo four and
\* sixteen, empty ones included; the download changes nothing of it.
ReadBack ==
    pc = "Made" /\ spoilt = 0 =>
        \A f \in {file, flash.bytes} \ {<<>>} :
            /\ Info(f).stat = "read" /\ Info(f).good
            /\ Info(f).end = Len(f) /\ Len(f) % 16 = 0
            /\ Info(f).segs = [i \in DOMAIN Asked |-> [addr |-> Asked[i].addr,
                                                       data |-> Padded(Asked[i])]]

\* A file that WriteSections could not finish making of a list of sections, at
\* whatever byte it stopped (esp.cpp:640-681), is not taken for a correct image.
StumpNoticed ==
    pc = "Failed" /\ Len(list) > 1 =>
        Info(file).stat = "error" \/ ~Info(file).good

\* A byte of the data of a segment, or of the padding with the checksum, that
\* has changed is noticed (esp.cpp:1285).
DataGuarded ==
    pc = "Made" /\ spoilt # 0 =>
        LET InData == \/ spoilt > Ends[Len(list)]
                      \/ \E n \in 1 .. Len(list) :
                            /\ spoilt <= Ends[n]
                            /\ spoilt > Ends[n] - Len(Padded(Asked[n]))
        IN  InData => Info(file).stat = "read" /\ ~Info(file).good

\* Of the parameters of the Flash, those that options have named, in whatever
\* order and mixture of single and combined ones, arrive with the value named
\* last in the header of an image that goes to address 0, and all the other
\* bits of the header stay as the image has them (esp.cpp:503,
\* esp_tool.cpp:1273).
ParmsArrive ==
    flash.bytes # <<>> =>
        LET Sent == ParmsOf(flash.bytes)
            Same == [i \in DOMAIN file \ {3, 4} |-> flash.bytes[i]]
                        = [i \in DOMAIN file \ {3, 4} |-> file[i]]
        IN  IF flash.zero /\ IsBootImage
            THEN /\ Same
                 /\ \A b \in Bits : Sent[b] = IF Named(b) THEN Wanted(b)
                                              ELSE ParmsOf(file)[b]
            ELSE flash.bytes = file
=============================================================================
