# A verification of esp_tool in TLA+

esp_tool (`src/`) writes programs to the Flash of an ESP8266 over a serial
line, reads the Flash back, identifies the device, and makes and inspects image
files. It is a sequential program of about 5500 lines of C++. What is hard in it
is at its borders: a serial line that loses and damages bytes, a device that
restarts, answers late or several times, a driver whose buffer fills up between
two calls, files that end in the middle, and a command line whose options stay
behind for later operations.

This directory holds TLA+ modules for those parts, configurations that check
them with TLC, and proofs checked by TLAPS. It describes the source at the
commit beside it; line numbers are those of that commit. `PROJECT.json` is the
index: components, runs, mutants (one per checked property), the lines every
definition stands for, findings, hazards, theorems.

## 1. Inventory

| Component | Source | State it keeps | Operations | Hard behaviour |
|---|---|---|---|---|
| Flash download | `esp.cpp` `FlashWrite`, `flashWrite`, `flashBegin`, `flashFinish`, `doCommand` | image and block being written, attempts | one command per block, up to three attempts, the step to the new program | lost, damaged and late answers; retries; a device that restarts |
| Packets and replies | `esp.cpp` `sendCommand`, `writePacket`, `readPacket`, `readByte`, `Sync`, `Connect`; SLIP coding in `serial.cpp` | state of the reader, header, body, deadline | send a packet, read a packet, drain the replies to SYNC, connect | bytes spread over time, escapes cut in two, frames run together, what is left of an earlier command |
| Serial queue | `serial.cpp` `SerialQueue`, reading members of `SerialChannel` | array, head, count | Refresh, Available, Read, GetData, Flush, Init | bytes arriving between any two calls; content moved over itself |
| Serial port | `serial.cpp` `SerialOpen`, `SerialRead`, `SerialFlush`, `SerialControl`, ... | handle, settings | calls into the operating system | what a flush discards, what an error returns |
| Combined image files | `esp.cpp` `AddImage`, `FlashWrite`; opening in `esp_tool.cpp` | the file, its position, `m_imageSize` | open new, append, add an image, read back | an image that fails half-way, a second file, a second run of the program |
| Virtual files | `elf.cpp` `VFile` | buffer, size, position | Open, Close, Read, Peek, Write, Fill, Seek, NeedSpace | growth of the buffer, boundaries of size and position |
| Image creation | `esp.cpp` `WriteSections`, `AutoExtract`; `ELF::WriteSection` | the image file, checksum, size | copy sections of an ELF file, checksum, padding; add the images to a combined file | sections of any size, writes that fail half-way, the order in which images are added |
| Image information | `esp.cpp` `ImageInfo`, `stdImageInfo` | none | read what WriteSections and AddImage write | agreement with the writers |
| ELF reader | `elf.cpp` `ELF` | tables of an ELF file | Open, SectionInfo, ReadSection | a foreign format |
| Programs in RAM | `esp.cpp` `FlashRead`, `FlashErase`, `ramBegin/Data/Finish` | what the device executes | load a stub, receive the Flash, erase it | blocks without number or checksum; the device does not return from the stub |
| Registers and identification | `esp.cpp` `ReadReg`, `WriteReg`, `ReadMAC`, `GetFlashID`, `DumpMem` | none | one command after another | an answer taken for another's |
| Reset of the device | `esp.cpp` `ResetDevice`, `Run` | levels of DTR and RTS | sequences per circuit | order of the levels, calls that fail, levels left from before |
| Options and order of operations | `esp_tool.cpp` `main`, `processArg`, `processFile`, `openComm` | `parm`, the ESP object | one case per option, one branch per mode of a file | modes and addresses that wait; failing operations among several |
| Monitor | `esp_tool.cpp` `main` | none | copy bytes between console and port | the console waits for the port |
| Time | `esp.cpp` `getTickCount` | a counter of milliseconds | compare with a deadline | the counter wraps |

How they interact: `main` hands each argument to `processArg`; an option leaves
a value in `parm`, an operation calls `openComm` (open the port, `Connect`) and
then the ESP object. ESP makes commands with `doCommand`, which calls
`sendCommand` (flush, then write a packet) and `readPacket`; both use the
`SerialChannel`, which reads through a `SerialQueue`. The queue is filled from
the driver on every call that looks at it; there are no threads or callbacks,
the only concurrency is that of the driver and the device. Image files are read
through `VFile`: on disk through stdio, in memory for `AutoExtract`, which gives
its images to `AddImage`. At the end `main` starts the application with a reset
or with `Run`.

What makes each part correct is the list `hazards` of `PROJECT.json`, each with
the properties that would catch it going wrong, or the reason why none does yet.

## 2. The modules

| Module | Stands for | Composes with |
|---|---|---|
| `FlashDownload` | the download: host, line and boot loader, one message per packet | implements `FlashPromise` |
| `FlashPromise` | what the person at the keyboard is promised, without a line | |
| `PacketReader` | connect and read registers, byte by byte | detail of the exchange of `FlashDownload` |
| `SerialQueue` | the queue on its array | implements `ByteFifo` |
| `ByteFifo` | a FIFO of bytes that may be flushed | is the `rx` of `PacketReader` |
| `CombinedImage` | files of several images, written and read back | |
| `VirtualFile` | a file in memory on its buffer | implements `MemoryFile` |
| `MemoryFile` | a sequence of bytes and a position in it | |
| `FlashReading` | reading the Flash with a stub | extends `PacketReader`, through which it loads the stub |
| `ImageFormat` | boot images: made, patched for the Flash, read back | its images are the ones `CombinedImage` adds |
| `ResetLines` | DTR, RTS and TxD during a reset | detail of the resets in `Session` and `FlashDownload` |
| `TickTimer` | deadlines on the counter of milliseconds | detail of the timeouts of `PacketReader` and `FlashReading` |
| `Session` | the program from its first argument to its end | its operations are what the other modules detail |
| `FlashDownloadProofs`, `FlashReadingProofs`, `VirtualFileProofs`, `CombinedImageProofs`, `SessionProofs`, `ImageFormatProofs` | theorems | each extends the module it is named after; `FlashReadingProofs` begins with those about `PacketReader`, which `FlashReading` extends, and has an instance of `TickTimer` |
| `SerialPortProofs` | theorems | extends `SerialQueue` and `ResetLines`, the two halves of the port (for which the names of the latter have an L: `LSpec`, `LTypeOK`) |
| `SequenceFacts` | lemmas the proofs share: sequences and flattening them, least and largest numbers, induction and recursion up to a number | |
| `MC...` | the constants of the runs | |

Operators marked `Mutation:` are not part of the specification. Each is a
plausible slip in the code; putting it in the place of the definition after it
makes the property named in `PROJECT.json` fail.

### FlashDownload

`pc` is the command the host is at: `Begin` (`flashBegin`), `Data` (the loop of
`flashWrite`), `RunBegin` and `RunEnd` (`flashFinish`, called by `Run`), or the
end. `seg` and `blk` are the image and `blkIdx`; `try` counts the attempts of the
loop at `esp.cpp:520`; `waiting` says that `readPacket` is under way. `rx`,
`toDev` and `toHost` are the receive buffer of the host and the two directions of
the line. A message is one packet: a FLASH_DATA carries the number of its block,
a reply only the kind of command it answers, as in the code. Flash is counted in
blocks of `ESP_FLASH_BLK_SIZE`, and the content of a block says whose it is. An
address stands for the block to which `flashBegin` masks it.

One action per outcome of the code: `SendCommand` (flush and packet), `SendFails`,
`ReadFails` (file ends early), `GoodReply`, `BadReply`, `Timeout`, `ResetToRun`.
`SerialFlush` discards output as well on Linux (`tcflush(TCIOFLUSH)`), which
`FlushesOutput` switches. The boot loader (`DeviceBegin`, `DeviceData`,
`DeviceEnd`, `DeviceRefuses`, `DeviceSilent`) is not in the repository; it is
modelled from how the code uses it: FLASH_BEGIN erases and sets a base,
FLASH_DATA programs a block relative to that base, programming only clears bits.
`Faults` names what may go wrong, `MaxFaults` how often.

Pieces of frames are messages too. `readPacket` returns at the first wrong byte
(`esp.cpp:1678-1705`) and the next command flushes at once, so that the rest of a
damaged reply may arrive behind that flush, and when this rest is the closing
frame byte alone, the next `readPacket` takes it for an opening one and reads into
the reply that follows (`BadReply`). A write that fails may leave a frame without
its end (`SendFails`, `PartialCommand`), which the device joins with the start of
the next command (`DeviceJoins`). Every piece that so outlives its cause, and
every byte that belongs to nothing (`Noise`), is counted in `rests` and bounded by
`MaxRests`. The line is `Orderly` while answers come in time and `rests` is zero.

Left out: the patch of the Flash parameters in the first block, which is in
`ImageFormat`, and erasing a region with `FlashErase`, which writes nothing.

### PacketReader

`readPacket` with its four states (`PKT_BEGIN`, `PKT_HEADER`, `PKT_BODY`,
`PKT_END`), the SLIP coding of `SerialChannel`, and its callers: `doCommand`,
`Sync` with the replies it drains, `Connect` with its attempts, and commands that
are not repeated. `rx` is what the host could read, `line` what is still coming;
`Arrive` moves one byte, so bytes are spread over time in every way. `taken` and
`last` record what one call of `readPacket` read and returned, for the
properties. The bytes are real bytes (192, 219, 220, 221 matter), the contents
few. Left out: the lines that reset the device, and the buffer in which a longer
body is returned (no caller asks for one).

### FlashReading

`PacketReader` makes the five exchanges of `FlashRead` (connect, `flashBegin`,
`ramBegin`, `ramData`, `ramFinish`); the answer to the last starts the stub, which
sends its blocks on the same line (`StubSends`). `phase`, `blk`, `got` follow the
two loops: start marker, bytes, end marker, each with `readByte` and its own
deadline. `Wants` is `needBytes`: two while bytes are decoded, also for the last
byte of a block, which only the end marker follows. `Stored` keeps the bytes of a
last block that are beyond the length from the file. The stub is machine code in
an array; it is modelled from its parameters and from what the host expects.

### ImageFormat

`WriteSections` writes header, segments and padding in steps, each of which may
stop at any byte (`Stops`); `Segment`, `Padded`, `PadSize` and `Checksum` are
those of the code, on real bytes; XOR and OR are written out bit by bit (`BitOf`,
`Weighted`), so that the provers can follow them. Numbers of four bytes are those
below 2^31 - 1, among them every address of the device; greater ones, which only
a changed file holds, are one (`Limit`). `SetOption` gives parameters of the Flash before or after the image is
made; `Download` patches the first block. `Info` is `stdImageInfo`, written from the
reader's code and not from the writer's. `Spoil` changes one bit of the finished
file. `SeekFails` lets `fseek` on the ELF file fail, after which `WriteSection`
returns the size without writing (`elf.cpp:103`): `ReadBack` is violated at once,
and the run leaves it out. `StumpNoticed` speaks of lists of sections: a single
section is written without a header (`MakeRaw`), and what is left of one may look
like anything.

### ResetLines

`dtr`, `rts`, `txd` are the lines, `todo` the rest of the sequence of
`ResetDevice` for the circuit `mode`. `Control` is one call of `SerialControl` with
the delay after it; `atOnce` says whether both lines change together (Linux) or DTR
first (Windows). The circuits are outside the repository and follow the comments
of `ResetMode_t`: `HeldDown` and `Gpio0Down` say what pulls the pins down, a rising
DTR makes a pulse through a capacitor, and the device looks at GPIO0 when RST is
released (`Levels`). Of the capacitor it is assumed that its pulse outlasts the
delays of up to 5 ms and ends within those of 75 ms and more; the 10 microseconds
of the mode dtronly count with the first.

### TickTimer

Four comparisons of the code on a counter of any size; the theorems about them are
at the end of `FlashReadingProofs`.

### SerialQueue

`data`, `curSize`, `head`, `count` are the members of the class. `Refresh`,
`Read`, `GetData`, `Flush`, `Reopen` are its operations; `GetData` takes a step
for each turn of its loop, so that bytes arrive in between. `driver` is what the
operating system holds; `Refreshed` gives the states after the call of
`Refresh` that every operation starts with, for every number of bytes `read` may
hand over. `CopyOrders` says in which direction `memcpy` copies: with overlapping
ranges the standard leaves that open. `ReadErrors` lets `read` fail, whose result
-1 then goes into an unsigned counter. `m_maxSize` is zero wherever the program
makes a queue and its branches are left out.

### CombinedImage

`NewFile` and `AppendTo` are the options that open a combined file; `AddImage` is
split as the code is (refusal of an address below what was written, sparse and
padded files, failing to read the image after some of its parts). A byte says
where it came from. `FlashByte` is the reference: what `FlashWrite` of the
finished file leaves at an address. A file given by name is refused unless its
address is on a block boundary (`Addrs`); nobody asks that of `.irom0.text` and the
additional image (`ElfAddrs`), which `flashBegin` masks (`LandsAt`): in a sparse
file such an image lands at the start of the block (`Place`). `Listed` is what
`ImageInfo` lists. It reads a word of each image ahead and, of one that begins with
0xe9, as far as `stdImageInfo` does; `reach` says how far that is, over all values
in `Reaches`, and the listing ends with an error where it is beyond the end of the
file. `AutoExtract` puts its images in `queue`, in the order of the code (`InOrder`), and `AddImage` is
called for each until one is not added. `m_imageSize` outlives the file as in the
code, and a new run of the program (`AppendTo` with `imageSize` zero) forgets it.
Failing writes of the combined file are left out, and image files of no bytes,
which are refused.

### VirtualFile

The members `m_buf`, `m_bufSize`, `m_size`, `m_pos`, and an action for each
member function, for mode "v" and elements of one byte. `Fresh` is memory that
was never written. `call` records the latest call, so that the refinement of
`MemoryFile` speaks of what is returned and not only of what is kept.

### Session

`parm`, the ESP object (`open`, `connected`, `autoRun`, `elf`) and what the device
executes. Each case of `processArg` and each branch of `processFile` is an
action; an operation on the device goes through `connect` (`openComm`) and
`operate`, and then succeeds in one step or ends the program, as its `exit(1)`
does. `line` is the command line so far, which the properties read to say what
was asked for, independently of what the program keeps. The name of a file is a
record: whether it begins with "@", and the address it contains; `extractAddress`
takes the address only from a name that begins so (`InName`). `done` has every
operation that was carried out, those on ELF files and images too; where nobody
looks at the result (`AddImage`, `AutoExtract`, `ImageInfo`) it was carried out when
it was called. `DisplayHelp` is the end of a run all arguments of which came from
the variable ESP_TOOL: `main` shows the help, and neither closes the combined file
nor starts the device. `apart` are the arguments for which no connection was made, after which `processFile` returns and the
program goes on. Faults of the line during `Run` are the subject of
`FlashDownload` and are left out here. Flash parameters, speeds and the name of
the port are only kept and handed on, and left out. `OpenElf` sets `elf` or not:
`ELF::Open` returns 0 for any file it can open.

## 3. What the runs check

A run is `tlc -config <cfg> <module>`.

| Run | Properties | Bounds |
|---|---|---|
| `DownloadInTime` | `TypeOK`, `AckedStored`, `RunsOnlyComplete`, `RetriesSurvive`, `PromiseKept` | three images (two blocks, none, one) in descending order of address, five blocks of Flash, three attempts, five faults of every kind, three pieces left over, answers in time; 182,438 states |
| `DownloadAnyLink` | `InPlace`, `Terminates` | two images that touch, three faults of every kind, two pieces left over, answers that come late; 464,900 states |
| `DownloadFlush` | `SuccessMeansStored` (violated) | the same two images, no fault, late answers |
| `PacketSession` | `TypeOK`, `AcceptedIsPacket`, `ValuesTrue`, `EscapesWhole`, `Quiet`, `Concludes` | SYNC answered three times, two attempts, two register reads full of escapes, one fault at any byte |
| `QueueFifo` | `TypeOK`, `WithinArray`, `FifoKept`, `GetReturns` | two values of a byte, five bytes received, three asked for at once |
| `CombineFiles` | `TypeOK`, `ImagesArrive`, `KeptApart`, `ExtractWhole`, `ListedAsAdded` | blocks of 8 bytes, copied in parts of 16, images of 1, 7 and 18 bytes at 0 and 24, three images, two openings; an ELF file gives a boot image of 16 bytes and images of 1 and 18 at 8, 20 and 22; `stdImageInfo` reads 0, 16 or 32 bytes; 579,087 states |
| `CombineAppend` | `ImagesArrive` (violated) | the same, padded files appended to |
| `MemoryKept` | `TypeOK`, `ShortMeansEnd`, `FileKept` | increment 2, files of 4 bytes, calls of 3 |
| `SessionOrder` | `TypeOK`, `PlacedAsAsked`, `NothingSkipped`, `RunsAfter` | four arguments, two addresses (one aligned, one not), names with and without "@" and with and without an address; 6,941,799 states |
| `FlashReading` | `FileIsFlash`, `NothingShifted`, `ReadConcludes` | blocks of 3 bytes, lengths of 2 and 5, content full of escapes, SYNC answered twice, one fault at any byte |
| `ImageFormat` | `TypeOK`, `ReadBack`, `StumpNoticed`, `DataGuarded`, `ParmsArrive` | five sections of 0 to 6 bytes, two of one name; lists of three names, one missing; two options, a fault counting as one |
| `ResetLines` | `LTypeOK`, `EndsAsAsked`, `LeavesReleased` | all circuits, three resets, two calls that fail |

What they show:

- **DownloadInTime.** As long as answers come in time and nothing was left over on
  the line, an image is announced as written only when all of its blocks are in
  the Flash, however packets are lost or damaged, and a restart of the device
  included; the program is started only when all images are. Once a piece was left
  over nothing of this is promised (`Orderly` is the premise of the three
  properties). `RetriesSurvive` speaks of all lines that answer in time: a download
  that gives up at a block has met a fault or a piece left over for each of its
  attempts, so no attempt fails for want of a cause of its own. One fault can be
  enough, if it leaves pieces behind for the attempts that follow.
- **DownloadAnyLink.** Over any line, with late answers and pieces left over, a
  block never gets data of another block, which is the best that can be said (see
  `DownloadFlush`); and the tool always ends.
- **PacketSession.** Whatever one fault does, a reply is accepted only if the
  bytes read are one whole packet that answers the kind of command sent with
  status zero. If no byte is spoilt, the value is the one for this command.
- **QueueFifo.** The queue is a FIFO for bytes arriving at any moment, its used
  part stays in its array, and `GetData` returns.
- **CombineFiles.** Every image in a combined file, those before an image that
  failed included, arrives where it belongs when it is alone in its blocks. For an
  image of an ELF file that is not on a block boundary that is the start of its
  block and not its address (section 5). Images of a new file share no block, but
  for one case: the first block of such an image may be the last of the one before
  it. The images of an ELF file are all added wherever the additional one lies, as
  far as there is room as `AddImage` counts it. `ImageInfo` lists what was added or
  ends with an error, and the latter only when an image says that it is longer than
  it is.
- **MemoryKept.** A file in memory is a file; a short read means its end, on which
  `flashWrite` relies.
- **FlashReading.** Without a spoilt byte the file is the Flash or the read fails;
  one fault, such as a byte lost, spoilt or added, changes at most one byte of a file
  that is called good: the markers catch every shift. With a late reply to SYNC and a
  spoilt byte together they do not (section 4). Reading ends.
- **ImageFormat.** Every image that is finished is read back with its sections, a
  correct checksum and its end at the end of the file; one that was cut short at
  any byte, or has a changed bit in its data, is not taken for correct. Parameters
  of the Flash arrive as named last, and nothing else of the image changes.
- **ResetLines.** A reset all calls of which succeed ends in the loader or the
  application as asked for, with both pins released, whatever the resets before it
  did and however calls failed in them. Three cases are left out, and TLC finds
  `EndsAsAsked` violated in each: a reset with a failed call of its own, whose result
  nobody looks at; the modes in which the code relies on levels from before
  (outside `FromAnyLevels`) when the lines are not at rest; and the loader with
  NodeMCU on Windows (`Exposed`), where RST is released before GPIO0 is down.
- **SessionOrder.** Each file goes where the command line says and in the mode set
  last, with the ELF file named last; the address in a name counts only behind "@".
  Of the operations asked for, on the device, on ELF files and on images, all were
  done, in order, while the program goes on, but for those on the device when there
  was no connection. At the end the application is executed, unless the program
  read the Flash or erased all of it and has no reset to use (section 5).

Why the bounds are enough. In `FlashDownload`, three attempts and five faults let
one block use up its attempts and leave two faults for another; three pieces let
every attempt at a block meet one; an empty image
and descending addresses show mistakes in counts and bases. The state of the
exchange does not depend on how many blocks came before. In `PacketReader` one
fault anywhere meets every state of the reader; two commands of the same kind
with different values are what could be confused. In `SerialQueue` five bytes make the array
grow twice and the content move over itself. The sizes in `CombinedImage` leave
remainders of 1, 2 and 3 and reach into a third block, the addresses of an ELF
file are on a block boundary or not, two of them in one block, and one image is
shorter and one longer than `stdImageInfo` may read; the code repeats every
part and every image alike. `Session` has four arguments because what may go
wrong relates an option, an operation in another mode, and the operation the
option was meant for. In `FlashReading` one block shorter than the size of a block
and two of which the second is cut meet both branches of the length; in
`ImageFormat` sections have every rest modulo four, none at all, and sums that pass
sixteen, and an address of four bytes; three resets of any kinds follow any end of the ones before. What the bounds could hide in the download, the packets, the
reading of the Flash, the queue, combined files, the file in memory, boot images,
resets and the command line is excluded by the proofs, as far as section 4 goes.

Deadlock is not checked where the program ends (downloads, packet session,
reading, images, session) or where the bounds on what arrives and on openings stop the model
(queue, combined files, resets). `MemoryKept` has deadlock checked.

### Fairness

- `FlashDownload!FairHost`: weak fairness of the host alone. The host is a
  sequential program; `readPacket` looks at its deadline in every turn
  (`esp.cpp:1655`), so `Timeout` or another step is always possible. Nothing is
  assumed of the device or the line: `Timeout` with `LateReplies` needs neither.
- `PacketReader!FairSpec`: the same for the host, and that the line delivers the
  bytes on it, without which no reply is ever complete.
- `FlashReading!FairRead`: the same for the commands and for `readByte`, whose loop
  looks at its deadline whenever bytes are missing (`esp.cpp:1605`), and that the
  stub, once started, sends its blocks. `ReadConcludes` asks for success only when
  there was no fault.
- `SerialQueue!FairSpec`: the loop of `GetData` goes on. It is a loop without a
  wait (`serial.cpp:692-709`), and `read` on a port that reports bytes hands them
  over in the end. Bytes that never arrive keep `GetData` waiting, as in the
  code; `GetReturns` speaks of those that have arrived.

## 4. What is proved

For all values of the constants, by TLAPS.

**FlashDownloadProofs.** `TypeCorrect` holds for any line. It needs `Attempts`
(an attempt is only made below the bound; the run step comes after the last
image) to be inductive. For any images that fit and do not overlap, any number of
attempts and faults:

- `BlocksInPlace`: `[]InPlace`, over any line, with late answers and pieces left over;
- `AckedBlocksStored`: `[]AckedStored`, `RunsCompleteProgram`: `[]RunsOnlyComplete`, and
  `PromiseImplemented`: the download implements `FlashPromise`. That the line is
  `Orderly` is a premise within these properties and not an assumption of the
  theorems. For a line that answers in time they say that all is well until a
  piece is left over; of a line that may answer late they say nothing;
- `RetriesAreWorthTheirFaults`: `[]RetriesSurvive`, assuming only that answers come in
  time (`~LateReplies`), whatever pieces are left over.

The inductive invariant is `TypeInv /\ (Orderly => OrderlyInv)`; a line that is orderly
was so before (`OrderlyBefore`). `AckedStored` alone is not inductive: a good reply
advances `blk`, and nothing in the reply says to which block it belongs. `InFlight`
supplies that: at most one message is on its way, it is the command waited for or
its reply, and a good reply means the command was served (`Served`). `Prepared` says
that while blocks are sent the device counts from the start of this image and its
blocks hold nothing foreign, so that programming does not spoil them, and that a
running program means the end. Each step keeps `InFlight` because without late
answers the host gives up only when the line is empty. Exactly this fails in
`DownloadFlush`.

`RetriesSurvive` needs more, as several messages and pieces may be under way. `RetryInv`
has `AfterBegin` (behind the reply to FLASH_BEGIN there are only pieces), `AnswersGood`
(while blocks are sent, only pieces can be met as bad replies) and `AttemptsPaid`: the
attempts made, with the pieces still under way (`Load`), are at most the faults and
the pieces left over so far (`Budget`), but for one attempt whose answer is
still to come; `Closed` keeps that after the end. The pieces of a queue are counted
(`Pieces`, with `PiecesSteps` for what sending and taking do to the count).

Over any line little of that remains, and late replies let the host run ahead of
the device. What holds is that FLASH_BEGIN is not repeated: there is at most one on
its way, or one good reply to it, and then the host waits for it or has given up
for good (`BeginCommands`, `BeginReplies`). So the base of the device is not changed
behind the back of a host that sends blocks, and every FLASH_DATA on its way, however
late, belongs to the image the device counts from (`DataCommands`).

**FlashReadingProofs**, on `PacketReader`. For every session, every number of replies to SYNC and
whatever bytes the line loses, spoils or adds: `ReaderTyped`, `AcceptedPackets`
(`[]AcceptedIsPacket`) and `EscapesStayWhole` (`[]EscapesWhole`). The inductive
invariant is `ReaderInv`: what this call of `readPacket` has taken is a frame byte
and the encoding of what it has decoded (`Progress`), and the part that is decoded
fits the state. That encoding and decoding undo each other is `SlipUndone`, byte by
byte; `EncodedAppend` carries it to sequences.

`TakenValuesTrue` (`[]ValuesTrue`) rests on `ValuesInv`: as long as the line spoils no byte,
what `readPacket` has taken, what is received and what is on its way are together
the end of a row of whole packets the device sent (`OnlyPackets`), and all of these
but perhaps the last answer SYNC. The first of them may have lost its head to a flush or a deadline.
A packet accepted at its end is therefore one of those sent (`FoundIsSent`: a frame
byte occurs only between packets, and `EncodedInjective`: two contents are never
encoded alike), and since it answers this kind of command it is the last one. The
session assumed is one whose first command alone is SYNC, as `Connect` is the only
caller of `Sync`.

`NothingLeftBehind` (`[]Quiet`) rests on `QuietInv`: without faults, what is received
and on its way is what is left of m whole replies to this very command, of the first
of which just the bytes in `hdr` and `body` are decoded (`Remains`); m is at most
one but for SYNC (`Owed`). Hence what `readPacket` reads next is the byte the device sent next
(`DecodesReply`), it never fails but by its deadline, and it meets that only when nothing is owed.

**FlashReadingProofs**, on `FlashReading`. `FileReadIsFlash` (`[]FileIsFlash`), for every content of the
Flash, every length and size of the blocks, and every session whose first command
alone is SYNC. Its premise is that no byte is lost, spoilt or added; late answers,
refused commands, failing writes and deadlines at any moment are allowed. That the
file is a first part of what was asked for says nothing of the bytes that are still to come, and the
exchanges before the stub may leave something in front of them: replies to SYNC
that nobody waited for. The inductive invariant `FInv` has three parts. `FTyped` ties the
length of the file to the bytes of the blocks read so far (`Place`). `Coming`, while
commands are made: what the host has not read begins with the end of answers to
SYNC (`SyncsEnd`), which are followed by nothing, or by the answer to the command waited
for, and after the last command by the blocks. `Right`, afterwards: what is left
is just what the program on the device still has to send from this place on
(`BlocksLeft`), and the file is right so far. The step from the second to the third
is `AcceptedIsFirst`: a packet with another command than SYNC that is read behind
answers to SYNC is the one that follows them, and nothing of what follows it is read
with it; it rests on `FoundIsSent`.

At the end of the module are the theorems about **TickTimer**, for a counter of any
size: when neither the deadline nor the counter passes its end, `readPacket` and
`readByte` give up exactly when more than the time they were given has passed, and a
delay lasts as long as asked for (`WaitsItsTime`). Otherwise a wait ends at once
(`PastTheEndAtOnce`), never (`LastTickNeverPassed`) or a round later
(`MissedForARound`). They follow from the readings and the deadline as sums, each
with or without the size of the counter taken off.

**SerialPortProofs**, on `SerialQueue`. Under `Reliable` (no read errors, copies upwards):
`QueueTypeCorrect`, `QueueWithinArray`, `QueueIsFifo`. The inductive invariant is
`QueueInv == TypeOK /\ WithinArray`; the types alone do not say that the content
lies in the array. The core is `RefreshSound`: a refresh, with or without a new
array, keeps `Content \o driver`. Both assumptions are needed: TLC finds `FifoKept`
violated without the second (`CopyOrders` with "descending"), and -1 added to `m_count` breaks `WithinArray`
at once without the first.

**SerialPortProofs**, on `ResetLines`. For every circuit, any number of resets and of
calls of `SerialControl` that fail, with either order of the two lines: `ResetTyped`,
`ResetEndsAsAsked` (`[]EndsAsAsked`), `ResetLeavesReleased` (`[]LeavesReleased`), with
the cases left out that the run leaves out: nothing is said of a reset with a failed call
of its own, of one that relies on levels it does not find, or of the loader in
the `Exposed` case. The properties speak of the end of a reset only and are not inductive. `ResetInv` adds
`InScript`, that `todo` is what is left of the sequence for this reset after some
number of its steps, and `LinesSound`, which says for each circuit what the calls
made so far (`Called`) leave the lines, the capacitor and the device in, as long as
no call failed. The delicate clauses are those with a pulse: `Soon` is the state the
device is in or will be when the pulse ends, and after a long delay it has
ended. A call in two halves passes through levels that no step names; each of
these is shown not to release RST at the wrong moment, but for NodeMCU, whose
`Exposed` case is excluded as in the run.

**ImageFormatProofs.** For any ELF file with sections of any number, size and
content, any list of names and any options:

- `FormatTyped` and `ParmsArriveAlways` (`[]ParmsArrive`), also when a seek or a write
  fails. `FormatInv` is the types, what is written at each stage (`StageInv`), and
  `ParmInv`: a parameter is in the mask with the value of the last option that
  names it, or it was never named and its bits are zero. The last part is what makes
  `flashParm | flashParmVal` right: OR takes over the new value only as the old bits
  are masked out and the value has no bits beyond the mask (`OrZero`, `PatchFacts`).
- With the hypothesis that no seek in the ELF file fails, as in the run:
  `ImageReadBack` (`[]ReadBack`), `StumpAlwaysNoticed` (`[]StumpNoticed`) and
  `DataAlwaysGuarded` (`[]DataGuarded`). `FileInv` says what lies in the file: header
  and the first `done` segments of the plan, one behind the other, each with its
  address and length, and the checksum of their data (`Begun`, made of `Laid` and
  `Summed`); at the end all of them with the tail (`Complete`). Reading a file so
  laid out meets just these segments (`AllFound`), and reading one that ends
  earlier fails (`NotFound`, `InfoOfShortTail`), wherever it ends. That a changed byte
  is noticed is `ChecksumChanges`: the checksum is a sum of XOR, so that changing
  one byte of what is summed changes it by just that byte. `Scan` and
  `Checksum` are recursive functions, handled as said below under induction.

**CombinedImageProofs.** For any sizes and addresses of images, any ELF files and any
order of operations:

- `CombinedTyped`; `ImagesKeptApart` (`[]KeptApart`); `ElfImagesAllAdded`
  (`[]ExtractWhole`), from `CombinedInv`: the images of a new file lie in ascending
  order below `m_imageSize` (`KeptApart` alone says nothing of where the next may
  begin), and of the images of an ELF file the first k are added and the others
  wait in the queue. Nothing is assumed of the addresses of the latter: masking an
  address keeps its block (`LandsBelow`, `PlaceBelow`), and the last byte before an
  address is in an earlier block unless the address is inside one (`BlocksApart`).
- `SparseImagesListed` (`[]ListedAsAdded`), from `LaidInv`: a sparse file is a header
  and parts laid one behind the other, each with its own header, and listing
  the file by those headers meets just these parts, up to the first that
  `stdImageInfo` cannot read as far as it wants to (`ListedUpTo`).
- `CombinedImagesArrive` (`[]ImagesArrive`), from `PlacedInv`: the bytes of every image
  are at the place where a download of the file fetches them from, from the start
  of its block on, and an image that is alone in its blocks is covered by no other.

`ListedAsAdded` and `ImagesArrive` have the hypothesis `MaxImages <= 255`: the count in
the file is one byte and an image more makes it zero (`esp.cpp:1060`, listed among
the hazards). `ImagesArrive` also needs that the block size is a multiple of four,
which `ESP_FLASH_BLK_SIZE` is, as the code pads parts to words; and that no padded file is
appended to, which is the finding `CombineAppend`.

**VirtualFileProofs.** `FileTypeCorrect` (position within the file, file within
the buffer), `FileIsKept` (implements `MemoryFile`) and `ShortReadIsLast`, for
every increment and every length of calls. `TypeOK` is inductive as it stands.

**SessionProofs.** For a command line of any length: `SessionTyped`, `FilesPlaced`
(`[]PlacedAsAsked`), `OperationsDone` (`[]NothingSkipped`) and `ApplicationRuns`
(`[]RunsAfter`). The properties look back over the command line, the program only
keeps the latest values. `SessionInv` ties the two: the address kept is the one
named last with no operation since that used it up, the mode kept is the one of
the last option that sets it, an ELF file is open if the one named last is one
(`Kept`), every argument that asks for an operation was served but for those
passed over (`Served`), and the device executes what the last operation left.

The assumptions on constants are the `ASSUME`s of the modules (sizes are
naturals, images fit and do not overlap, a fresh byte is none of the others);
the passing runs evaluate them.

**Induction.** The library's induction theorems take a predicate as parameter, which
the provers at hand cannot instantiate. `SequenceFacts` gets along without: a set of
naturals has a least element (`LeastNumber`, as < is well founded on them,
from the library), hence a set that holds 0 and with k also k + 1 holds all numbers up to n
(`BoundedInduction`); a function on 0 .. n that is defined by recursion exists and is
unique (`RecursionExists`, `RecursionUnique`). That is enough for flattening
sequences, which `Encoded` is built on, and for the walk over a combined file.

**What the proofs corrected.** Two `CASE` expressions had guards that overlap, in which
TLC takes the first and the prover may take either; they are IF expressions now, as
in the code (`AttemptFailed` in `FlashDownload`, `Segments` in `CombinedImage`). `TypeOK` of
`CombinedImage` excluded the address 0, which the code allows.

**Model-checked only.** Liveness (`Terminates`, `Concludes`, `ReadConcludes`, `GetReturns`):
the prover has no rule for fairness here.
`NothingShifted` of `FlashReading`, under one fault of any kind (section 7). It is false
under two: TLC, with one block of ten bytes, finds a late reply to SYNC whose operation is
spoilt into that of the last command. It is taken for the answer, and the real answer,
ten bytes between two frame bytes, is written to the file as the block.

## 5. Where the code and what is said of it differ

- **The flush discards output** (`DownloadFlush`), `serial.cpp:295`. `SerialFlush` on
  Linux discards what is not yet transmitted, though its comment (`serial.cpp:282`)
  speaks of the input queue. In the trace the first attempt at a block times out
  while it is on its way; the second sends the block again and the device answers
  both. The surplus answer is taken for that of the next block, whose command the
  flush before the next image's FLASH_BEGIN discards: the block is announced and
  was never sent.
- **Appending to a padded file** (`CombineAppend`), `esp.cpp:1024`. `m_imageSize` is
  zero in a new run of the program; the new image is written over the old ones.

Others that TLC shows with the same modules and that have no run of their own:

- **`memcpy` on overlapping memory**, `serial.cpp:762`, right only where the library
  happens to copy upwards: `QueueFifo` with `CopyOrders` containing `"descending"`.
- **No start after reading**, `esp_tool.cpp:282`. The stub that reads the Flash ends
  in a loop; with the reset mode none `Run` is not answered and its result not
  looked at: `RunsAfterReading` in `SessionOrder`.
- **The size to erase loses its first digit**, `esp_tool.cpp:1110`: `ErasesAsAsked` in
  `SessionOrder`.
- **An address in a name** is taken only from one that begins with "@"
  (`esp_tool.cpp:1577`). `README.md:14` promises it for any name that contains an
  address, like `myApp_0x4c000.bin`, which goes to 0; the manual asks for the "@":
  `AddressFromName` in `SessionOrder`.
- **An image that is not on a block boundary.** The addresses of `.irom0.text`
  (`esp.cpp:764`) and of the additional image (`esp_tool.cpp:1158`) are not checked as
  a file's is (`esp_tool.cpp:1311`), and `flashBegin` (`esp.cpp:1413`) masks them:
  downloading a sparse file puts such an image below its address, and erases what the
  image before it has in the same block. `ImagesArrive` with `p.addr` in the place of
  `Place(p)`, and `KeptApart` without its exception, are violated in `CombineFiles`.
- **`ImageInfo` ends with an error** (`esp.cpp:1184`) on a combined file whose last
  image begins with 0xe9 and is no complete boot image, a single byte 0xe9 among them:
  `Listed` with a `reach` beyond the end.
- **A failed attempt may cost the next one**, as `readPacket` leaves the rest of a
  damaged reply on the line (`esp.cpp:1678-1705`): a download may give up after one
  fault, `RetriesSurvive` in `DownloadInTime` without `rests` in the sum.
- **A section that cannot be reached**, `elf.cpp:103`: `ImageFormat` with `SeekFails`.
- **An image in the next block is refused**, `esp.cpp:1110`, after one whose size has
  a rest of three and which ends a byte before the block does: `ExtractWhole` with
  `Clear` on the true sizes, and images of 7 bytes among `ElfSizes`.
- **`ELF::Open` returns 0** for files that are no ELF files (`elf.cpp:88`).
- **The speed of an open port** is not changed on Linux: `SerialSetSpeed` sets a
  structure and never hands it to the driver, and returns -1 (`serial.cpp:467`). Speeds
  are not modelled.
- The help lists `--monitor[=<speed>]` and `--log=<file>`, which the table of long
  options (`esp_tool.cpp:198`) does not have. The spelling of options is not modelled.

## 6. Not modelled, and why

- The ELF reader beyond `GetSectionNum`, `WriteSection` and the result of `Open`: a
  pass over a file in a foreign format; layout and I/O.
- The monitor: no state of its own. It looks at the console only when no byte is
  waiting (`esp_tool.cpp:304`).
- Opening and setting up the port, and speeds: calls into the operating system.
- `DumpMem`, `WriteReg` and `GetFlashID` byte by byte: the exchanges are those of
  `PacketReader`.
- Errors in writing a combined file, and files on disk in general: stdio.
- The spelling of options and numbers (`getVal`, `getOptionVal`): strings.
- The text of messages and the progress display.

## 7. Plan

Done, in this order, the most important behaviour first: `FlashDownload` with its
promise and proofs; `SerialQueue` with its FIFO and proofs; `PacketReader`;
`CombinedImage`; `VirtualFile` with its proofs; `Session`; then `FlashReading`,
`ImageFormat`, `ResetLines`, `TickTimer`, and in `CombinedImage` the images of an ELF
file and `ImageInfo`.

Next, to model: `FlashErase` of a region with the blocks it rounds to; failing
writes of a combined file.

Next, to prove:

- `FlashReading`: `NothingShifted`, which needs what one spoilt byte makes of a block in
  each of its places: what is left then is the rest of the blocks with one byte
  changed, missing or added.
