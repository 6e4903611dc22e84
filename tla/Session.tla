------------------------------- MODULE Session -------------------------------
(***************************************************************************)
(* A run of esp_tool from its first argument to its end: main, processArg, *)
(* processFile and openComm (src/esp_tool.cpp) with what ESP keeps between *)
(* operations (src/esp.cpp), and the device they operate.                  *)
(*                                                                         *)
(* Arguments are taken one after the other; an option leaves a value or a  *)
(* mode behind for the operations that follow.  An operation on the device *)
(* is one step here: FlashDownload and PacketReader have what it consists  *)
(* of.  What ESP_TOOL in the environment holds are arguments too.          *)
(***************************************************************************)
EXTENDS Integers, Sequences, FiniteSets, SequencesExt

CONSTANTS
    Addresses,     \* the addresses given with -a
    Names,         \* names of files, [at, addr]: at when one begins with "@",
                   \* and the address it contains, or NoAddress
    NoAddress,     \* ESP_NO_ADDRESS
    BlockSize,     \* ESP_FLASH_BLK_SIZE
    SizeTexts,     \* the texts after -oe, sequences of digits
    MaxArgs        \* bound: arguments of the run

ASSUME SessionAssumption ==
    /\ Addresses \subseteq Nat /\ NoAddress \notin Nat
    /\ Names \subseteq [at : BOOLEAN, addr : Nat \cup {NoAddress}]
    /\ BlockSize \in Nat \ {0}
    /\ SizeTexts \subseteq Seq(0 .. 9)
    /\ MaxArgs \in Nat

DeviceModes == {"write", "read", "dump"}
CombineModes == {"combine", "append"}
Modes == DeviceModes \cup CombineModes \cup {"info", "section"}

Arg(op, val) == [op |-> op, val |-> val]

\* The arguments, by the case of processArg that takes them.
Args ==
       {Arg("address", a) : a \in Addresses}
  \cup {Arg("mode", m) : m \in Modes \ CombineModes}
  \cup {Arg("combine", m) : m \in CombineModes}
  \cup {Arg("run", b) : b \in BOOLEAN}
  \cup {Arg("reset", b) : b \in BOOLEAN}
  \cup {Arg("elf", b) : b \in BOOLEAN}      \* b: it is an ELF file
  \cup {Arg("file", n) : n \in Names}
  \cup {Arg("extract", n) : n \in Names}
  \cup {Arg("erasePart", t) : t \in SizeTexts}
  \cup {Arg(op, NoAddress) : op \in {"size", "monitor", "extractOnly",
                                     "mac", "id", "eraseAll", "wrong"}}

VARIABLES
    parm,      \* Parameter_t: [mode, address, size, reset, combine, term];
               \* reset is FALSE for ResetNone
    esp,       \* the ESP object: [open, connected, autoRun, elf]
    device,    \* what the device executes: its loader, its application, a
               \* program in RAM that never returns, or it is not there
    pc,        \* where the program is
    line,      \* the arguments taken so far
    apart,     \* those of them for which there was no connection
    done       \* the operations completed

vars == <<parm, esp, device, pc, line, apart, done>>

Current == line[Len(line)]

\* getVal for a decimal number.
NumberOf(t) == FoldLeft(LAMBDA n, d : 10 * n + d, 0, t)

\* extractAddress: the address in a name that begins with "@".
InName(n) == IF n.at THEN n.addr ELSE NoAddress

\* ESP_NO_ADDRESS is a multiple of the block size.
Aligned(a) == a # NoAddress => a % BlockSize = 0

\* An operation, with the index of its argument.
Entry(op, addr, size) ==
    [arg |-> Len(line), op |-> op, addr |-> addr, size |-> size]

Log(op, addr, size) == done' = Append(done, Entry(op, addr, size))

\* exit().
Exit ==
    /\ pc' = "exited"
    /\ UNCHANGED <<parm, esp, line, apart, done>>

-----------------------------------------------------------------------------
(* The constructors of Parameter_t and ESP. *)
Init ==
    /\ parm = [mode |-> "write", address |-> NoAddress, size |-> 0,
               reset |-> FALSE, combine |-> "closed", term |-> FALSE]
    /\ esp = [open |-> FALSE, connected |-> FALSE, autoRun |-> TRUE,
              elf |-> FALSE]
    /\ device \in {"loader", "application", "absent"}
    /\ pc = "args"
    /\ line = <<>> /\ apart = {} /\ done = <<>>

\* The next argument goes to processArg.
Take(arg) ==
    /\ pc = "args" /\ Len(line) < MaxArgs
    /\ line' = Append(line, arg)

(* Options that save data or set a mode. *)

SetAddress(a) ==
    /\ Take(Arg("address", a))
    /\ parm' = [parm EXCEPT !.address = a]
    /\ UNCHANGED <<esp, device, pc, apart, done>>

SetMode(m) ==
    /\ Take(Arg("mode", m))
    /\ parm' = [parm EXCEPT !.mode = m]
    /\ UNCHANGED <<esp, device, pc, apart, done>>

SetReset(b) ==
    /\ Take(Arg("reset", b))
    /\ parm' = [parm EXCEPT !.reset = b]
    /\ UNCHANGED <<esp, device, pc, apart, done>>

SetSize ==
    /\ Take(Arg("size", NoAddress))
    /\ parm' = [parm EXCEPT !.size = 1]
    /\ UNCHANGED <<esp, device, pc, apart, done>>

SetMonitor ==
    /\ Take(Arg("monitor", NoAddress))
    /\ parm' = [parm EXCEPT !.term = TRUE]
    /\ UNCHANGED <<esp, device, pc, apart, done>>

SetRun(b) ==
    /\ Take(Arg("run", b))
    /\ esp' = [esp EXCEPT !.autoRun = b]
    /\ UNCHANGED <<parm, device, pc, apart, done>>

\* ELF::Open closes the file it had and, whether the one it has opened is an
\* ELF file or not, returns 0 (elf.cpp:88).
OpenElf(isElf) ==
    /\ Take(Arg("elf", isElf))
    /\ esp' = [esp EXCEPT !.elf = isElf]
    /\ UNCHANGED <<parm, device, pc, apart, done>>

\* Mutation: only a file of its own mode is opened.
OpenCombinedLate(m) ==
    /\ Take(Arg("combine", m))
    /\ parm' = [parm EXCEPT !.mode = m]
    /\ UNCHANGED <<esp, device, pc, apart, done>>

\* "w+b" makes the file empty, "r+b" finds what there is.
OpenCombined(m) ==
    /\ Take(Arg("combine", m))
    /\ \E size \in IF m = "combine" THEN {"empty"} ELSE {"empty", "filled"} :
          parm' = [parm EXCEPT !.mode = m, !.combine = size]
    /\ UNCHANGED <<esp, device, pc, apart, done>>

\* An option that is unknown, badly formed or has a wrong value, or names a
\* file that cannot be opened.
Refused ==
    /\ Take(Arg("wrong", NoAddress))
    /\ pc' = "exited"
    /\ UNCHANGED <<parm, esp, device, apart, done>>

(* Operations that need the device: openComm comes first. *)

\* Identification, and files in the modes for the device.
BeginOperation ==
    /\ \/ \E op \in {"mac", "id", "eraseAll"} : Take(Arg(op, NoAddress))
       \/ \E n \in Names : parm.mode \in DeviceModes /\ Take(Arg("file", n))
    /\ pc' = "connect"
    /\ UNCHANGED <<parm, esp, device, apart, done>>

\* -oe<size>: the pointer, already at the first digit, is moved on.
SizeGiven(t) == NumberOf(Tail(t))

BeginErase(t) ==
    /\ Take(Arg("erasePart", t))
    /\ pc' = IF Len(t) < 2 \/ SizeGiven(t) = 0 THEN "exited" ELSE "connect"
    /\ UNCHANGED <<parm, esp, device, apart, done>>

\* OpenComm exits when the port cannot be opened.
OpenComm ==
    /\ pc = "connect" /\ ~esp.open
    /\ \/ Exit
       \/ /\ esp' = [esp EXCEPT !.open = TRUE]
          /\ UNCHANGED <<parm, pc, line, apart, done>>
    /\ UNCHANGED device

\* ResetDevice: what the device executes afterwards.
AfterReset(forApp) ==
    IF ~esp.open \/ ~parm.reset \/ device = "absent" THEN device
    ELSE IF forApp THEN "application" ELSE "loader"

\* Where processArg or processFile goes on after openComm.
Connected == pc' = "operate"

\* Connect returns at once when a connection was made before.
StayConnected ==
    /\ pc = "connect" /\ esp.open /\ esp.connected
    /\ Connected
    /\ UNCHANGED <<parm, esp, device, line, apart, done>>

\* Connect: the device is reset and answers SYNC, or none of 16 attempts is
\* answered and the argument is passed over.
Connect ==
    /\ pc = "connect" /\ esp.open /\ ~esp.connected
    /\ device' = AfterReset(FALSE)
    /\ \/ /\ device' = "loader"
          /\ esp' = [esp EXCEPT !.connected = TRUE]
          /\ Connected /\ apart' = apart
       \/ /\ pc' = "args"
          /\ apart' = apart \cup {Len(line)}
          /\ esp' = esp
    /\ UNCHANGED <<parm, line, done>>

-----------------------------------------------------------------------------
(* The operations on a device that was connected once.  Each of them fails *)
(* when the device does not answer, and may fail otherwise.                *)

\* Mutation: the next argument is taken after a failure.
FailAndGoOn ==
    /\ pc = "operate"
    /\ pc' = "args"
    /\ UNCHANGED <<parm, esp, device, line, apart, done>>

\* The operations that end with a program in RAM.
LoadsProgram ==
    Current.op = "eraseAll" \/ (Current.op = "file" /\ parm.mode = "read")

\* Also when the address or the size is refused or the file cannot be opened.
Fail ==
    /\ pc = "operate"
    /\ device' \in {device} \cup
                   (IF device = "loader" /\ LoadsProgram THEN {"program"} ELSE {})
    /\ Exit

Operated(op) ==
    /\ pc = "operate" /\ Current.op = op /\ device = "loader"
    /\ pc' = "args"
    /\ UNCHANGED <<esp, line, apart>>

Identify ==
    \E op \in {"mac", "id"} :
        /\ Operated(op)
        /\ Log(op, NoAddress, 0)
        /\ UNCHANGED <<parm, device>>

\* FlashErase(): the loader is sent into the code that erases, and does not
\* come back.
AfterFlashErase == "program"

EraseAll ==
    /\ Operated("eraseAll")
    /\ Log("eraseAll", NoAddress, 0)
    /\ device' = AfterFlashErase
    /\ parm' = parm

\* FlashErase(parm.address, size), whatever the address.
ErasePart ==
    /\ Operated("erasePart")
    /\ Log("erasePart", parm.address, SizeGiven(Current.val))
    /\ UNCHANGED <<parm, device>>

\* The address of a file that goes to the Flash or to a combined file: the one
\* given, or the one in its name.
TargetOf(n) == IF parm.address = NoAddress THEN InName(n) ELSE parm.address

Target == TargetOf(Current.val)

OrZero(a) == IF a = NoAddress THEN 0 ELSE a

\* Mutation: the address stays for the next file.
WriteFileKeepsAddress ==
    /\ parm.mode = "write" /\ Operated("file")
    /\ Aligned(Target)
    /\ Log("write", OrZero(Target), 0)
    /\ parm' = [parm EXCEPT !.address = OrZero(Target)]
    /\ device' = device

WriteFile ==
    /\ parm.mode = "write" /\ Operated("file")
    /\ Aligned(Target)
    /\ Log("write", OrZero(Target), 0)
    /\ parm' = [parm EXCEPT !.address = NoAddress]
    /\ device' = device

\* FlashRead: the device executes the stub, which ends in a loop.
AfterFlashRead == "program"

ReadFile ==
    /\ parm.mode = "read" /\ Operated("file")
    /\ parm.size # 0
    /\ Log("read", OrZero(parm.address), parm.size)
    /\ parm' = [parm EXCEPT !.address = NoAddress]
    /\ device' = AfterFlashRead

\* DumpMem, which takes no address for zero and refuses zero.
DumpFile ==
    /\ parm.mode = "dump" /\ Operated("file")
    /\ parm.size # 0 /\ OrZero(parm.address) # 0
    /\ Log("dump", parm.address, parm.size)
    /\ parm' = [parm EXCEPT !.address = NoAddress]
    /\ device' = device

-----------------------------------------------------------------------------
(* Operations on files alone. *)

\* The next argument was operated on.
LogNext(op, addr) ==
    done' = Append(done, [arg |-> Len(line) + 1, op |-> op, addr |-> addr, size |-> 0])

\* A file for a combined file; the result of AddImage is not looked at.
CombineFile(n) ==
    /\ parm.mode \in CombineModes /\ Take(Arg("file", n))
    /\ \/ pc' = "exited" /\ UNCHANGED <<parm, done>>
       \/ /\ Aligned(TargetOf(n))
          /\ TargetOf(n) # NoAddress \/ parm.combine = "empty"
          /\ \E size \in {parm.combine, "filled"} :
                parm' = [parm EXCEPT !.address = NoAddress, !.combine = size]
          /\ LogNext("combine", OrZero(TargetOf(n)))
          /\ pc' = pc
    /\ UNCHANGED <<esp, device, apart>>

\* ImageInfo, whose result is not looked at, and WriteSections; the latter
\* needs an ELF file and may fail.
InspectFile(n) ==
    /\ parm.mode \in {"info", "section"} /\ Take(Arg("file", n))
    /\ \/ pc' = "exited" /\ done' = done
       \/ /\ parm.mode = "info" \/ esp.elf
          /\ LogNext(parm.mode, NoAddress)
          /\ pc' = pc
    /\ UNCHANGED <<parm, esp, device, apart>>

\* AutoExtract, whose result is not looked at.
ExtractOnly ==
    /\ Take(Arg("extractOnly", NoAddress))
    /\ \/ /\ ~esp.elf
          /\ pc' = "exited" /\ UNCHANGED <<parm, done>>
       \/ /\ esp.elf
          /\ \E size \in {parm.combine} \cup
                          (IF parm.combine = "closed" THEN {} ELSE {"filled"}) :
                parm' = [parm EXCEPT !.combine = size]
          /\ LogNext("extractOnly", NoAddress)
          /\ pc' = pc
    /\ UNCHANGED <<esp, device, apart>>

\* AutoExtract with an image of its own, which uses up the address.
\* extractAddress may look for an address in a name and find no digits.
Extract(n) ==
    /\ Take(Arg("extract", n))
    /\ \/ /\ \/ ~esp.elf \/ parm.combine = "closed"
             \/ parm.address = NoAddress /\ n.at /\ n.addr = NoAddress
          /\ pc' = "exited" /\ UNCHANGED <<parm, done>>
       \/ /\ esp.elf /\ parm.combine # "closed"
          /\ \E size \in {parm.combine, "filled"} :
                parm' = [parm EXCEPT !.address = NoAddress, !.combine = size]
          /\ LogNext("extract", OrZero(TargetOf(n)))
          /\ pc' = pc
    /\ UNCHANGED <<esp, device, apart>>

-----------------------------------------------------------------------------
(* After the last argument. *)

\* Mutation: FLASH_END does not ask for a reboot.
RunNoReboot == device

\* Run(true): the loader starts the application.  Faults of the line are the
\* subject of FlashDownload.
Run == IF device = "loader" /\ esp.open THEN "application" ELSE device

\* The combined file is closed, and the device started.  There was an argument
\* on the command line.
LastArgument ==
    /\ pc = "args" /\ line # <<>>
    /\ parm' = [parm EXCEPT !.combine = "closed"]
    /\ device' = IF ~esp.autoRun THEN device
                 ELSE IF parm.reset THEN AfterReset(TRUE) ELSE Run
    /\ pc' = IF parm.term THEN "monitor" ELSE "ended"
    /\ UNCHANGED <<esp, line, apart, done>>

\* All arguments came from ESP_TOOL: main shows the help and exits, and neither
\* closes the combined file nor starts the device.
DisplayHelp == pc = "args" /\ Exit /\ device' = device

\* The monitor opens the port if no operation did.
Monitor ==
    /\ pc = "monitor"
    /\ \/ Exit
       \/ /\ pc' = "ended"
          /\ esp' = [esp EXCEPT !.open = TRUE]
          /\ UNCHANGED <<parm, line, apart, done>>
    /\ device' = device

Options ==
    \/ \E a \in Addresses : SetAddress(a)
    \/ \E m \in Modes \ CombineModes : SetMode(m)
    \/ \E m \in CombineModes : OpenCombined(m)
    \/ \E b \in BOOLEAN : SetReset(b) \/ SetRun(b)
    \/ \E b \in BOOLEAN : OpenElf(b)
    \/ SetSize \/ SetMonitor \/ Refused

Operations ==
    \/ BeginOperation \/ OpenComm \/ StayConnected \/ Connect
    \/ \E t \in SizeTexts : BeginErase(t)
    \/ Fail \/ Identify \/ EraseAll \/ ErasePart
    \/ WriteFile \/ ReadFile \/ DumpFile
    \/ \E n \in Names : CombineFile(n) \/ InspectFile(n) \/ Extract(n)
    \/ ExtractOnly

Next == Options \/ Operations \/ LastArgument \/ DisplayHelp \/ Monitor

Spec == Init /\ [][Next]_vars

-----------------------------------------------------------------------------
(* Properties *)

AddressOps == {"write", "read", "dump", "combine", "extract"}
ElfOps == {"section", "extractOnly", "extract"}
Ops == AddressOps \cup ElfOps \cup {"info", "mac", "id", "eraseAll", "erasePart"}

\* The variables have their types; who is connected has an open port, and who
\* combines an open file.
TypeOK ==
    /\ parm.mode \in Modes /\ parm.address \in Addresses \cup {NoAddress}
    /\ parm.size \in 0 .. 1 /\ parm.reset \in BOOLEAN /\ parm.term \in BOOLEAN
    /\ parm.combine \in {"closed", "empty", "filled"}
    /\ \A x \in {"open", "connected", "autoRun", "elf"} : esp[x] \in BOOLEAN
    /\ esp.connected => esp.open
    /\ pc \in {"connect", "operate"} => line # <<>>
    /\ parm.mode \in CombineModes /\ pc = "args" => parm.combine # "closed"
    /\ device \in {"loader", "application", "program", "absent"}
    /\ pc \in {"args", "connect", "operate", "monitor", "ended", "exited"}
    /\ line \in Seq(Args) /\ apart \subseteq DOMAIN line
    /\ \A i \in DOMAIN done : done[i].arg \in DOMAIN line /\ done[i].op \in Ops

(* What a command line means, whatever the program keeps. *)

\* The latest argument before j of those of which P holds; 0 when there is none.
Latest(P(_), j) ==
    LET K == {k \in 1 .. j - 1 : P(k)} IN IF K = {} THEN 0 ELSE Max(K)

SetsMode(k) == line[k].op \in {"mode", "combine"}

\* The mode of the argument j: the latest that was set.
ModeOf(j) ==
    LET k == Latest(SetsMode, j) IN IF k = 0 THEN "write" ELSE line[k].val

\* The argument k is one that an address is given for.
WantsAddress(k) ==
    \/ line[k].op = "extract"
    \/ line[k].op = "file" /\ ModeOf(k) \in DeviceModes \cup CombineModes

\* The address given for the argument j: the latest one, unless another
\* argument that wants one is between the two.
GivenFor(j) ==
    LET IsAddress(k) == line[k].op = "address"
        k == Latest(IsAddress, j)
    IN  IF k > Latest(WantsAddress, j) THEN line[k].val ELSE NoAddress

\* The address an operation should have.
AskedFor(e) ==
    OrZero(IF GivenFor(e.arg) # NoAddress THEN GivenFor(e.arg)
           ELSE IF e.op \in {"read", "dump"} THEN NoAddress
           ELSE InName(line[e.arg].val))

\* The file named last before the argument j as an ELF file is one.
HasElf(j) ==
    LET IsElf(k) == line[k].op = "elf"
        k == Latest(IsElf, j)
    IN  k # 0 /\ line[k].val

\* Every file is operated on in the mode set last, at the address the command
\* line gives for it, or the address in its name when that begins with "@", and
\* with the ELF file named last, whatever options and operations came before
\* (an ELF file is never taken for the next, elf.cpp:88).  The one exception:
\* after a connection failed, the address of the file that was passed over is
\* left for the next (processFile, esp_tool.cpp:1292-1297).
PlacedAsAsked ==
    apart = {} =>
        \A i \in DOMAIN done :
            LET e == done[i] IN
            /\ e.op \in AddressOps => e.addr = AskedFor(e)
            /\ e.op \in ElfOps => HasElf(e.arg)
            /\ line[e.arg].op = "file" =>
                  e.op = IF ModeOf(e.arg) = "append" THEN "combine"
                         ELSE ModeOf(e.arg)

\* The argument j asks for an operation on the device.
NeedsDevice(j) ==
    \/ line[j].op \in {"mac", "id", "eraseAll", "erasePart"}
    \/ line[j].op = "file" /\ ModeOf(j) \in DeviceModes

\* The argument j asks for an operation.
Asks(j) == line[j].op \in {"file", "extract", "extractOnly"} \/ NeedsDevice(j)

\* As long as the program goes on, every operation that was asked for, on the
\* device, on an ELF file or on images, was done, in order and once; only
\* those that need the device are passed over, without a connection.
\* processArg and processFile leave after a failure with exit(1).  (An
\* operation whose result nobody looks at is done when it was called.)
NothingSkipped ==
    /\ pc \in {"args", "monitor", "ended"} =>
          \A j \in DOMAIN line :
              Asks(j) => \/ j \in apart /\ NeedsDevice(j)
                         \/ \E i \in DOMAIN done : done[i].arg = j
    /\ \A i, k \in DOMAIN done : i < k => done[i].arg < done[k].arg

Finished == pc \in {"monitor", "ended"}

\* "run device after operations (default)" (esp_tool.cpp:522): at the end the
\* application is executed, unless the device was left in a program in RAM and
\* cannot be reset.
RunsAfter ==
    Finished /\ esp.autoRun /\ esp.connected
      /\ (parm.reset \/ \A i \in DOMAIN done : done[i].op \notin {"read", "eraseAll"})
        => device = "application"

\* The same without the exception for reading, which does not change what the
\* device holds; after erasing the Flash there is no application.  Not true of
\* the code.
RunsAfterReading ==
    Finished /\ esp.autoRun /\ esp.connected
      /\ (\A i \in DOMAIN done : done[i].op # "eraseAll")
        => device = "application"

\* "-oe[<size>] erase all or part of Flash memory" (esp_tool.cpp:532): the part
\* has the size that is given.  Not true of the code.
ErasesAsAsked ==
    \A i \in DOMAIN done :
        done[i].op = "erasePart" => done[i].size = NumberOf(line[done[i].arg].val)

\* "automatically extract the load address from the image name if the name
\* contains the hexadecimal load address" (README.md:14): a file with no address
\* of its own goes to the one in its name.  Not true of the code, which looks
\* for one only in a name that begins with "@" (esp_tool.cpp:1577), as the
\* manual says (doc/esp_tool.pdf, "Filenames on the Command Line").
AddressFromName ==
    apart = {} =>
        \A i \in DOMAIN done :
            LET e == done[i] IN
            (/\ e.op \in {"write", "combine", "extract"}
             /\ GivenFor(e.arg) = NoAddress
             /\ line[e.arg].val.addr # NoAddress)
                => e.addr = line[e.arg].val.addr
=============================================================================
