----------------------------- MODULE ResetLines -----------------------------
(***************************************************************************)
(* Reset of the device through the control lines of the serial port:       *)
(* ESP::ResetDevice, the levels openComm gives the lines at first, and     *)
(* SerialControl and SerialBreak, which change them (src/esp.cpp,          *)
(* src/esp_tool.cpp, src/serial.cpp).                                      *)
(*                                                                         *)
(* The circuits between the lines and the device are outside src/: they    *)
(* are what the comments of ResetMode_t say of them.  A high line pulls a  *)
(* pin of the device down.  The device starts when RST is released, and    *)
(* starts its loader when GPIO0 is down at that moment.                    *)
(***************************************************************************)
EXTENDS Integers, Sequences

CONSTANTS
    Modes,     \* the modes given with --reset=
    MaxResets, \* bound: calls of ResetDevice
    MaxFaults  \* bound: calls of SerialControl that fail

AllModes == {"auto", "dtronly", "ck", "wifio", "nodemcu"}

ASSUME ResetAssumption ==
    Modes \subseteq AllModes /\ MaxResets \in Nat /\ MaxFaults \in Nat

VARIABLES
    mode,   \* parm.resetMode, which is that of the circuit
    atOnce, \* TRUE when SerialControl changes both lines in one call (Linux),
            \* FALSE when DTR comes first (Windows)
    open,   \* the port is open
    dtr,    \* TRUE when DTR is high
    rts,    \* TRUE when RTS is high
    txd,    \* TRUE while a break holds TxD
    pulse,  \* the capacitor between DTR and RST holds RST down
    device, \* "reset" while RST is down, then "loader" or "application"
    todo,   \* the steps of ResetDevice that are left
    second, \* the second line of the first of them is still to be changed
    wait,   \* the delay ResetDevice is in
    reset,  \* the latest ResetDevice: [forApp, atRest, failed]
    resets, \* number of them
    faults  \* number of calls that failed

lines == <<dtr, rts, txd, pulse, device>>
lvars == <<mode, atOnce, open, lines, todo, second, wait, reset, resets, faults>>

-----------------------------------------------------------------------------
(* The circuits *)

HasCapacitor == mode \in {"auto", "dtronly", "wifio"}

\* RST is pulled down for as long as the lines have the levels d and r.
HeldDown(d, r) == \/ mode = "ck" /\ r
                  \/ mode = "nodemcu" /\ r /\ ~d

\* GPIO0 is pulled down.
Gpio0Down(d, r, t) == \/ mode = "auto" /\ r
                      \/ mode \in {"dtronly", "ck"} /\ d
                      \/ mode = "nodemcu" /\ d /\ ~r
                      \/ mode = "wifio" /\ t

\* The lines get the levels d, r and t, and the capacitor holds RST if p.
Levels(d, r, t, p) ==
    /\ dtr' = d /\ rts' = r /\ txd' = t /\ pulse' = p
    /\ device' = IF p \/ HeldDown(d, r) THEN "reset"
                 ELSE IF device # "reset" THEN device
                 ELSE IF Gpio0Down(d, r, t) THEN "loader" ELSE "application"

\* Mutation: every circuit has a capacitor.
RaisedAlways(d) == pulse \/ (d /\ ~dtr)

\* A rising DTR makes a pulse on RST.
Raised(d) == pulse \/ (HasCapacitor /\ d /\ ~dtr)

\* The capacitor holds RST for longer than the brief delays and for less than
\* the long ones.
PulseEnds ==
    /\ pulse /\ wait # "brief" /\ (todo = <<>> \/ wait # "none")
    /\ Levels(dtr, rts, txd, FALSE)
    /\ UNCHANGED <<mode, atOnce, open, todo, second, wait, reset, resets,
                   faults>>

-----------------------------------------------------------------------------
(* ResetDevice *)

Step(d, r, w) == [dtr |-> d, rts |-> r, wait |-> w]

\* The calls of Control and Break with the delays after them: up to 5 ms are
\* brief, from 75 ms on they are long.

AutoForApp == <<Step("high", "keep", "brief"), Step("low", "keep", "none")>>

AutoForLoader ==
    <<Step("low", "high", "brief"), Step("high", "keep", "brief"),
      Step("low", "keep", "long"), Step("keep", "low", "none")>>

CkForApp == <<Step("low", "high", "brief"), Step("keep", "low", "none")>>

\* Mutation: GPIO0 is released before RST is.
CkForLoaderHasty ==
    <<Step("high", "high", "brief"), Step("low", "keep", "long"),
      Step("keep", "low", "none")>>

CkForLoader ==
    <<Step("high", "high", "brief"), Step("keep", "low", "long"),
      Step("low", "keep", "none")>>

WifioForApp == <<Step("low", "keep", "none"), Step("high", "keep", "brief"),
                 Step("low", "keep", "none")>>

WifioForLoader == WifioForApp \o <<Step("keep", "keep", "break"),
                                   Step("keep", "keep", "long")>>

NodeMcuForApp == <<Step("low", "high", "brief"), Step("low", "low", "none")>>

\* Mutation: GPIO0 is not released at the end.
NodeMcuForLoaderHolds ==
    <<Step("low", "high", "brief"), Step("high", "low", "long")>>

NodeMcuForLoader ==
    <<Step("low", "high", "brief"), Step("high", "low", "long"),
      Step("keep", "high", "none")>>

DtrOnly(forApp) == <<Step("high", "keep", IF forApp THEN "brief" ELSE "long"),
                     Step("low", "keep", "none")>>

Script(forApp) ==
    CASE mode = "auto"    -> IF forApp THEN AutoForApp ELSE AutoForLoader
      [] mode = "ck"      -> IF forApp THEN CkForApp ELSE CkForLoader
      [] mode = "wifio"   -> IF forApp THEN WifioForApp ELSE WifioForLoader
      [] mode = "nodemcu" -> IF forApp THEN NodeMcuForApp ELSE NodeMcuForLoader
      [] mode = "dtronly" -> DtrOnly(forApp)

\* Where ResetDevice and openComm leave the lines.
AtRest == /\ mode \in {"auto", "ck"} => ~dtr /\ ~rts
          /\ mode = "nodemcu" => dtr = rts
          /\ mode \in {"dtronly", "wifio"} => ~dtr

LInit ==
    /\ mode \in Modes /\ atOnce \in BOOLEAN
    /\ open = FALSE /\ dtr \in BOOLEAN /\ rts \in BOOLEAN /\ txd = FALSE
    /\ pulse = FALSE
    /\ device = IF HeldDown(dtr, rts) THEN "reset" ELSE "application"
    /\ todo = <<>> /\ second = FALSE /\ wait = "none"
    /\ reset = [forApp |-> TRUE, atRest |-> TRUE, failed |-> TRUE]
    /\ resets = 0 /\ faults = 0

\* The step that SerialOpen ends with.  It has no flags when the mode is given
\* later than the port was opened.
OpenStep ==
    CASE mode \in {"auto", "nodemcu", "ck"} -> Step("low", "low", "none")
      [] OTHER                              -> Step("low", "keep", "none")

OpenComm ==
    /\ ~open /\ open' = TRUE
    /\ todo' \in {<<OpenStep>>, <<>>}
    /\ UNCHANGED <<mode, atOnce, lines, second, wait, reset, resets, faults>>

ResetDevice ==
    /\ open /\ todo = <<>> /\ resets < MaxResets
    /\ \E forApp \in BOOLEAN :
          /\ todo' = Script(forApp)
          /\ reset' = [forApp |-> forApp, atRest |-> AtRest, failed |-> FALSE]
    /\ resets' = resets + 1
    /\ UNCHANGED <<mode, atOnce, open, lines, second, wait, faults>>

\* The level a line gets: x, or the one it has.
Becomes(x, level) == IF x = "keep" THEN level ELSE x = "high"

Both(s) == s.dtr # "keep" /\ s.rts # "keep"

\* SerialControl, or its two halves, the delay or break that follows included.
Control ==
    /\ todo # <<>> /\ wait = "none"
    /\ LET s == todo[1]
           d == Becomes(s.dtr, dtr)
           r == Becomes(s.rts, rts)
       IN  IF Both(s) /\ ~atOnce /\ ~second
           THEN /\ Levels(d, rts, txd, Raised(d))
                /\ second' = TRUE
                /\ UNCHANGED <<todo, wait>>
           ELSE /\ Levels(d, r, s.wait = "break", Raised(d))
                /\ second' = FALSE
                /\ wait' = s.wait
                /\ todo' = IF s.wait = "none" THEN Tail(todo) ELSE todo
    /\ UNCHANGED <<mode, atOnce, open, reset, resets, faults>>

\* It fails in SerialOpen, which closes the port again; another operation may
\* open it.
OpenFails ==
    /\ todo # <<>> /\ resets = 0 /\ faults < MaxFaults
    /\ open' = FALSE /\ todo' = <<>> /\ second' = FALSE
    /\ faults' = faults + 1
    /\ UNCHANGED <<mode, atOnce, lines, wait, reset, resets>>

\* It fails in ResetDevice, which goes on.
ControlFails ==
    /\ todo # <<>> /\ resets > 0 /\ wait = "none" /\ faults < MaxFaults
    /\ second' = FALSE
    /\ wait' = todo[1].wait
    /\ todo' = IF wait' = "none" THEN Tail(todo) ELSE todo
    /\ reset' = [reset EXCEPT !.failed = TRUE]
    /\ faults' = faults + 1
    /\ UNCHANGED <<mode, atOnce, open, lines, resets>>

Delayed ==
    /\ wait # "none" /\ (wait # "brief" => ~pulse)
    /\ Levels(dtr, rts, FALSE, pulse)
    /\ wait' = "none" /\ todo' = Tail(todo)
    /\ UNCHANGED <<mode, atOnce, open, second, reset, resets, faults>>

LNext == \/ OpenComm \/ ResetDevice \/ Control \/ OpenFails \/ ControlFails
         \/ Delayed \/ PulseEnds

LSpec == LInit /\ [][LNext]_lvars

-----------------------------------------------------------------------------
(* Properties *)

\* The variables have their types; a held RST and a device in reset are one.
LTypeOK ==
    /\ mode \in Modes /\ atOnce \in BOOLEAN /\ open \in BOOLEAN
    /\ dtr \in BOOLEAN /\ rts \in BOOLEAN /\ txd \in BOOLEAN
    /\ pulse \in BOOLEAN /\ (pulse => HasCapacitor)
    /\ device \in {"reset", "loader", "application"}
    /\ device = "reset" <=> pulse \/ HeldDown(dtr, rts)
    /\ wait \in {"none", "brief", "long", "break"}
    /\ resets \in 0 .. MaxResets /\ faults \in 0 .. MaxFaults

Finished == todo = <<>> /\ ~pulse /\ ~reset.failed

\* Every reset begins by giving the lines it uses their levels, but for two:
\* those of the modes "auto" for the application and "dtronly" rely on DTR being
\* low, and the first of them on RTS being low, from what was done before.
FromAnyLevels == \/ mode \in {"ck", "wifio", "nodemcu"}
                 \/ mode = "auto" /\ ~reset.forApp

\* On Windows NodeMCU's RST is released a moment before GPIO0 is pulled down.
Exposed == mode = "nodemcu" /\ ~atOnce /\ ~reset.forApp

\* ResetDevice (esp.cpp:1302) ends with the device in its loader or in its
\* application, as asked for, after any sequence of resets of either kind, in
\* which calls of SerialControl may have failed, the result of which nobody
\* looks at, and after a port that was opened before the mode was given.
\* Left out are a reset of which a call failed itself, one that finds the lines
\* not at rest where it relies on their levels, and the loader with NodeMCU's
\* circuit on Windows; TLC finds each of the three cases violated.
EndsAsAsked ==
    Finished /\ (reset.atRest \/ FromAnyLevels) /\ ~Exposed =>
        device = IF reset.forApp THEN "application" ELSE "loader"

\* After a reset all calls of which succeeded both pins of the device are released
\* again, but for the same levels from before: it is not held in reset, and starts
\* its application when it is reset by hand.
LeavesReleased ==
    Finished /\ (reset.atRest \/ FromAnyLevels) =>
        /\ ~HeldDown(dtr, rts) /\ ~Gpio0Down(dtr, rts, txd)
        /\ AtRest
=============================================================================
