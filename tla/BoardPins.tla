------------------------------- MODULE BoardPins -------------------------------
(* The exchange between the chip and the circuit (sched/board.ts,              *)
(* mcu/pin-model.ts, mcu/atmega328p.ts): the chip runs freely, the network is  *)
(* solved only when a pin's drive may have changed, at a breakpoint and at     *)
(* most an interval apart, and what the chip reads and the faults that are     *)
(* reported are those of the last solve.  The sketch is any sequence of        *)
(* instructions that write ports or switch the transmitter; the edges of a     *)
(* frame are SerialLine's, a chip select's are Buses'.                         *)
EXTENDS Integers, FiniteSets, FiniteSetsExt

CONSTANTS
    Headers,        \* the header pins with something to tell
    PortOf,         \* the port register each is a bit of
    Tx,             \* the header pin the transmitter takes over
    BusPins,        \* those an I2C bus with devices on it holds
    Wirings,        \* what the circuit may connect each to
    Gap,            \* cycles between two solves, at most
    Chunk,          \* cycles one call of runFor is asked for
    ProgramWords,          \* words of program
    MaxTicks,       \* bound: cycles executed
    MaxEdits        \* bound: changes of the wiring and of the breakpoints

ASSUME BoardAssumption ==
    /\ Tx \in Headers /\ BusPins \subseteq Headers
    /\ DOMAIN PortOf = Headers
    /\ Wirings \subseteq [Headers -> {"nothing", "ground", "supply", "divider", "capacitor"}]
    /\ {Gap, Chunk, ProgramWords} \subseteq Nat \ {0}

VARIABLES
    ddr, port,      \* the header pins whose bit is set in each register
    transmitting,   \* TXEN0
    word,           \* the program counter
    ticks,          \* cycles executed
    tie,            \* what the circuit connects each pin to
    drive,          \* pin.driveState: what the last solve was stamped with
    lastLevel,      \* the level each input latch holds
    reading,        \* the pins whose bit is set in PINx
    lastSolve,      \* when the network was last solved
    noted,          \* latchedFaults: what was seen since the board was built
    calling,        \* runFor has not returned
    goal, checkpoint,
    breakpointFlags, anyBreakpoints, stoppedAt,
    first,          \* runFor has executed nothing yet
    ignored,        \* an instruction under a breakpoint was executed in passing
    edits           \* changes made so far

pinVars == <<ddr, port, transmitting, word, ticks, tie, drive, lastLevel, reading, lastSolve, noted,
             calling, goal, checkpoint, breakpointFlags, anyBreakpoints, stoppedAt, first, ignored, edits>>
chipRegs   == <<ddr, port, transmitting, word, ticks>>
solveState == <<drive, lastLevel, reading, lastSolve, noted>>

SupplyVolts == 5
Inputs == {"input", "input-pullup"}

(* The drive state of a pin by its two bits, and with the transmitter on, when *)
(* the USART holds TX at the idle level whatever the port says.                *)
PortState(h, d, p) ==
    IF h \in d THEN (IF h \in p THEN "high" ELSE "low")
    ELSE IF h \in p THEN "input-pullup" ELSE "input"
PinState(h, d, p, t) == IF h = Tx /\ t THEN "high" ELSE PortState(h, d, p)

(* The voltage a pin settles at.  A pull-up loses to everything but nothing, a *)
(* driver to a short; a capacitor charges while nothing drives it.             *)
Charged(t) == IF t < 3 THEN 0 ELSE IF t < 5 THEN 2 ELSE 5
Voltage(state, to, t) ==
    IF to \in {"ground", "supply"} THEN (IF to = "supply" THEN SupplyVolts ELSE 0)
    ELSE IF state \in {"high", "low"} THEN (IF state = "high" THEN SupplyVolts ELSE 0)
    ELSE CASE to = "divider" -> 2
           [] to = "capacitor" -> Charged(t)
           [] to = "nothing" -> IF state = "input-pullup" THEN SupplyVolts ELSE 0

(* Milliamps out of the pin, through 25 ohms; what an input passes is          *)
(* nothing beside it.                                                          *)
Current(state, v) ==
    CASE state = "high" -> 40 * (SupplyVolts - v)
      [] state = "low"  -> -(40 * v)
      [] OTHER          -> 0

ReadLevel(v) ==
    CASE 10 * v <= 3 * SupplyVolts -> "low"
      [] 10 * v >= 6 * SupplyVolts -> "high"
      [] OTHER                -> "indeterminate"

Amount(n) == IF n < 0 THEN -n ELSE n

(* What passes through each pin.                                               *)
PinCurrents(states, volts) == [h \in Headers |-> Amount(Current(states[h], volts[h]))]

(* The faults of a solve: each has a code and a subject, by which it is kept.  *)
FaultsAt(states, volts) ==
    LET passing == PinCurrents(states, volts)
        heard   == {h \in Headers : states[h] \in Inputs}
    IN  {<<"pin-over-current", h>> : h \in {h \in Headers : passing[h] > 40}}
        \cup {<<"floating-input", h>> : h \in {h \in heard : ReadLevel(volts[h]) = "indeterminate"}}
        \cup {<<"i2c-no-pullup", h>> : h \in {h \in heard \cap BusPins : ReadLevel(volts[h]) # "high"}}
        \cup (IF SumFunction(passing) > 200 THEN {<<"supply-over-current", "VCC">>} ELSE {})

States(d, p, t) == [h \in Headers |-> PinState(h, d, p, t)]
SettledVolts(states, t) == [h \in Headers |-> Voltage(states[h], tie[h], t)]
-------------------------------------------------------------------------------
(* The chip out of reset: every pin a floating input, and the program at 0.    *)
ChipInit ==
    /\ ddr = {} /\ port = {} /\ transmitting = FALSE
    /\ word = 0 /\ ticks = 0

PinsInit ==
    /\ ChipInit
    /\ tie \in Wirings
    /\ drive = [h \in Headers |-> "input"]
    /\ lastLevel = [h \in Headers |-> "low"]
    /\ reading = {} /\ lastSolve = 0 /\ noted = {}
    /\ calling = FALSE /\ goal = 0 /\ checkpoint = 0
    /\ breakpointFlags \in SUBSET (0..ProgramWords - 1) /\ anyBreakpoints = (breakpointFlags # {})
    /\ stoppedAt = "null"
    /\ first = FALSE /\ ignored = FALSE /\ edits = 0

(* One exchange, with the registers as they are then: out go the drive states, *)
(* in come the levels of the pins that are inputs, held in the band between    *)
(* the thresholds; and what is wrong is noted once.                            *)
SolveAnalog ==
    LET states == States(ddr', port', transmitting')
        volts  == SettledVolts(states, ticks')
        heard  == {h \in Headers : states[h] \in Inputs}
        level  == [h \in Headers |->
                      IF h \in heard /\ ReadLevel(volts[h]) # "indeterminate"
                      THEN ReadLevel(volts[h]) ELSE lastLevel[h]]
    IN  /\ drive' = states
        /\ lastLevel' = level
        /\ reading' = {h \in heard : level[h] = "high"} \cup (reading \ heard)
        /\ lastSolve' = ticks'
        /\ noted' = noted \cup FaultsAt(states, volts)

NextCheckpoint(from, to) == Min({from + Gap, to})

(* runFor: an operating point before the first instruction.                    *)
BeginRun ==
    /\ ~calling /\ ticks < MaxTicks
    /\ calling' = TRUE /\ first' = TRUE
    /\ stoppedAt' = "null"
    /\ goal' = ticks + Chunk
    /\ checkpoint' = NextCheckpoint(ticks, ticks + Chunk)
    /\ UNCHANGED chipRegs
    /\ SolveAnalog
    /\ UNCHANGED <<tie, breakpointFlags, anyBreakpoints, ignored, edits>>

(* What an instruction may do to the pins: write a port's DDR or PORT, switch  *)
(* the transmitter, put a byte in UDR, or nothing.                             *)
WriteDdr(p) ==
    \E on \in SUBSET {h \in Headers : PortOf[h] = p} :
        /\ ddr' = {h \in ddr : PortOf[h] # p} \cup on
        /\ UNCHANGED <<port, transmitting>>
WritePort(p) ==
    \E on \in SUBSET {h \in Headers : PortOf[h] = p} :
        /\ port' = {h \in port : PortOf[h] # p} \cup on
        /\ UNCHANGED <<ddr, transmitting>>
PinInstruction ==
    /\ word' \in 0..ProgramWords - 1
    /\ ticks' \in ticks + 1..ticks + 2
    /\ \/ \E p \in {PortOf[h] : h \in Headers} : WriteDdr(p) \/ WritePort(p)
       \/ transmitting' = ~transmitting /\ UNCHANGED <<ddr, port>>
       \/ UNCHANGED <<ddr, port, transmitting>>

(* pinsDirty after it: a write is reported for the pins it moved, and the      *)
(* transmitter, which moves a pin without a port write, has a listener of its  *)
(* own.                                                                        *)
(* Mutant: the board listens to the ports alone.                               *)
DirtiedByPorts ==
    \E h \in Headers : PortState(h, ddr', port') # PortState(h, ddr, port)

Dirtied ==
    \/ \E h \in Headers : PortState(h, ddr', port') # PortState(h, ddr, port)
    \/ transmitting' # transmitting

(* One turn of the inner loop, and what follows when it is the last: the stop  *)
(* at a breakpoint, or the solve and the next pass.                            *)
Execute ==
    /\ calling
    /\ PinInstruction
    /\ first' = FALSE
    /\ ignored' = (ignored \/ (~first /\ word \in breakpointFlags))
    /\ LET stops == anyBreakpoints /\ word' \in breakpointFlags
           ends  == ticks' >= checkpoint \/ Dirtied
       IN  /\ stoppedAt' = IF stops THEN 2 * word' ELSE stoppedAt
           /\ calling' = (~stops /\ (ends => ticks' < goal))
           /\ IF stops \/ ends THEN SolveAnalog ELSE UNCHANGED solveState
           /\ checkpoint' = IF ~stops /\ ends THEN NextCheckpoint(ticks', goal) ELSE checkpoint
    /\ UNCHANGED <<tie, goal, breakpointFlags, anyBreakpoints, edits>>

(* One instruction, whatever breakpoint it is on or comes to.                  *)
StepPins ==
    /\ ~calling /\ ticks < MaxTicks
    /\ stoppedAt' = "null"
    /\ PinInstruction
    /\ SolveAnalog
    /\ UNCHANGED <<tie, calling, goal, checkpoint, breakpointFlags, anyBreakpoints, first, ignored, edits>>

(* Byte addresses, an odd one of the word that holds it; one past the program  *)
(* is not set.                                                                 *)
SetBreakpoint(address) ==
    /\ breakpointFlags' = breakpointFlags \cup ({address \div 2} \cap 0..ProgramWords - 1)
    /\ anyBreakpoints' = (anyBreakpoints \/ address \div 2 < ProgramWords)
ClearBreakpoint(address) ==
    /\ breakpointFlags' = breakpointFlags \ {address \div 2}
    /\ anyBreakpoints' = (breakpointFlags' # {})
ClearBreakpoints == breakpointFlags' = {} /\ anyBreakpoints' = FALSE

(* Between calls the studio sets and clears breakpoints, and turns what is     *)
(* wired.                                                                      *)
EditPins ==
    /\ ~calling /\ edits < MaxEdits /\ edits' = edits + 1
    /\ \/ /\ \/ \E address \in 0..2 * ProgramWords : SetBreakpoint(address) \/ ClearBreakpoint(address)
             \/ ClearBreakpoints
          /\ UNCHANGED tie
       \/ /\ tie' \in Wirings \ {tie}
          /\ UNCHANGED <<breakpointFlags, anyBreakpoints>>
    /\ UNCHANGED <<chipRegs, solveState, calling, goal, checkpoint, stoppedAt, first, ignored>>

PinsNext == BeginRun \/ Execute \/ StepPins \/ EditPins

PinsSpec == PinsInit /\ [][PinsNext]_pinVars
-------------------------------------------------------------------------------
(* While the chip runs, the circuit was solved with what its registers say: no *)
(* way of moving a pin goes unnoticed until the next interval.                 *)
DrivenAsWritten == calling => drive = States(ddr, port, transmitting)

(* A level that has stood for an interval is what the chip reads, and nothing  *)
(* it reads was solved longer ago than that.                                   *)
ReadsAreRecent ==
    calling =>
        /\ ticks - lastSolve < Gap
        /\ \A h \in Headers, level \in {"low", "high"} :
              /\ drive[h] \in Inputs
              /\ \A t \in ticks - Gap + 1..ticks : ReadLevel(Voltage(drive[h], tie[h], t)) = level
              => (level = "high") = (h \in reading)

(* A pin that is driven into a short is reported, for however few cycles it    *)
(* was driven.                                                                 *)
OverCurrentIsNoted ==
    calling =>
        LET states == States(ddr, port, transmitting)
        IN  {f \in FaultsAt(states, SettledVolts(states, ticks)) :
                f[1] \in {"pin-over-current", "supply-over-current"}} \subseteq noted

(* A run goes past no breakpoint but the one it started on.                    *)
BreakpointsStop == ~ignored

(* The exchange between the chip and the circuit, as its users rely on it.     *)
PinsAreTheCircuits == DrivenAsWritten /\ ReadsAreRecent /\ OverCurrentIsNoted /\ BreakpointsStop
===============================================================================
