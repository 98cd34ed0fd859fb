----------------------------- MODULE PartBehavior -----------------------------
(* The behaviours of a manifest that take time or hold state (ManifestDevice   *)
(* in parts/src/manifest-runtime.ts), driven by the board's schedule: a        *)
(* rangefinder that answers a trigger with a pulse, a servo that follows the   *)
(* width of its pulses, a comparator with hysteresis, a sensor between its     *)
(* rails.  Time is in CPU cycles.                                              *)
EXTENDS Integers, Sequences

CONSTANTS
    SolveInterval,  \* maxAnalogInterval
    Frame,          \* what one runFor runs for
    Longest,        \* cycles of the longest instruction
    MinTrigger, Delay, Timeout, \* of the rangefinder; a unit of distance is a cycle
    Slew,           \* of the servo, per cycle
    Readings,       \* what the world sets the part's state variable to
    EndOfTime       \* bound: no frame starts after it

ASSUME PartBehaviorAssumption ==
    /\ {SolveInterval, Frame, Longest, MinTrigger} \subseteq Nat \ {0}
    /\ {Delay, Timeout, Slew, EndOfTime} \subseteq Nat /\ Readings \subseteq Nat

VARIABLES
    conduct,        \* the behaviour's kind
    mcuCycles, until,   \* mcu.cycles; where the current runFor ends
    driving,        \* whether the sketch drives the trigger or signal pin high
    sensed,         \* the state variable
    gadget,         \* the device's own fields
    output,         \* its output as the last solve left it, which the chip reads
    roseAt,         \* ghost: when the sketch last raised the pin
    owing,          \* ghost: pulses owed on the output, how wide, since when; how far off
    servo           \* ghost: the servo's last order: when, from where, to where

partVars == <<conduct, mcuCycles, until, driving, sensed, gadget, output, roseAt, owing, servo>>

Released == -1      \* no level is driven: a high impedance
NoTime   == -1
NoWindow == <<NoTime, NoTime>>

Cleared0 ==
    [out |-> Released, window |-> NoWindow, since |-> NoTime, last |-> FALSE,
     commanded |-> NoTime, actual |-> 0, on |-> FALSE, elapsed |-> 0]

Lesser(m, n) == IF m < n THEN m ELSE n
Clamp(n, low, high) == IF n < low THEN low ELSE Lesser(n, high)

-------------------------------------------------------------------------------
(* updateBehavior, at a commit: now is the device's own clock, high what its   *)
(* input reads.  A sensor stops at the rails.                                  *)
TopRail == 2
Sensing(d) == [d EXCEPT !.out = Clamp(2 * sensed - 1, 0, TopRail)]

SwitchAt   == 2
Hysteresis == 1
Switched(d) ==
    LET on == IF d.on THEN sensed >= SwitchAt - Hysteresis ELSE sensed > SwitchAt + Hysteresis
    IN  [d EXCEPT !.on = on, !.out = IF on THEN 0 ELSE 1]

(* How long the input had been high, when this commit is the first to find it  *)
(* low.                                                                        *)
FellAfter(d, high, now) == IF ~high /\ d.last /\ d.since # NoTime THEN now - d.since ELSE NoTime

Followed(d, high, now) ==
    [d EXCEPT !.last = high,
              !.since = IF high /\ ~d.last THEN now ELSE IF ~high /\ d.last THEN NoTime ELSE @]

(* Mutant: a trigger during an echo starts another.                            *)
TriggeredAgain(d, width) == width >= MinTrigger

Triggered(d, width) == width >= MinTrigger /\ d.window = NoWindow

Echo(d, now) ==
    IF d.window = NoWindow THEN [d EXCEPT !.out = 0]
    ELSE IF now >= d.window[2] THEN [d EXCEPT !.out = 0, !.window = NoWindow]
    ELSE [d EXCEPT !.out = IF now >= d.window[1] THEN 1 ELSE 0]

Ranged(d, high, now) ==
    LET heard == Triggered(d, FellAfter(d, high, now))
        start == now + Delay
    IN  Echo([Followed(d, high, now) EXCEPT
                 !.window = IF heard THEN <<start, start + Lesser(sensed, Timeout)>> ELSE @], now)

(* Pulses of 2 to 4 cycles turn it from 0 to 4; others are ignored when under  *)
(* half the shortest or over half as much again as the longest.                *)
InWindow(width) == width # NoTime /\ 2 * width >= 2 /\ 2 * width <= 3 * 4
PositionAt(width) == 2 * Clamp(width - 2, 0, 2)

Toward(from, to, step) ==
    IF from < to THEN Lesser(to, from + step) ELSE IF from - step < to THEN to ELSE from - step

Steered(d, high, now, dt) ==
    LET width == FellAfter(d, high, now)
        to    == IF InWindow(width) THEN PositionAt(width) ELSE d.commanded
    IN  [Followed(d, high, now) EXCEPT
            !.commanded = to, !.actual = IF to = NoTime THEN @ ELSE Toward(@, to, Slew * dt)]

Updated(d, high, dt) ==
    LET now  == d.elapsed + dt
        next == CASE conduct = "analog-sensor"    -> Sensing(d)
                  [] conduct = "threshold-switch" -> Switched(d)
                  [] conduct = "pulse-echo"       -> Ranged(d, high, now)
                  [] conduct = "pwm-actuator"     -> Steered(d, high, now, dt)
    IN  [next EXCEPT !.elapsed = now]

NextEvent(now) ==
    IF gadget.window = NoWindow THEN NoTime
    ELSE IF now < gadget.window[1] THEN gadget.window[1]
    ELSE IF now < gadget.window[2] THEN gadget.window[2] ELSE NoTime

-------------------------------------------------------------------------------
(* An edge is on the output one solve after its own, and either may overrun by *)
(* an instruction.                                                             *)
Slack == SolveInterval + 2 * (Longest - 1)

(* An echo that is over within one solve interval may be on the output for no  *)
(* time at all, when a frame ends with the solve that raises it: readings, and *)
(* the longest pulse, are longer.                                              *)
Measured == IF conduct = "pulse-echo" THEN {r \in Readings : Lesser(r, Timeout) > Slack} ELSE Readings

PartInit ==
    /\ conduct \in {"analog-sensor", "threshold-switch", "pulse-echo", "pwm-actuator"}
    /\ mcuCycles = 0 /\ until = 0 /\ driving = FALSE /\ sensed \in Measured
    /\ gadget = Cleared0 /\ output = 0 /\ roseAt = NoTime
    /\ owing = [owed |-> 0, meant |-> 0, off |-> 0, rose |-> NoTime]
    /\ servo = [at |-> 0, from |-> 0, to |-> 0]

(* Solved: what was driven by the last commit is on the wire.                  *)
OnWire == IF gadget.out = Released THEN 0 ELSE gadget.out

Distance(m, n) == IF m < n THEN n - m ELSE m - n

Watched(now) ==
    IF conduct # "pulse-echo" \/ output' = output THEN owing
    ELSE IF output' = 1 THEN [owing EXCEPT !.rose = now]
    ELSE [owing EXCEPT !.off = Distance(now - owing.rose, owing.meant), !.owed = @ - 1]

(* tick: the world sets the variable, and runFor begins with a solve that      *)
(* takes no time and commits nothing.                                          *)
BeginFrame ==
    /\ mcuCycles >= until /\ mcuCycles <= EndOfTime
    /\ until' = mcuCycles + Frame
    /\ sensed' \in Measured
    /\ output' = OnWire /\ owing' = Watched(mcuCycles)
    /\ UNCHANGED <<conduct, mcuCycles, driving, gadget, roseAt, servo>>

Checkpoint0 ==
    LET event == NextEvent(mcuCycles)
    IN  Lesser(Lesser(mcuCycles + SolveInterval, until), IF event > mcuCycles THEN event ELSE until)

(* The order as the sketch gave it, from where the servo was a solve before:   *)
(* the step that hears of it moves it already.                                 *)
Ordered(now) ==
    IF conduct = "pwm-actuator" /\ driving /\ ~driving' /\ InWindow(now - roseAt)
    THEN [at |-> mcuCycles, from |-> gadget.actual, to |-> PositionAt(now - roseAt)]
    ELSE servo

(* The CPU runs to the checkpoint, or to the instruction that changes the pin; *)
(* then the circuit is solved and the device committed.                        *)
RunToSolve ==
    /\ mcuCycles < until
    /\ \E now \in (mcuCycles + 1)..(Checkpoint0 + Longest - 1), changed \in BOOLEAN :
          /\ changed \/ now >= Checkpoint0
          /\ mcuCycles' = now
          /\ driving' = (driving # changed)
          /\ roseAt' = IF driving' /\ changed THEN now ELSE roseAt
          /\ output' = OnWire
          /\ gadget' = Updated(gadget, driving', now - mcuCycles)
          /\ owing' = IF conduct = "pulse-echo" /\ gadget'.window \notin {gadget.window, NoWindow}
                      THEN [Watched(now) EXCEPT !.owed = @ + 1,
                                                !.meant = gadget'.window[2] - gadget'.window[1]]
                      ELSE Watched(now)
          /\ servo' = Ordered(now)
    /\ UNCHANGED <<conduct, until, sensed>>

PartNext == BeginFrame \/ RunToSolve
PartSpec == PartInit /\ [][PartNext]_partVars

-------------------------------------------------------------------------------
(* A trigger that is long enough and comes while no echo is under way is       *)
(* answered by one pulse and every other trigger by none, and what the chip    *)
(* measures of the pulse is its width to within one solve interval and the two *)
(* instructions: its start and its end are stopped at.                         *)
EchoIsMeasured ==
    conduct = "pulse-echo" =>
        /\ owing.owed \in {0, 1}
        /\ owing.owed = 0 <=> gadget.window = NoWindow /\ gadget.out # 1 /\ output # 1
        /\ owing.off <= Slack

(* The servo is where the width of the last good pulse sends it, as far as its *)
(* slew has got it since, however the solves fell.                             *)
ServoFollows ==
    conduct = "pwm-actuator" =>
        gadget.actual = Toward(servo.from, servo.to, Slew * (mcuCycles - servo.at))

(* A manifest's timed behaviours keep to their data sheet, on the schedule the *)
(* board really solves by, and the device's clock keeps the chip's time.       *)
PartBehaves == EchoIsMeasured /\ ServoFollows /\ gadget.elapsed = mcuCycles
===============================================================================
