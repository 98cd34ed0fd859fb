-------------------------------- MODULE Meters ---------------------------------
(* The meters that are part of the circuit they measure (sim-core/src/         *)
(* instruments/meters.ts, parts/src/instruments.ts): an ammeter, a multimeter  *)
(* with a dial and a current jack that is always connected, a scope's input.   *)
(* Currents are in tenths of an ampere, voltages in sixths of a volt and       *)
(* resistances in kilohms; what the meter's own load does to a reading is left *)
(* out, but for the current its test source pushes.                            *)
EXTENDS Integers

CONSTANTS
    Pushed,         \* the currents the circuit may push through the shunt,
    Sources,        \* the voltages it may put on the probes,
    Unknowns,       \* behind one of these resistances
    Severed,        \* or an open circuit
    MaxMeasured     \* bound: solves

TestVolts == 18
TestOhms  == 3

ASSUME MetersAssumption ==
    /\ Pushed \subseteq Int /\ Sources \subseteq Int /\ Unknowns \subseteq Nat /\ Severed \notin Unknowns
    \* What test source and circuit divide into is whole.
    /\ \A e \in Sources, r \in Unknowns : (TestVolts * r + TestOhms * e) % (r + TestOhms) = 0

VARIABLES
    dial, jack,             \* mode and range
    push, emf, behind,     \* the circuit outside
    across, drop,           \* the solution: at the probes, and over the shunt
    flowing,                 \* the current that really flowed in it
    shown,               \* the fields the display reads: volts, amps
    blown,
    solvedBy,               \* the last solve: a step, an operating point
    overloaded,             \* a step did overload the fuse that is in
    solveCount

meterVars == <<dial, jack, push, emf, behind, across, drop, flowing, shown, blown, solvedBy, overloaded, solveCount>>

ShuntOhms == [mA |-> 100, A |-> 1]
FuseAmps  == [mA |-> 2, A |-> 100]

Strength(n) == IF n < 0 THEN -n ELSE n

MetersInit ==
    /\ dial \in {"volts", "amps", "ohms"} /\ jack \in {"mA", "A"}
    /\ push \in Pushed /\ emf \in Sources /\ behind \in Unknowns \cup {Severed}
    /\ across = 0 /\ drop = 0 /\ flowing = 0
    /\ shown = [volts |-> 0, amps |-> 0]
    /\ blown \in BOOLEAN /\ overloaded = blown
    /\ solvedBy = "nothing" /\ solveCount = 0

(* What the circuit settles at: the test source and what is probed divide,     *)
(* and all that is pushed drops over a shunt that is whole.                    *)
ProbeVolts ==
    IF behind = Severed THEN (IF dial = "ohms" THEN TestVolts ELSE 0)
    ELSE IF dial = "ohms" THEN (TestVolts * behind + TestOhms * emf) \div (behind + TestOhms)
    ELSE emf
Settled == flowing' = (IF blown THEN 0 ELSE push) /\ across' = ProbeVolts /\ drop' = push * ShuntOhms[jack]

(* Shunt.update: a fuse that has gone reads nothing.                           *)
Update(volts, checkFuse) ==
    LET amps == IF blown THEN 0 ELSE volts \div ShuntOhms[jack]
    IN  /\ shown' = [volts |-> IF checkFuse THEN across' ELSE across, amps |-> amps]
        /\ blown' = (blown \/ (checkFuse /\ Strength(amps) > FuseAmps[jack]))

(* A step through time is committed: the meter reads what the circuit settled  *)
(* at, and only then is the fuse decided.                                      *)
MeterStep ==
    /\ solveCount < MaxMeasured /\ solveCount' = solveCount + 1
    /\ Settled
    /\ Update(drop', TRUE)
    /\ overloaded' = (overloaded \/ Strength(flowing') > FuseAmps[jack])
    /\ solvedBy' = "step"
    /\ UNCHANGED <<dial, jack, push, emf, behind>>

(* An operating point is never committed: the meter reads the solution before  *)
(* it, as its first pass begins.                                               *)
MeterOperatingPoint ==
    /\ solveCount < MaxMeasured /\ solveCount' = solveCount + 1
    /\ Settled
    /\ Update(drop, FALSE)
    /\ solvedBy' = IF solvedBy = "nothing" THEN "point" ELSE "points"
    /\ UNCHANGED <<dial, jack, push, emf, behind, overloaded>>

(* The circuit around it changes.                                              *)
Rewire ==
    /\ solveCount < MaxMeasured
    /\ push' \in Pushed /\ emf' \in Sources /\ behind' \in Unknowns \cup {Severed}
    /\ solvedBy' = "nothing"
    /\ UNCHANGED <<dial, jack, across, drop, flowing, shown, blown, overloaded, solveCount>>

(* The dial and the jack are properties of the part: the meter is built anew,  *)
(* with the fuse as it was seen.                                               *)
RebuildMeter ==
    /\ solveCount < MaxMeasured
    /\ dial' \in {"volts", "amps", "ohms"} /\ jack' \in {"mA", "A"}
    /\ across' = 0 /\ drop' = 0 /\ flowing' = 0
    /\ shown' = [volts |-> 0, amps |-> 0]
    /\ solvedBy' = "nothing"
    /\ UNCHANGED <<push, emf, behind, blown, overloaded, solveCount>>

(* reset puts in a new fuse; the solver's last resort resets devices too.      *)
ResetMeter ==
    /\ blown' = FALSE /\ overloaded' = FALSE
    /\ shown' = [volts |-> 0, amps |-> 0]
    /\ solvedBy' = "nothing"
    /\ UNCHANGED <<dial, jack, push, emf, behind, across, drop, flowing, solveCount>>

MetersNext == MeterStep \/ MeterOperatingPoint \/ Rewire \/ RebuildMeter \/ ResetMeter

MetersSpec == MetersInit /\ [][MetersNext]_meterVars

(* The display.                                                                *)
LiveCircuit == dial = "ohms" /\ (shown.volts > TestVolts \/ shown.volts < 0)
Resistance ==
    LET headroom == TestVolts - shown.volts
        ohms     == (TestOhms * shown.volts) \div headroom
    IN  IF headroom <= 0 THEN Severed ELSE IF ohms < 0 THEN 0 ELSE ohms
Display ==
    IF dial = "amps" /\ blown THEN "FUSE"
    ELSE IF LiveCircuit THEN "LIVE"
    ELSE CASE dial = "volts" -> <<"V", shown.volts>>
           [] dial = "amps"  -> <<"A", shown.amps>>
           [] dial = "ohms"  -> <<"R", Resistance>>
-------------------------------------------------------------------------------
(* What is probed overrides the test source: it drives the terminals above the *)
(* test source's own voltage or below its ground.                              *)
DrivenBeyond ==
    behind # Severed /\ (emf > TestVolts \/ TestVolts * behind + TestOhms * emf < 0)

(* After a step, and after an operating point that was sought twice, the meter *)
(* reads the circuit as it is: the voltage, the current that flows (none past  *)
(* a fuse that has gone), the resistance where nothing else drives it.  It     *)
(* says LIVE of every circuit that drives it beyond its test source, and of no *)
(* other: a source within that range gets a number like any resistance.        *)
ReadingIsOfTheCircuit ==
    solvedBy \in {"step", "points"} =>
        /\ shown.amps = flowing
        /\ dial = "volts" /\ behind # Severed => Display = <<"V", emf>>
        /\ dial = "ohms" /\ emf = 0 => Display = <<"R", behind>>
        /\ dial = "ohms" => ((Display = "LIVE") <=> DrivenBeyond)

(* A fuse has gone if, and only if, a step that was solved put more than its   *)
(* rating through it: no operating point, no transient, no change of the dial  *)
(* decides it, and nothing but a reset mends it.                               *)
FuseGoesOnceOverloaded == blown = overloaded

MetersAreHonest == ReadingIsOfTheCircuit /\ FuseGoesOnceOverloaded
===============================================================================
