-------------------------------- MODULE Analog ---------------------------------
(* The devices of the analog circuit (sim-core/src/analog/devices.ts): what    *)
(* each adds to the equations in a Newton pass, where it damps the pass, what  *)
(* it remembers from step to step, and what it reports.  One device is looked  *)
(* at; the rest of the circuit may put any voltages on its nodes.              *)
(*                                                                            *)
(* Quantities are small integers in units that make every coefficient whole:   *)
(* an exponential doubles per volt and is nothing below zero, and the smooth   *)
(* corners of the regulator and the op-amp are sharp.  The leaks of GMIN that  *)
(* only keep rows from being empty are left out, and sources are at full scale *)
(* (Solver has the ramps).                                                     *)
EXTENDS Mna, FiniteSetsExt

CONSTANTS
    Kinds,      \* the devices looked at
    Volts,      \* what a node may be at,
    FewVolts,   \* and the nodes of a device that has many
    MaxCommits  \* bound: steps taken by a device that remembers the last one

ASSUME AnalogAssumption == FewVolts \subseteq Volts /\ Volts \subseteq Int /\ MaxCommits \in Nat

Inside    == 5      \* the device's internal node
BranchRow == 6
Rows      == 1..6
Outer     == 1..4

VARIABLES
    kind, taken,    \* the device, and its setting: a switch, a polarity, a wiper
    at,             \* ctx.voltage: the iterate, with the branch current in its row
    pass,           \* Newton passes made in this solve: 0, 1, or 2 and more
    dc,             \* an operating point is sought, time stands still
    edge,           \* discontinuityPending
    again,          \* requestIteration was called in the last pass
    system,         \* what the last pass stamped
    memory,         \* the device's own fields
    settled,        \* the solve has been accepted, and committed if it is a step
    commits

analogVars == <<kind, taken, at, pass, dc, edge, again, system, memory, settled, commits>>

Min2(m, n) == IF m < n THEN m ELSE n
Max2(m, n) == IF m > n THEN m ELSE n

(* anchor: vPrev, vbePrev, vgsPrev and their kind; reports: the currents the   *)
(* device says it draws; v, i, started: Capacitor and Inductor; the rest is    *)
(* LinearRegulator.                                                            *)
PowerOff ==
    [anchor |-> <<0, 0, 0>>, reports |-> [n \in 1..3 |-> 0], v |-> 0, i |-> 0, started |-> FALSE,
     input |-> 0, output |-> 0, dropout |-> FALSE, limiting |-> FALSE, heat |-> 0, shutdown |-> FALSE]

Across(v, p, q) == (IF p = 0 THEN 0 ELSE v[p]) - (IF q = 0 THEN 0 ELSE v[q])

Stamped(eqs, m, ask) == [eqs |-> eqs, m |-> m, asked |-> ask]

-------------------------------------------------------------------------------
(* Linear devices, between nodes 1 and 2 (and 3).                              *)

Closed == 4         \* conductances of a switch
Open   == 0

Resistor(eqs, v, m) == Stamped(Conductance(eqs, 1, 2, 2), m, FALSE)
Supply(eqs, v, m)   == Stamped(VoltageSource(eqs, BranchRow, 1, 2, 2), m, FALSE)
Injector(eqs, v, m) == Stamped(CurrentSource(eqs, 1, 2, 2), m, FALSE)

(* DcSupply: 2 V behind an internal resistance.                                *)
Battery(eqs, v, m) == Stamped(Norton(eqs, 1, 2, 3, 2 * 3), m, FALSE)

SwitchOf(eqs, v, m) == Stamped(Conductance(eqs, 1, 2, IF taken = 0 THEN Open ELSE Closed), m, FALSE)

(* A track of resistance 4, its ends at least 1; a conductance is 12 over its  *)
(* resistance.  An odd setting is of the logarithmic taper.                    *)
Potentiometer(eqs, v, m) ==
    LET position == taken \div 2
        effective == IF taken % 2 = 1 THEN (position * position) \div 4 ELSE position
    IN  Stamped(Conductance(Conductance(eqs, 1, 2, 12 \div Max2(1, effective)),
                            2, 3, 12 \div Max2(1, 4 - effective)), m, FALSE)

-------------------------------------------------------------------------------
(* Junctions.                                                                  *)

Critical == 1

Exp(v) == IF v < 0 THEN 0 ELSE 2 ^ v
Log(n) == CHOOSE k \in 0..8 : 2 ^ k <= n /\ n < 2 ^ (k + 1)

JunctionCurrent(v)     == Exp(v) - 1
JunctionConductance(v) == IF v < 0 THEN 1 ELSE Exp(v)

(* pnjlim: above the critical voltage a pass may not move far.                 *)
LimitJunction(v, previous) ==
    IF v > Critical /\ Magnitude(v - previous) > 1
    THEN IF previous <= 0 THEN Log(v)
         ELSE IF v - previous >= 0 THEN previous + Log(1 + v - previous) ELSE Critical
    ELSE v

Cold(v, first, anchor) == IF first /\ anchor = 0 THEN Min2(v, Critical) ELSE v

(* A diode from p to q behind its bulk resistance, or bare, at anchor k.       *)
(* Mutant: a pass that was limited does not ask for another.                   *)
JunctionUnasked(eqs, v, m, first, p, inner, q, k) ==
    LET start   == Cold(Across(v, inner, q), first, m.anchor[k])
        limited == LimitJunction(start, m.anchor[k])
        g       == JunctionConductance(limited)
    IN  Stamped(CurrentSource(Conductance(IF p = inner THEN eqs ELSE Conductance(eqs, p, inner, 1),
                    inner, q, g), inner, q, JunctionCurrent(limited) - g * limited),
                [m EXCEPT !.anchor[k] = limited], FALSE)

Junction(eqs, v, m, first, p, inner, q, k) ==
    LET start   == Cold(Across(v, inner, q), first, m.anchor[k])
        limited == LimitJunction(start, m.anchor[k])
        g       == JunctionConductance(limited)
    IN  Stamped(CurrentSource(Conductance(IF p = inner THEN eqs ELSE Conductance(eqs, p, inner, 1),
                    inner, q, g), inner, q, JunctionCurrent(limited) - g * limited),
                [m EXCEPT !.anchor[k] = limited], limited # start)

Diode(eqs, v, m, first, inner) ==
    LET j == Junction(eqs, v, m, first, 1, inner, 2, 1)
        amps == JunctionCurrent(j.m.anchor[1])
    IN  [j EXCEPT !.m.reports = <<amps, -amps, 0>>]

(* Ebers-Moll: collector 1, base 2, emitter 3; BjtModel's two current gains.   *)
ForwardBeta == 4
ReverseBeta == 2

Bjt(eqs, v, m, first, sign) ==
    LET cold == first /\ m.anchor[2] = 0
        be   == Cold(sign * Across(v, 2, 3), cold, m.anchor[1])
        bc   == Cold(sign * Across(v, 2, 1), first /\ m.anchor[1] = 0, m.anchor[2])
        vbe  == LimitJunction(be, m.anchor[1])
        vbc  == LimitJunction(bc, m.anchor[2])
        ict  == ForwardBeta * (Exp(vbe) - Exp(vbc))
        ibe  == Exp(vbe) - 1
        ibc  == (ForwardBeta \div ReverseBeta) * (Exp(vbc) - 1)
        gf   == ForwardBeta * Exp(vbe)
        gr   == ForwardBeta * Exp(vbc)
        gbe  == gf \div ForwardBeta
        gbc  == gr \div ReverseBeta
        baseEmitter   == CurrentSource(Conductance(eqs, 2, 3, gbe), 2, 3, sign * (ibe - gbe * vbe))
        baseCollector == CurrentSource(Conductance(baseEmitter, 2, 1, gbc), 2, 1, sign * (ibc - gbc * vbc))
        transport     == Transconductance(Transconductance(baseCollector, 1, 3, 2, 3, gf), 3, 1, 2, 1, gr)
        ic   == sign * (ict - ibc)
        ib   == sign * (ibe + ibc)
    IN  Stamped(CurrentSource(transport, 1, 3, sign * (ict - gf * vbe + gr * vbc)),
                [m EXCEPT !.anchor = <<vbe, vbc, 0>>, !.reports = <<ic, ib, -(ic + ib)>>],
                vbe # be \/ vbc # bc)

-------------------------------------------------------------------------------
(* Shichman-Hodges: drain 1, gate 2, source 3, the body diode's node inside.   *)

Threshold == 1
Overdriven == 1     \* how far a pass may move a voltage
MostConductance == 4    \* 1 / RDS(on)

Damped(v, previous) ==
    IF Magnitude(v - previous) <= Overdriven THEN v
    ELSE previous + (IF v > previous THEN Overdriven ELSE -Overdriven)

(* k is 2, lambda 1.                                                           *)
Channel(vgs, vds) ==
    LET over  == vgs - Threshold
        mag   == Magnitude(vds)
        mod   == 1 + mag
        triode == 2 * over * mag - mag * mag
        free  == IF mag < over
                 THEN [id |-> triode * mod, gm |-> 2 * mag * mod, gds |-> 2 * (over - mag) * mod + triode]
                 ELSE [id |-> over * over * mod, gm |-> 2 * over * mod, gds |-> over * over]
        held  == IF free.gds > MostConductance
                 THEN [free EXCEPT !.gds = MostConductance, !.id = Min2(@, mag * MostConductance)] ELSE free
    IN  IF over <= 0 THEN [id |-> 0, gm |-> 0, gds |-> 0]
        ELSE IF vds < 0 THEN [held EXCEPT !.id = -@, !.gm = -@] ELSE held

Mosfet(eqs, v, m, first, sign) ==
    LET gs   == sign * Across(v, 2, 3)
        ds   == sign * Across(v, 1, 3)
        vgs  == Damped(gs, m.anchor[1])
        vds  == Damped(ds, m.anchor[2])
        c    == Channel(vgs, vds)
        stamped == CurrentSource(Conductance(
                        Transconductance(eqs, 1, 3, 2, 3, IF sign > 0 THEN c.gm ELSE -c.gm),
                        1, 3, c.gds), 1, 3, sign * (c.id - c.gm * vgs - c.gds * vds))
        body == Junction(stamped, v, m, first, IF sign > 0 THEN 3 ELSE 1, Inside, IF sign > 0 THEN 1 ELSE 3, 3)
        amps == sign * (c.id - JunctionCurrent(body.m.anchor[3]))
    IN  [body EXCEPT !.m.anchor[1] = vgs, !.m.anchor[2] = vds, !.m.reports = <<amps, 0, -amps>>,
                     !.asked = @ \/ vgs # gs \/ vds # ds]

-------------------------------------------------------------------------------
(* Inputs 1 and 2, output 3 behind an impedance, the upper rail 4, the lower   *)
(* one the ground: the transfer curve is flat but for its middle.              *)

Gain == 3
OpAmp(eqs, v, m) ==
    LET high == v[4] - 1
        low  == 0
        differential == Across(v, 1, 2)
        tanh == IF differential > 0 THEN 1 ELSE IF differential < 0 THEN -1 ELSE 0
        span == Max2(high - low, 0)
        target == (high + low + span * tanh) \div 2
        gain == Gain * (1 - tanh * tanh)
    IN  Stamped(Conductance(VoltageOffset(
                    ControlledVoltage(eqs, BranchRow, Inside, 0, 1, 2, gain),
                    BranchRow, target - gain * differential), Inside, 3, 1),
                [m EXCEPT !.output = v[3]], FALSE)

-------------------------------------------------------------------------------
(* LinearRegulator: input 1, output 2, ground 3; it regulates to 1 V with 1 V  *)
(* of headroom, delivers at most 2 A and draws 1 A for itself.                 *)

Regulated == 1
Dropout   == 1
MostAmps  == 2
Quiescent == 1
TooHot    == 5
CoolAgain == 4

(* The two knees, sharp: the lesser, and which of the two it is.               *)
SoftMin(m, n)      == Min2(m, n)
SoftMinSlope(m, n) == IF m <= n THEN 1 ELSE 0

Regulator(eqs, v, m) ==
    LET vIn  == Across(v, 1, 3)
        raw  == Across(v, 2, 3)
        open == SoftMin(vIn - Dropout, Regulated)
        byInput == SoftMinSlope(vIn - Dropout, Regulated)
        vOut == Max2(-1, Min2(open + 1, raw))
        unlimited == open - vOut
        slope == SoftMinSlope(unlimited, MostAmps)
        i    == SoftMin(unlimited, MostAmps)
        gOut == -slope
        gIn  == slope * byInput
        own(e) == CurrentSource(e, 1, 3, Quiescent)
    IN  IF m.shutdown
        THEN Stamped(own(eqs), [m EXCEPT !.input = vIn, !.output = raw, !.reports = <<Quiescent, 0, -Quiescent>>],
                     FALSE)
        ELSE Stamped(own(CurrentSource(Transconductance(Transconductance(eqs, 1, 2, 1, 3, gIn), 1, 2, 2, 3, gOut),
                                       1, 2, i - gIn * vIn - gOut * vOut)),
                     [m EXCEPT !.input = vIn, !.output = vOut, !.reports = <<i + Quiescent, -i, -Quiescent>>,
                               !.dropout = vIn - Dropout < Regulated, !.limiting = slope = 0],
                     vOut # raw)

Dissipation(m) == Max2(0, (m.output - m.input) * m.reports[2] + m.input * Quiescent)

(* The junction goes part of the way to where the dissipation takes it.        *)
Warmed(m) ==
    LET heat == Dissipation(m) + (m.heat - Dissipation(m)) \div 2
    IN  [m EXCEPT !.heat = heat,
                  !.shutdown = IF @ THEN heat > CoolAgain ELSE heat >= TooHot]

(* faults().                                                                   *)
Faults(m) ==
    (IF m.shutdown THEN {"regulator-thermal-shutdown"}
     ELSE IF Dissipation(m) > TooHot THEN {"regulator-overheating"} ELSE {})
    \cup (IF m.dropout /\ ~m.shutdown THEN {"regulator-dropout"} ELSE {})
    \cup (IF m.limiting /\ ~m.shutdown THEN {"regulator-over-current"} ELSE {})

-------------------------------------------------------------------------------
(* Reactive devices: C/h is 1, h/L is 2.                                       *)

Trapezoidal(m) == m.started /\ ~edge

CompanionOf(m) ==
    IF kind = "capacitor"
    THEN LET geq == IF Trapezoidal(m) THEN 2 ELSE 1
         IN  [g |-> geq, i |-> -(geq * m.v + (IF Trapezoidal(m) THEN m.i ELSE 0))]
    ELSE LET geq == IF Trapezoidal(m) THEN 1 ELSE 2
         IN  [g |-> geq, i |-> m.i + (IF Trapezoidal(m) THEN geq * m.v ELSE 0)]

(* At an operating point a capacitor is open and an inductor a short.          *)
Reactive(eqs, v, m, still) ==
    LET c == CompanionOf(m)
    IN  IF still THEN Stamped(IF kind = "capacitor" THEN eqs ELSE Conductance(eqs, 1, 2, 9), m, FALSE)
        ELSE Stamped(CurrentSource(Conductance(eqs, 1, 2, c.g), 1, 2, c.i), m, FALSE)

(* commit: the current is the companion's at the voltage that was found.       *)
Latched(m, v) ==
    LET c == CompanionOf(m)
        amps == c.g * v + c.i
    IN  [m EXCEPT !.v = v, !.i = amps, !.started = TRUE, !.reports = <<amps, -amps, 0>>]

-------------------------------------------------------------------------------
(* One device in a circuit.                                                    *)

StampOf(v, still) ==
    LET eqs == NoEquations(6)
        first == pass = 0
    IN  CASE kind = "resistor"  -> Resistor(eqs, v, memory)
          [] kind = "supply"    -> Supply(eqs, v, memory)
          [] kind = "injector"  -> Injector(eqs, v, memory)
          [] kind = "battery"   -> Battery(eqs, v, memory)
          [] kind = "switch"    -> SwitchOf(eqs, v, memory)
          [] kind = "potentiometer" -> Potentiometer(eqs, v, memory)
          [] kind = "diode"     -> Diode(eqs, v, memory, first, IF taken = 0 THEN 1 ELSE Inside)
          [] kind \in {"npn", "pnp"} -> Bjt(eqs, v, memory, first, IF kind = "npn" THEN 1 ELSE -1)
          [] kind \in {"nmos", "pmos"} -> Mosfet(eqs, v, memory, first, IF kind = "nmos" THEN 1 ELSE -1)
          [] kind = "op-amp"    -> OpAmp(eqs, v, memory)
          [] kind = "regulator" -> Regulator(eqs, v, memory)
          [] kind \in {"capacitor", "inductor"} -> Reactive(eqs, v, memory, still)

NodesUsed ==
    CASE kind = "diode" -> IF taken = 0 THEN {1, 2} ELSE {1, 2, Inside}
      [] kind \in {"nmos", "pmos"} -> {1, 2, 3, Inside}
      [] kind = "op-amp" -> {1, 2, 3, 4, Inside}
      [] kind \in {"npn", "pnp", "potentiometer", "regulator"} -> {1, 2, 3}
      [] OTHER -> {1, 2}

Settings == [k \in Kinds |->
    CASE k = "potentiometer" -> 0..9 [] k \in {"switch", "diode"} -> {0, 1} [] OTHER -> {0}]

(* The current through the device's branch: a supply's is whatever is drawn,   *)
(* an op-amp's what goes on from the node inside.                              *)
BranchCurrents(v) ==
    CASE kind = "supply" -> FewVolts [] kind = "op-amp" -> {v[3] - v[Inside]} [] OTHER -> {0}

(* What the rest of the circuit may make of the device's nodes; its own node    *)
(* settles wherever it will.                                                   *)
Iterates ==
    LET few == IF kind = "potentiometer" \/ Cardinality(NodesUsed) > 3 THEN NodesUsed \ {Inside} ELSE {}
    IN  {v \in [NodesUsed -> Volts] : \A n \in few : v[n] \in FewVolts}

Timely == {"capacitor", "inductor", "regulator"}

AnalogInit ==
    /\ kind \in Kinds /\ taken \in Settings[kind]
    /\ at = [r \in Rows |-> 0] /\ pass = 0 /\ dc = FALSE /\ edge = TRUE
    /\ again = FALSE /\ system = NoEquations(6) /\ memory = PowerOff
    /\ settled = FALSE /\ commits = 0

(* A pass of newton(): stamped at the iterate, which is what the rest of the   *)
(* circuit made of the last pass.                                              *)
NewtonPass ==
    /\ commits < IF kind \in Timely \cup {"diode"} THEN MaxCommits ELSE 1
    /\ \E v \in Iterates :
          \E amps \in BranchCurrents(v) :
             at' = [r \in Rows |-> IF r = BranchRow THEN amps ELSE IF r \in NodesUsed THEN v[r] ELSE 0]
    /\ dc' \in (IF pass = 0 /\ kind \in Timely THEN BOOLEAN ELSE {dc})
    /\ LET s == StampOf(at', dc')
       IN  system' = s.eqs /\ memory' = s.m /\ again' = s.asked
    /\ pass' = Min2(pass + 1, 2) /\ settled' = FALSE
    /\ UNCHANGED <<kind, taken, edge, commits>>

(* Converged: nothing moved since the pass before, nobody asked for another,   *)
(* and what only this device touches is in balance.  A step commits.           *)
AcceptSolve ==
    /\ pass = 2 /\ ~again /\ ~settled
    /\ \A r \in {Inside, BranchRow} : Residual(system, r, at) = 0
    /\ pass' = 0 /\ settled' = TRUE /\ commits' = commits + 1
    /\ IF dc THEN UNCHANGED <<memory, edge>>
       ELSE /\ edge' = FALSE
            /\ memory' = CASE kind \in {"capacitor", "inductor"} -> Latched(memory, Across(at, 1, 2))
                           [] kind = "regulator" -> Warmed(memory)
                           [] OTHER -> memory
    /\ UNCHANGED <<kind, taken, at, dc, again, system>>

(* A switch is thrown or a wiper turned, and every such change is an edge.     *)
Touch ==
    /\ settled /\ settled' = FALSE /\ edge' = TRUE
    /\ taken' \in Settings[kind]
    /\ kind = "diode" => taken' = taken
    /\ UNCHANGED <<kind, at, pass, dc, again, system, memory, commits>>

(* Circuit.reset.                                                              *)
PowerCycle ==
    /\ settled /\ settled' = FALSE /\ edge' = TRUE
    /\ memory' = PowerOff /\ at' = [r \in Rows |-> 0]
    /\ UNCHANGED <<kind, taken, pass, dc, again, system, commits>>

AnalogNext == NewtonPass \/ AcceptSolve \/ Touch \/ PowerCycle
AnalogSpec == AnalogInit /\ [][AnalogNext]_analogVars

-------------------------------------------------------------------------------
Reporting == {"diode", "npn", "pnp", "nmos", "pmos", "regulator", "capacitor", "inductor"}

(* What a device reports is what it does to the circuit.  Once a solve has     *)
(* been accepted, the current that the equations draw from each of its nodes   *)
(* is the one the device says it carries (the number meters, fuses and faults  *)
(* go by), whatever damping the passes before needed and whichever way the     *)
(* step was integrated.                                                        *)
CurrentsAreReported ==
    settled /\ kind \in Reporting /\ (dc => kind \notin {"capacitor", "inductor"}) =>
        \A n \in 1..3 : Residual(system, n, at) = memory.reports[n]

(* The one device this is not so of: with every voltage inverted the           *)
(* transconductance of a P-channel is what an N-channel's is, and it is        *)
(* stamped negated.  A channel that does not conduct, or answers to no gate,   *)
(* is stamped as it should be.                                                 *)
Misstamped == kind = "pmos" /\ Channel(memory.anchor[1], memory.anchor[2]).gm # 0

(* What goes in at one node of a device comes out at the others, that of a     *)
(* conducting P-channel too.                                                   *)
CurrentsBalance ==
    settled /\ kind # "op-amp" =>
        FoldSet(LAMBDA n, sum : sum + Residual(system, n, at), 0, Outer) = 0

(* No output sags without being explained: a regulator that drives its output  *)
(* and that no fault is raised about holds it to within what its impedance     *)
(* costs at full load.                                                         *)
SagIsExplained ==
    settled /\ kind = "regulator" /\ memory.reports[2] # 0 /\ Faults(memory) = {} =>
        Regulated - memory.output <= MostAmps

(* An amplifier's output stays between its rails, less their headroom.         *)
OutputIsWithinRails ==
    settled /\ kind = "op-amp" /\ at[4] >= 1 => at[Inside] \in 0..(at[4] - 1)

(* Every device is true to its equations and reports what flows in it, but for *)
(* the P-channel that conducts.                                                *)
DevicesAreHonest ==
    /\ Misstamped \/ CurrentsAreReported
    /\ CurrentsBalance /\ SagIsExplained /\ OutputIsWithinRails
===============================================================================
