-------------------------------- MODULE Solver --------------------------------
(* How the analog circuit is solved (sim-core/src/analog/circuit.ts): Newton   *)
(* directly, then with a leak at every node walked down (gmin stepping), then  *)
(* with the supplies ramped up (source stepping), and the state the attempts   *)
(* leave behind.  Whether Newton converges is the circuit's secret; what it    *)
(* finds is told apart by how much leak and how much supply it was found with. *)
EXTENDS Integers, Sequences

CONSTANTS
    Leaks,      \* GMIN_LADDER: rungs of leak, down to 1, the normal one
    Ramp,       \* SOURCE_LADDER: shares of the supply, up to Full
    MaxSolves   \* bound: how often the circuit is solved

Full == Ramp
Normal == 1

ASSUME SolverAssumption ==
    Leaks \in Nat \ {0} /\ Ramp \in Nat \ {0} /\ MaxSolves \in Nat

VARIABLES
    method,     \* what is being tried, or "none", "failed"
    gmin,       \* the leak the matrix is built with
    scale,      \* sourceScale
    answer,     \* previous: found with which leak and which share of the supply
    stepping,   \* the solve is one of step(): reactive state is latched after it
    latched,    \* what the reactive devices last committed, or have at reset
    jump,       \* discontinuityPending
    solves

solverVars == <<method, gmin, scale, answer, stepping, latched, jump, solves>>

AtRest == [leak |-> Normal, share |-> 0]
Proper == [leak |-> Normal, share |-> Full]

SolverInit ==
    /\ method = "none" /\ gmin = Normal /\ scale = Full
    /\ answer = AtRest /\ stepping = FALSE /\ latched = AtRest
    /\ jump = TRUE /\ solves = 0

Solving == method \in {"direct", "gmin", "source"}

(* solve, or step: the direct attempt first.                                   *)
Solve ==
    /\ ~Solving /\ solves < MaxSolves
    /\ method' = "direct" /\ stepping' \in BOOLEAN /\ solves' = solves + 1
    /\ UNCHANGED <<gmin, scale, answer, latched, jump>>

(* newton: an answer, or half of one, or a matrix that cannot be factored.     *)
Found == answer' = [leak |-> gmin, share |-> scale]
Lost  == answer' \in {answer, [leak |-> gmin, share |-> scale]}

(* step commits what was found, and the jump is absorbed.                      *)
Return ==
    /\ method' = "none"
    /\ IF stepping THEN latched' = answer' /\ jump' = FALSE ELSE UNCHANGED <<latched, jump>>

Direct ==
    /\ method = "direct"
    /\ \/ Found /\ Return /\ UNCHANGED gmin
       \/ Lost /\ method' = "gmin" /\ gmin' = Leaks /\ UNCHANGED <<latched, jump>>
    /\ UNCHANGED <<scale, stepping, solves>>

(* gminStepping: from the heaviest leak down; the leak is normal again whether *)
(* it worked or not, and the next attempt begins at rest, with the devices     *)
(* reset.                                                                      *)
GminStepping ==
    /\ method = "gmin"
    /\ \/ Found /\ gmin > Normal /\ gmin' = gmin - 1 /\ UNCHANGED <<method, scale, latched, jump>>
       \/ Found /\ gmin = Normal /\ Return /\ UNCHANGED <<gmin, scale>>
       \/ /\ method' = "source" /\ gmin' = Normal /\ scale' = 1
          /\ answer' = AtRest /\ latched' = AtRest /\ UNCHANGED jump
    /\ UNCHANGED <<stepping, solves>>

(* sourceStepping: the supplies from little to full; a failure is thrown.      *)
SourceStepping ==
    /\ method = "source"
    /\ \/ Found /\ scale < Full /\ scale' = scale + 1 /\ UNCHANGED <<method, latched, jump>>
       \/ Found /\ scale = Full /\ Return /\ UNCHANGED scale
       \/ Lost /\ method' = "failed" /\ scale' = Full /\ UNCHANGED <<latched, jump>>
    /\ UNCHANGED <<gmin, stepping, solves>>

(* markDiscontinuity: a pin, a switch or a supply changed.                     *)
Discontinuity ==
    /\ ~Solving /\ jump' = TRUE
    /\ UNCHANGED <<method, gmin, scale, answer, stepping, latched, solves>>

(* reset: every device at power-on, the solution cleared.                      *)
ResetCircuit ==
    /\ ~Solving
    /\ method' = "none" /\ gmin' = Normal /\ scale' = Full
    /\ answer' = AtRest /\ latched' = AtRest /\ jump' = TRUE
    /\ UNCHANGED <<stepping, solves>>

SolverNext ==
    Solve \/ Direct \/ GminStepping \/ SourceStepping \/ Discontinuity \/ ResetCircuit

SolverSpec == SolverInit /\ [][SolverNext]_solverVars

-------------------------------------------------------------------------------
(* Whatever the solver had to do to find an answer, what the chip reads back   *)
(* and what capacitors and inductors remember is a solution of the circuit the *)
(* user drew: no leak left over from gmin stepping, no supply at half ramp,    *)
(* and a solve that failed does not weaken the next one.                       *)
AnswersAreOfTheRealCircuit ==
    /\ method = "none" /\ solves > 0 => answer \in {Proper, AtRest}
    /\ latched \in {Proper, AtRest}
    /\ ~Solving => gmin = Normal /\ scale = Full
===============================================================================
