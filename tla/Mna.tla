---------------------------------- MODULE Mna ----------------------------------
(* The system of equations a circuit is solved as and the solver that caches   *)
(* its factors: sim-core/src/analog/mna.ts and analog/lu.ts.  A row per node   *)
(* (Kirchhoff's current law there) and a row per branch (its voltage); the     *)
(* ground has no row.  The numbers are exact: what rounding does is left out.  *)
EXTENDS Integers, Sequences, SequencesExt

CONSTANTS
    NodeCount, BranchCount, \* the rows of the machine below
    Gmin,       \* the conductance from every node to ground
    Values,     \* conductances, currents, voltages and gains that are stamped
    MaxStamps   \* bound: stamps in all

ASSUME MnaAssumption ==
    /\ NodeCount \in Nat /\ BranchCount \in Nat /\ Gmin \in Nat
    /\ Values \subseteq Int /\ MaxStamps \in Nat

GroundNode == 0
Size3 == NodeCount + BranchCount
Row(branch) == NodeCount + branch

VARIABLES
    equations,  \* a and z
    dirty,      \* something was stamped since the factors were made
    factors,    \* the solver's cached factors; Unfactored until they are made
    solution,   \* x
    answered,   \* ghost: the solution is of the equations as they stand
    stamps

mnaVars == <<equations, dirty, factors, solution, answered, stamps>>

-------------------------------------------------------------------------------
(* Stamps: what each adds to the equations.                                    *)

NoEquations(rows) == [a |-> [r \in 1..rows |-> [c \in 1..rows |-> 0]], z |-> [r \in 1..rows |-> 0]]

Entry(eqs, r, c, value) ==
    IF GroundNode \in {r, c} THEN eqs ELSE [eqs EXCEPT !.a[r][c] = @ + value]

Inject(eqs, r, value) ==
    IF r = GroundNode THEN eqs ELSE [eqs EXCEPT !.z[r] = @ + value]

Conductance(eqs, p, q, g) ==
    Entry(Entry(Entry(Entry(eqs, p, p, g), q, q, g), p, q, -g), q, p, -g)

(* Out of p, through the source, into q.                                       *)
CurrentSource(eqs, p, q, amps) == Inject(Inject(eqs, p, -amps), q, amps)

Norton(eqs, p, q, g, ieq) == CurrentSource(Conductance(eqs, p, q, g), q, p, ieq)

(* A voltage source is a controlled one with no gain, and a constant.          *)
ControlledVoltage(eqs, row, p, q, cp, cq, gain) ==
    Entry(Entry(Entry(Entry(Entry(Entry(eqs, p, row, 1), q, row, -1),
        row, p, 1), row, q, -1), row, cp, -gain), row, cq, gain)

VoltageOffset(eqs, row, volts) == Inject(eqs, row, volts)

VoltageSource(eqs, row, p, q, volts) ==
    VoltageOffset(ControlledVoltage(eqs, row, p, q, GroundNode, GroundNode, 0), row, volts)

Transconductance(eqs, p, q, cp, cq, gm) ==
    Entry(Entry(Entry(Entry(eqs, p, cp, gm), p, cq, -gm), q, cp, -gm), q, cq, gm)

(* Row r's left side less its right side, at the values x: for a node, what is *)
(* drawn from it.                                                              *)
Residual(eqs, r, x) ==
    FoldLeft(LAMBDA sum, c : sum + eqs.a[r][c] * x[c], -eqs.z[r], [c \in DOMAIN x |-> c])

-------------------------------------------------------------------------------
(* Exact fractions.                                                            *)

RECURSIVE Gcd(_, _)
Gcd(m, n) == IF n = 0 THEN m ELSE Gcd(n, m % n)

Magnitude(n) == IF n < 0 THEN -n ELSE n

Fraction(n, d) ==
    LET g == Gcd(Magnitude(n), Magnitude(d))
    IN  [n |-> (IF d < 0 THEN -n ELSE n) \div g, d |-> Magnitude(d) \div g]

Whole(n)  == [n |-> n, d |-> 1]
Less(p, q) == Fraction(p.n * q.d - q.n * p.d, p.d * q.d)
Times(p, q) == Fraction(p.n * q.n, p.d * q.d)
Over(p, q) == Fraction(p.n * q.d, p.d * q.n)
Larger(p, q) == Magnitude(p.n) * q.d > Magnitude(q.n) * p.d

-------------------------------------------------------------------------------
(* DenseSolver.                                                                *)

Unfactored == [ok |-> FALSE, lu |-> <<>>, pivot |-> <<>>]

(* The first of the largest entries of column k, from the diagonal down.       *)
PivotOf(lu, k) ==
    CHOOSE i \in k..Len(lu) :
        /\ \A j \in k..Len(lu) : ~Larger(lu[j][k], lu[i][k])
        /\ \A j \in k..(i - 1) : Larger(lu[i][k], lu[j][k])

Swapped(s, i, j) == [s EXCEPT ![i] = s[j], ![j] = s[i]]

(* Mutant: the rows are swapped and the swap is not recorded.                  *)
EliminatedUnrecorded(f, k) ==
    IF ~f.ok THEN f
    ELSE LET best == PivotOf(f.lu, k)
             lu   == Swapped(f.lu, k, best)
             factor(i) == Over(lu[i][k], lu[k][k])
         IN  IF f.lu[best][k].n = 0 THEN Unfactored
             ELSE [ok |-> TRUE, pivot |-> f.pivot,
                   lu |-> [i \in DOMAIN lu |-> [j \in DOMAIN lu |->
                            IF i <= k \/ j < k THEN lu[i][j]
                            ELSE IF j = k THEN factor(i)
                            ELSE Less(lu[i][j], Times(factor(i), lu[k][j]))]]]

Eliminated(f, k) ==
    IF ~f.ok THEN f
    ELSE LET best == PivotOf(f.lu, k)
             lu   == Swapped(f.lu, k, best)
             factor(i) == Over(lu[i][k], lu[k][k])
         IN  IF f.lu[best][k].n = 0 THEN Unfactored
             ELSE [ok |-> TRUE, pivot |-> Swapped(f.pivot, k, best),
                   lu |-> [i \in DOMAIN lu |-> [j \in DOMAIN lu |->
                            IF i <= k \/ j < k THEN lu[i][j]
                            ELSE IF j = k THEN factor(i)
                            ELSE Less(lu[i][j], Times(factor(i), lu[k][j]))]]]

Factored(a) ==
    LET rows == [i \in DOMAIN a |-> i]
    IN  FoldLeft(Eliminated,
            [ok |-> TRUE, pivot |-> rows, lu |-> [i \in DOMAIN a |-> [j \in DOMAIN a |-> Whole(a[i][j])]]],
            rows)

Rest(f, i, columns, known, start) ==
    FoldLeft(LAMBDA sum, j : IF j \in columns THEN Less(sum, Times(f.lu[i][j], known[j])) ELSE sum,
             start, [j \in DOMAIN f.lu |-> j])

(* Down through L, then up through U.                                          *)
Substituted(f, z) ==
    LET n == Len(f.lu)
        forward[i \in 0..n] ==
            IF i = 0 THEN [j \in 1..n |-> Whole(0)]
            ELSE [forward[i - 1] EXCEPT ![i] =
                    Rest(f, i, 1..(i - 1), forward[i - 1], Whole(z[f.pivot[i]]))]
        back[i \in 1..(n + 1)] ==
            IF i = n + 1 THEN [j \in 1..n |-> Whole(0)]
            ELSE [back[i + 1] EXCEPT ![i] =
                    Over(Rest(f, i, (i + 1)..n, back[i + 1], forward[n][i]), f.lu[i][i])]
    IN  back[1]

-------------------------------------------------------------------------------
MnaInit ==
    /\ equations = NoEquations(Size3) /\ dirty = TRUE /\ factors = Unfactored
    /\ solution = [r \in 1..Size3 |-> Whole(0)] /\ answered = FALSE /\ stamps = 0

(* reset: the matrix is cleared and every node leaks again.                    *)
ClearEquations ==
    /\ equations' = [NoEquations(Size3) EXCEPT
            !.a = [r \in 1..Size3 |-> [c \in 1..Size3 |-> IF r = c /\ r <= NodeCount THEN Gmin ELSE 0]]]
    /\ dirty' = TRUE /\ answered' = FALSE
    /\ UNCHANGED <<factors, solution, stamps>>

Stampings(eqs) ==
    LET ends == {e \in (0..NodeCount) \X (0..NodeCount) : e[1] # e[2]}
    IN  UNION {{Conductance(eqs, e[1], e[2], v), CurrentSource(eqs, e[1], e[2], v),
                Transconductance(eqs, e[1], e[2], e[2], GroundNode, v)} : e \in ends, v \in Values}
          \cup {VoltageSource(eqs, Row(b), e[1], e[2], v) : b \in 1..BranchCount, e \in ends, v \in Values}

(* Any stamp: the factors are stale.                                           *)
Stamp ==
    /\ stamps < MaxStamps /\ stamps' = stamps + 1
    /\ equations' \in Stampings(equations)
    /\ dirty' = TRUE /\ answered' = FALSE
    /\ UNCHANGED <<factors, solution>>

(* solve: factor if something was stamped; a matrix that cannot be factored is *)
(* thrown out, and leaves nothing cached.                                      *)
SolveEquations ==
    /\ IF dirty \/ ~factors.ok THEN factors' = Factored(equations.a) ELSE UNCHANGED factors
    /\ IF factors'.ok
       THEN dirty' = FALSE /\ answered' = TRUE /\ solution' = Substituted(factors', equations.z)
       ELSE UNCHANGED <<dirty, answered, solution>>
    /\ UNCHANGED <<equations, stamps>>

MnaNext == ClearEquations \/ Stamp \/ SolveEquations
MnaSpec == MnaInit /\ [][MnaNext]_mnaVars

-------------------------------------------------------------------------------
(* Whatever was stamped, solved, found singular, cleared and stamped again in  *)
(* between, an answer satisfies every equation as it stands: the pivoting, the *)
(* permutation of the right-hand side and the cached factors lose nothing.     *)
AnswerSolvesTheEquations ==
    answered =>
        \A r \in 1..Size3 :
            FoldLeft(LAMBDA sum, c : Less(sum, Times(Whole(-equations.a[r][c]), solution[c])),
                     Whole(0), [c \in 1..Size3 |-> c])
                = Whole(equations.z[r])
===============================================================================
