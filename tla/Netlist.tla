------------------------------- MODULE Netlist --------------------------------
(* From what is drawn to circuit nodes: the union-find of                      *)
(* sim-core/src/netlist/netlist.ts, the strips of netlist/breadboard.ts, and   *)
(* the order in which parts/src/build.ts fills and resolves it.                *)
(*                                                                            *)
(* A terminal is <<column, row>> on the breadboard, <<column, "rail">> on its  *)
(* power rail, <<0, name>> on any other part.  A circuit node is known by the  *)
(* terminal its net is known by, when it is allocated.                         *)
EXTENDS Integers, Sequences, SequencesExt, FiniteSets

CONSTANTS
    Columns, Upper, Lower,  \* the breadboard: columns, the rows on each side
    Segments,               \* into how many pieces a power rail is broken
    Pins,                   \* pins of the Uno
    GroundPins,             \* those that are ground
    Legs,                   \* pins of the other parts
    Ghosts,                 \* pins of parts nobody knows the type of
    WireEnds, MaxWires      \* bounds: where wires end, how many there are

(* A column has a strip on either side of the channel, of two rows or more.    *)
(* Terminals are known by the part they are on, so a pin is of one part, and   *)
(* none is taken for the ground of the circuit.                                *)
ASSUME NetlistAssumption ==
    /\ Columns \in Nat /\ Segments \in Nat \ {0} /\ MaxWires \in Nat
    /\ Upper \in Seq(ToSet(Upper)) /\ Len(Upper) > 1
    /\ Lower \in Seq(ToSet(Lower)) /\ Len(Lower) > 1
    /\ ToSet(Upper) \cap ToSet(Lower) = {} /\ "rail" \notin ToSet(Upper) \cup ToSet(Lower)
    /\ GroundPins \subseteq Pins
    /\ Ghosts \cap (Pins \cup Legs) = {} /\ "0" \notin Pins \cup Legs

VARIABLES
    parts,      \* the parts that have not been declared yet
    forest,     \* parent and size, of every terminal declared
    grounded,
    wires,      \* the wires of the project, as far as they have been gone through
    nodes,      \* what was resolved: terminal to node
    resolved

netVars == <<parts, forest, grounded, wires, nodes, resolved>>

Pin(name) == <<0, name>>
Hole(column, row) == <<column, row>>
Ground == Pin("0")

-------------------------------------------------------------------------------
(* Union-find.                                                                 *)

(* add, of one terminal or of several: what is there already stays as it is.   *)
Add(f, new) ==
    LET old == DOMAIN f.parent
    IN  [parent |-> [u \in old \cup new |-> IF u \in old THEN f.parent[u] ELSE u],
         size   |-> [u \in old \cup new |-> IF u \in old THEN f.size[u] ELSE 1]]

Root(f, t) ==
    LET climb[u \in DOMAIN f.parent] == IF f.parent[u] = u THEN u ELSE climb[f.parent[u]]
    IN  climb[t]

(* find: everything on the way is pointed at the root.                         *)
Compressed(f, t) ==
    LET way[u \in DOMAIN f.parent] == {u} \cup (IF f.parent[u] = u THEN {} ELSE way[f.parent[u]])
    IN  [f EXCEPT !.parent = [u \in DOMAIN @ |-> IF u \in way[t] THEN Root(f, t) ELSE @[u]]]

(* connect.                                                                    *)
(* Mutant: the terminals are joined, not the nets they are on.                 *)
JoinedDirectly(f, a, b) ==
    LET g == Add(f, {a, b})
    IN  IF Root(g, a) = Root(g, b) THEN g ELSE [g EXCEPT !.parent[b] = Root(g, a)]

Joined(f, a, b) ==
    LET g     == Compressed(Compressed(Add(f, {a, b}), a), b)
        one   == Root(g, a)
        other == Root(g, b)
        large == IF g.size[one] >= g.size[other] THEN one ELSE other
        small == IF large = one THEN other ELSE one
    IN  IF one = other THEN g
        ELSE [g EXCEPT !.parent[small] = large, !.size[large] = g.size[one] + g.size[other]]

(* connectAll: the first of a run to each of the others.                       *)
JoinedAll(f, run) ==
    LET joined[i \in 0 .. Len(run) - 1] ==
            IF i = 0 THEN f ELSE Joined(joined[i - 1], run[1], run[i + 1])
    IN  joined[Len(run) - 1]

-------------------------------------------------------------------------------
(* The breadboard's strips.                                                    *)

RailSegmentOf(column) ==
    LET segment == ((column - 1) * Segments) \div Columns
    IN  IF segment >= Segments THEN Segments - 1 ELSE segment

(* No piece of rail is a single hole.                                          *)
ASSUME RailAssumption ==
    \A c \in 1 .. Columns : \E d \in 1 .. Columns : d # c /\ RailSegmentOf(d) = RailSegmentOf(c)

(* The hole of a piece of rail that the others of it are joined to.            *)
FirstOfRail(column) ==
    Hole(Min({c \in 1 .. column : RailSegmentOf(c) = RailSegmentOf(column)}), "rail")

Strip(column, rows) == [i \in DOMAIN rows |-> Hole(column, rows[i])]

(* addBreadboard: two strips for every column, one for every piece of rail     *)
(* (the columns of a piece follow each other, so piece by piece is in order).  *)
WithColumn(f, column) == JoinedAll(JoinedAll(f, Strip(column, Upper)), Strip(column, Lower))
WithRail(f, column) ==
    LET first == FirstOfRail(column)
        hole  == Hole(column, "rail")
    IN  IF hole = first THEN f ELSE Joined(f, first, hole)

WithColumns(f) ==
    LET with[c \in 0 .. Columns] == IF c = 0 THEN f ELSE WithColumn(with[c - 1], c)
    IN  with[Columns]

WithRails(f) ==
    LET with[c \in 0 .. Columns] == IF c = 0 THEN f ELSE WithRail(with[c - 1], c)
    IN  with[Columns]

WithStrips(f) == WithRails(WithColumns(f))

-------------------------------------------------------------------------------
(* buildCircuit.                                                               *)

Empty == [parent |-> [t \in {} |-> t], size |-> [t \in {} |-> 0]]

NetInit ==
    /\ parts = {"board", "uno", "part"} /\ forest = Empty
    /\ grounded = {} /\ wires = {} /\ nodes = [t \in {} |-> t] /\ resolved = FALSE

WithPins(f, names) == Add(f, {Pin(n) : n \in names})

(* 1. Every terminal of every part.                                            *)
Declare(part) ==
    /\ part \in parts /\ parts' = parts \ {part}
    /\ \/ part = "board" /\ forest' = WithStrips(forest) /\ UNCHANGED grounded
       \/ part = "uno" /\ forest' = WithPins(forest, Pins) /\ grounded' = {Pin(n) : n \in GroundPins}
       \/ part = "part" /\ forest' = WithPins(forest, Legs) /\ UNCHANGED grounded
    /\ UNCHANGED <<wires, nodes, resolved>>

Holes == {Hole(c, r) : c \in 1 .. Columns, r \in ToSet(Upper) \cup ToSet(Lower) \cup {"rail"}}
Terminals == Holes \cup {Pin(n) : n \in Pins \cup Legs \cup Ghosts}

(* 2. A wire, left out when an end of it is nowhere.                           *)
Wire(a, b) ==
    /\ parts = {} /\ ~resolved /\ Cardinality(wires) < MaxWires
    /\ <<a, b>> \notin wires
    /\ wires' = wires \cup {<<a, b>>}
    /\ forest' = (IF {a, b} \subseteq DOMAIN forest.parent THEN Joined(forest, a, b) ELSE forest)
    /\ UNCHANGED <<parts, grounded, nodes, resolved>>

(* 3. resolve: a node for every net with something plugged in, ground first.   *)
(* What its finds compress is never read again.                                *)
Live == {Pin(n) : n \in Pins \cup Legs} \cup UNION {{w[1], w[2]} : w \in wires}

Resolution ==
    LET declared == DOMAIN forest.parent
        ground   == {Root(forest, t) : t \in grounded}
        live     == ground \cup {Root(forest, t) : t \in Live \cap declared}
    IN  [t \in {u \in declared : Root(forest, u) \in live} |->
            IF Root(forest, t) \in ground THEN Ground ELSE Root(forest, t)]

Resolve ==
    /\ parts = {} /\ ~resolved /\ resolved' = TRUE
    /\ nodes' = Resolution
    /\ UNCHANGED <<parts, forest, grounded, wires>>

NetNext ==
    \/ \E part \in parts : Declare(part)
    \/ \E a, b \in WireEnds : Wire(a, b)
    \/ Resolve

NetSpec == NetInit /\ [][NetNext]_netVars

-------------------------------------------------------------------------------
(* What touches what on the desk.                                              *)
SameStrip(a, b) ==
    /\ {a, b} \subseteq Holes
    /\ \/ a[1] = b[1] /\ ({a[2], b[2]} \subseteq ToSet(Upper) \/ {a[2], b[2]} \subseteq ToSet(Lower))
       \/ a[2] = "rail" /\ b[2] = "rail" /\ RailSegmentOf(a[1]) = RailSegmentOf(b[1])

Present == Terminals \ {Pin(n) : n \in Ghosts}

Near(a, b) == SameStrip(a, b) \/ <<a, b>> \in wires \/ <<b, a>> \in wires

(* The pieces of metal, each grown from a terminal as far as it touches.       *)
Wider(piece) == piece \cup {u \in Present \ piece : \E t \in piece : Near(t, u)}
Piece(t) ==
    LET grown[i \in 0 .. 2 * MaxWires + 1] == IF i = 0 THEN {t} ELSE Wider(grown[i - 1])
    IN  grown[2 * MaxWires + 1]
Pieces == {Piece(t) : t \in Present}

(* Two terminals are one node of the circuit exactly if there is metal all the *)
(* way between them, or to ground from both, in whatever order the parts and   *)
(* wires were gone through; and whatever is plugged in has a node.             *)
NodesAreAsWired ==
    resolved =>
        LET plugged == {m \in Pieces : m \cap (Live \cup grounded) # {}}
            earthed == {m \in plugged : m \cap grounded # {}}
        IN  /\ DOMAIN nodes = UNION plugged
            /\ \A m, n \in plugged : \A a \in m, b \in n :
                 nodes[a] = nodes[b] <=> m = n \/ {m, n} \subseteq earthed
            /\ \A m \in plugged : \A a \in m : nodes[a] = Ground <=> m \in earthed
===============================================================================
