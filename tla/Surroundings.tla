---------------------------- MODULE Surroundings ------------------------------
(* The world around the circuit: stimuli on the workspace, what they amount to *)
(* (parts/src/stimulus.ts), what of it reaches a sensor (environment.ts), when *)
(* the page tells the worker (sim/useSimulation.ts), when the worker tells the *)
(* sensors (sim/worker.ts), and what the canvas draws of it (sensing.tsx).     *)
(*                                                                            *)
(* The workspace is a line.  A part's place is its left edge, its middle is    *)
(* half its width further right.                                               *)
EXTENDS Integers, Sequences, FiniteSets, FiniteSetsExt

CONSTANTS
    Places,     \* where on the line a part can be
    Objects,    \* stimulus -> the quantities it emits
    Senses,     \* sensor -> its quantity, range, whether it looks one way, half its width
    Buzzer,     \* where the buzzer of the circuit is
    MaxMoves    \* bound: edits of the project

(* The manifest's state variable: what of the world it is, how far it is felt  *)
(* (0 where it is), and whether from one side only.                            *)
StateVariable ==
    [quantity : {"light", "sound", "temperature", "flame", "motion", "magnet", "distance",
                 "gas", "moisture", "vibration"},
     range : Nat, aimed : BOOLEAN, half : Nat]

ASSUME SurroundingsAssumption ==
    /\ \A s \in DOMAIN Senses : Senses[s] \in StateVariable
    /\ Places \subseteq Nat /\ Buzzer \in Nat /\ MaxMoves \in Nat

VARIABLES
    bench,      \* the project: stimuli and sensors where they are, as they are set
    lastGiven,  \* the fingerprints of what the worker was last given
    letters,    \* what the page told the worker and it has not heard
    lab,        \* the worker: its project, its world, whether a board is built
    buzz,       \* volts across the buzzer
    felt,       \* what each sensor's device holds
    exposed,    \* the sensors the world drives, as the snapshot shows them
    moves, flashed, \* how many edits; whether a sketch was loaded
    sounded     \* ghost: the volts when the world was last applied

surroundVars == <<bench, lastGiven, letters, lab, buzz, felt, exposed, moves, flashed, sounded>>

Sensors == DOMAIN Senses

-------------------------------------------------------------------------------
(* environment.ts.  A radiated quantity halves at the reach; a level of sound  *)
(* stands for the power of two it is the exponent of.                          *)
Combines(q) ==
    CASE q \in {"light", "temperature", "gas"} -> "add"
      [] q \in {"flame", "motion", "magnet", "moisture", "vibration"} -> "max"
      [] q = "sound" -> "sound" [] q = "distance" -> "nearest"
Thins(q) ==
    CASE q \in {"motion", "moisture"} -> "flat" [] q = "magnet" -> "cube"
      [] q = "distance" -> "none" [] OTHER -> "square"

Intensity == 12
Reach     == 2
Quietest  == 4

Apart(x, y) == IF x < y THEN y - x ELSE x - y
Pow(base, n) == base ^ n

Attenuated(source, d) ==
    CASE Thins(source.quantity) = "square" -> (source.intensity * Pow(Reach, 2)) \div (Pow(Reach, 2) + Pow(d, 2))
      [] Thins(source.quantity) = "cube"   -> (source.intensity * Pow(Reach, 3)) \div (Pow(Reach, 3) + Pow(d, 3))
      [] Thins(source.quantity) = "flat"   -> IF d <= Reach THEN source.intensity ELSE 0
      [] Thins(source.quantity) = "none"   -> source.intensity

(* Range and cone are hard; on itself a sensor sees whatever way it faces.     *)
WithinView(source, s, x, facing) ==
    /\ Senses[s].range = 0 \/ Apart(source.x, x) <= Senses[s].range
    /\ Senses[s].aimed /\ source.x # x => (source.x > x <=> facing = "right")

Loudness(power) == Max({n \in 0 .. 10 : Pow(2, n) <= power})

Field(sources, s, x, facing, ambient) ==
    LET q == Senses[s].quantity
        relevant == {c \in sources : c.quantity = q /\ c.active /\ WithinView(c, s, x, facing)}
        arriving(c) == Attenuated(c, Apart(c.x, x))
    IN  CASE relevant = {} -> ambient
          [] relevant # {} /\ Combines(q) = "add" -> ambient + MapThenSumSet(arriving, relevant)
          [] relevant # {} /\ Combines(q) = "max" -> Max({ambient} \cup {arriving(c) : c \in relevant})
          [] relevant # {} /\ Combines(q) = "sound" ->
               LET power(c) == Pow(2, Max({0, c.intensity - Apart(c.x, x)}))
               IN  Loudness(Pow(2, ambient) + MapThenSumSet(power, relevant))
          [] relevant # {} /\ Combines(q) = "nearest" -> Min({Apart(c.x, x) : c \in relevant})

IsDriven(sources, q) == \E c \in sources : c.quantity = q /\ c.active

Contribution(c, x) ==
    IF ~c.active THEN 0 ELSE IF Combines(c.quantity) = "nearest" THEN c.intensity
    ELSE Attenuated(c, Apart(c.x, x))
Reaches(c, x) == c.active /\ Contribution(c, x) * 100 > c.intensity

-------------------------------------------------------------------------------
(* What the stimuli amount to; one that is switched off stays and is inactive. *)
EnvironmentSources(objects) ==
    UNION {{[id |-> o, quantity |-> q, x |-> objects[o].x, intensity |-> Intensity, active |-> objects[o].on] :
                q \in Objects[o]} : o \in DOMAIN objects}

(* A buzzer is a sound where it stands, fainter when less drives it.            *)
CircuitEmissions(volts) ==
    IF volts < 1 THEN {}
    ELSE {[id |-> "buzzer", quantity |-> "sound", x |-> Buzzer, active |-> TRUE,
           intensity |-> IF volts >= 5 THEN Quietest + 2 ELSE Quietest]}

Most == 40
Clamped(n) == Max({0, Min({n, Most})})

(* applyEnvironment: only a sensor whose quantity is about is written to.      *)
World(l, volts) == l.sources \cup CircuitEmissions(volts)
Touched(l, volts) == {s \in Sensors : IsDriven(World(l, volts), Senses[s].quantity)}
AppliedTo(l, volts, held) ==
    [s \in Sensors |->
        IF s \notin Touched(l, volts) THEN held[s]
        ELSE LET p == l.sensors[s]
             IN  Clamped(Field(World(l, volts), s, p.x, p.facing, p.ambient))]

Apply(l, volts, held) ==
    IF l.built THEN felt' = AppliedTo(l, volts, held) /\ exposed' = Touched(l, volts) /\ sounded' = volts
    ELSE felt' = held /\ exposed' = {} /\ UNCHANGED sounded

(* rebuild: new devices, at their own settings, in the world as it is.         *)
Own(sensors) == [s \in Sensors |-> sensors[s].ambient]
(* Mutant: the world waits for its next change.                                *)
RebuiltInAlone(l) == felt' = Own(l.sensors) /\ exposed' = {} /\ sounded' = 0

RebuiltIn(l) == Apply(l, 0, Own(l.sensors))

SurroundInit ==
    /\ bench = [objects |-> <<>>,
                sensors |-> [s \in Sensors |-> [x |-> Min(Places), facing |-> "right", ambient |-> 1]]]
    /\ lastGiven = bench
    /\ letters = <<[says |-> "loadProject", sensors |-> bench.sensors],
                   [says |-> "setEnvironment", sources |-> {}]>>
    /\ lab = [sensors |-> bench.sensors, sources |-> {}, built |-> FALSE]
    /\ moves = 0 /\ flashed = FALSE
    /\ buzz = 0 /\ felt = Own(bench.sensors) /\ exposed = {} /\ sounded = 0

(* The page's two effects after an edit: each tells the worker of its own half *)
(* of the project, when that is not what it told last.                         *)
Told(b) ==
    (IF b.sensors # lastGiven.sensors THEN <<[says |-> "loadProject", sensors |-> b.sensors]>> ELSE <<>>)
    \o (IF b.objects # lastGiven.objects
        THEN <<[says |-> "setEnvironment", sources |-> EnvironmentSources(b.objects)]>> ELSE <<>>)

Becomes(b) ==
    /\ moves < MaxMoves /\ moves' = moves + 1
    /\ bench' = b /\ lastGiven' = b /\ letters' = letters \o Told(b)
    /\ UNCHANGED <<lab, buzz, felt, exposed, flashed, sounded>>

PlaceObject ==
    \E o \in DOMAIN Objects, x \in Places, on \in BOOLEAN :
        Becomes([bench EXCEPT !.objects = [n \in DOMAIN @ \cup {o} |-> IF n = o THEN [x |-> x, on |-> on] ELSE @[n]]])
RemoveObject ==
    \E o \in DOMAIN bench.objects :
        Becomes([bench EXCEPT !.objects = [n \in DOMAIN @ \ {o} |-> @[n]]])
SetSensor ==
    \E s \in Sensors, x \in Places, facing \in {"left", "right"}, ambient \in {1, 3} :
        Becomes([bench EXCEPT !.sensors[s] = [x |-> x, facing |-> facing, ambient |-> ambient]])

(* A compiled sketch is loaded with the project, which builds the first board. *)
LoadSketch ==
    /\ ~flashed /\ flashed' = TRUE
    /\ letters' = Append(letters, [says |-> "load", sensors |-> bench.sensors])
    /\ lastGiven' = [lastGiven EXCEPT !.sensors = bench.sensors]
    /\ UNCHANGED <<bench, lab, moves, buzz, felt, exposed, sounded>>

HearLetter ==
    /\ letters # <<>> /\ letters' = Tail(letters)
    /\ LET m == Head(letters)
           l == IF m.says = "setEnvironment" THEN [lab EXCEPT !.sources = m.sources]
                ELSE [lab EXCEPT !.sensors = m.sensors, !.built = @ \/ m.says = "load"]
       IN  /\ lab' = l
           /\ IF m.says = "setEnvironment" \/ ~l.built
              THEN Apply(l, buzz, felt) /\ UNCHANGED buzz
              ELSE RebuiltIn(l) /\ buzz' = 0
    /\ UNCHANGED <<bench, lastGiven, moves, flashed>>

(* tick: the world first, and then the circuit runs on.                        *)
TickWorld ==
    /\ lab.built
    /\ Apply(lab, buzz, felt)
    /\ buzz' \in {0, 3, 5}
    /\ UNCHANGED <<bench, lastGiven, letters, lab, moves, flashed>>

SurroundNext == PlaceObject \/ RemoveObject \/ SetSensor \/ LoadSketch \/ HearLetter \/ TickWorld
SurroundSpec == SurroundInit /\ [][SurroundNext]_surroundVars

-------------------------------------------------------------------------------
(* Whatever was edited, dragged or rebuilt in whatever order: once the worker  *)
(* has heard everything, a sensor that the stimuli on the canvas drive holds   *)
(* what they amount to where it stands, with the buzzer as it last sounded.    *)
Around == EnvironmentSources(bench.objects) \cup CircuitEmissions(sounded)

SensorsReadTheWorld ==
    letters = <<>> /\ lab.built =>
        \A s \in Sensors :
            LET p == bench.sensors[s]
            IN  IsDriven(Around, Senses[s].quantity) =>
                    felt[s] = Clamped(Field(Around, s, p.x, p.facing, p.ambient))

(* What sensing.tsx says of the lines it draws: a line means that source is    *)
(* measurably reaching that sensor, and no line means nothing is.              *)
Linked(c, s) ==
    LET p == bench.sensors[s]
        middle == p.x + Senses[s].half
    IN  /\ c.quantity = Senses[s].quantity /\ Reaches(c, middle)
        /\ WithinView(c, s, middle, p.facing)
        /\ c.quantity = "distance" => s \in exposed
        /\ Contribution(c, middle) # 0

Sensed(c, s) ==
    LET p == bench.sensors[s]
    IN  /\ c.quantity = Senses[s].quantity /\ c.active
        /\ WithinView(c, s, p.x, p.facing)
        /\ Attenuated(c, Apart(c.x, p.x)) * 100 > c.intensity

DrawnIsSensed ==
    letters = <<>> /\ lab.built =>
        \A c \in EnvironmentSources(bench.objects), s \in Sensors : Linked(c, s) <=> Sensed(c, s)
===============================================================================
