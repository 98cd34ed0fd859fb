----------------------------- MODULE MCComponents -----------------------------
(* The components that share no state, each on its own: `machine' says which   *)
(* of them a behaviour is of.                                                  *)
EXTENDS Simulation, SerialLine, Capture, ScopePanel, Solver, Buses, Netlist, Analog, Inputs, PartBehavior,
    Surroundings, BoardPins, Meters, CanvasGestures, Service, Limiter, Compiler, Installer

CONSTANT Machines   \* the components that are explored

VARIABLE machine

(* A display that is streamed to and a sensor that has addresses; registers of *)
(* one byte that can be written, and of two bytes that show what is measured.  *)
MCSpiOrder == <<"oled", "adxl">>
MCSpecs ==
    {[address |-> 0, bytes |-> 1, reset |-> 1, readOnly |-> FALSE, fromState |-> FALSE],
     [address |-> 1, bytes |-> 2, reset |-> 0, readOnly |-> TRUE, fromState |-> TRUE]}

(* Wires between a strip, both ends of a rail that is in two pieces, the Uno,  *)
(* an LED and a part of an unknown type.                                       *)
MCUpper == <<"A", "B">>
MCLower == <<"F", "G">>
MCWireEnds ==
    {Hole(1, "A"), Hole(2, "rail"), Hole(3, "rail"), Pin("gnd"), Pin("led"), Pin("ghost")}

(* A release with a migration more is rolled out beside the old one.           *)
MCRelease == [i \in Instances |-> IF i = "old" THEN 1 ELSE 2]

(* An address has more attempts than an account.                               *)
MCLimit == [s \in Subjects |-> IF s = Account THEN 1 ELSE 2]

(* Nothing brought along; a mail server, and a password with no value; another *)
(* password.                                                                   *)
MCPasswords == <<"made1", "made2">>
MCSeeds ==
    {<<>>, <<<<"SMTP_HOST", "smtp">>, <<"POSTGRES_PASSWORD", "">>>>, <<<<"POSTGRES_PASSWORD", "own">>>>}

MCVolts == -1..2

(* A manifest of each behaviour that passes, as a model may misread it: a pin  *)
(* or a state that is not there, figures no part has, an empty range; with a    *)
(* pin too many or too few, and drawn off its body.                            *)
PinAt(name, model, x) == PinOf(name, model, "", "sound", x)
Faultless(behavior) ==
    LET roles == Roles[behavior]
    IN  [id |-> "fresh", behavior |-> behavior, figures |-> "sound", range |-> "sound", width |-> 30,
         states |-> {"level"}, reads |-> "level", uses |-> [r \in ToSet(roles) |-> r],
         pins |-> <<PinAt("vcc", "power", 0), PinAt("gnd", "ground", 5)>>
                    \o [i \in DOMAIN roles |-> PinAt(roles[i], "digital-out", 5 + 5 * i)]]
Misread(m) ==
    {[m EXCEPT !.uses[r] = name] : r \in DOMAIN m.uses,
        name \in {"ghost"} \cup {Roles[m.behavior][i] : i \in {1} \cap DOMAIN Roles[m.behavior]}}
    \cup {[m EXCEPT !.reads = "ghost"], [m EXCEPT !.figures = "absurd"], [m EXCEPT !.range = "empty"]}
Drawn(m) ==
    {[m EXCEPT !.pins = Append(@, PinOf(name, model, to, figures, 30))] :
        name \in {"extra", "vcc"}, model \in {"passive", "led"}, to \in {"vcc", "extra", "ghost"},
        figures \in {"sound", "absurd"}}
    \cup {[m EXCEPT !.pins = Tail(@)]}
    \cup {[m EXCEPT !.width = w, !.pins[1].x = x] : w \in {1, 22}, x \in {-5, 0}}
MCDrafts ==
    UNION {Misread(Faultless(b)) : b \in Behaviors} \cup Drawn(Faultless("threshold-switch"))
    \cup {[Faultless("pulse-echo") EXCEPT !.id = "hc-sr04"], [Faultless("pulse-echo") EXCEPT !.id = "led"]}
MCShipped == {[Faultless("pulse-echo") EXCEPT !.id = "hc-sr04", !.width = 45]}

(* A flame, and what a thief would trip; a light sensor, a motion sensor and a *)
(* ranger that look one way, and a microphone.                                 *)
MCObjects == [o \in {"flame", "mover"} |-> IF o = "flame" THEN {"light", "gas"} ELSE {"motion", "distance"}]
MCSenses ==
    [s \in {"ldr", "pir", "ranger", "ear"} |->
        CASE s = "ldr"    -> [quantity |-> "light", range |-> 0, aimed |-> FALSE, half |-> 0]
          [] s = "pir"    -> [quantity |-> "motion", range |-> 3, aimed |-> TRUE, half |-> 1]
          [] s = "ranger" -> [quantity |-> "distance", range |-> 3, aimed |-> TRUE, half |-> 1]
          [] s = "ear"    -> [quantity |-> "sound", range |-> 0, aimed |-> FALSE, half |-> 0]]

(* Two pins: the transmitter, free or held by what it is wired to, and one of  *)
(* an I2C bus that lacks its pull-up.                                          *)
MCPortOf  == [h \in Headers |-> IF h = "A4" THEN "C" ELSE "D"]
Ends(tx, bus) == [h \in Headers |-> IF h = "A4" THEN bus ELSE tx]
EndsOpen  == Ends("nothing", "divider")
MCWirings == {Ends("ground", "capacitor"), Ends("supply", "supply"), EndsOpen}

MCPushed  == {-3, 1, 150}
MCSources == {-12, 0, 6, 24}

(* A file of data, some of it past the end, between address records; lines     *)
(* that do not add up, that are shorter than they say, of a type unknown here. *)
HexRecord(type, count, address, value) ==
    [type |-> type, count |-> count, address |-> address, value |-> value, carries |-> count, sums |-> TRUE]
MCRecords ==
    {HexRecord("data", p[1], p[2], 0) : p \in {<<2, 0>>, <<2, 1>>, <<1, 4>>, <<0, 3>>, <<1, 5>>}}
    \cup {HexRecord(p[1], p[2], 0, p[3]) :
            p \in {<<"end", 0, 0>>, <<"start", 2, 0>>, <<"segment", 2, 1>>, <<"segment", 1, 1>>,
                   <<"linear", 2, 1>>, <<"linear", 2, 3>>}}
    \cup {[HexRecord("data", 2, 0, 0) EXCEPT !.sums = FALSE], [HexRecord("data", 2, 0, 0) EXCEPT !.carries = 1]}

(* A sketch of each outcome; two requests at once.                             *)
MCQuality ==
    [s \in {"blink", "typo", "nolink", "..x"} |->
        CASE s = "blink" -> "sound" [] s = "typo" -> "faulty" [] s = "nolink" -> "unlinkable" [] s = "..x" -> "misnamed"]

(* The second circuit has an oscilloscope.                                     *)
MCChannelsOf == <<{"D1"}, {"D1", "probe"}>>
MCSelections == {{"D1"}, {"probe"}}

boardVars   == <<simVars, serialVars, busVars, pinVars, captureVars, panelVars>>
circuitVars == <<solverVars, mnaVars, analogVars, netVars, meterVars>>
hostVars    == <<serviceVars, limiterVars, compilerVars, installerVars>>
shelfVars   == <<libraryVars, partVars, surroundVars, hexVars, gestureVars>>

MCInit ==
    /\ machine \in Machines
    /\ IF machine = "simulation" THEN TRUE ELSE canvas = 1
    /\ IF machine = "analog" THEN TRUE ELSE kind = "resistor"
    /\ IF machine = "pins" THEN TRUE ELSE tie = EndsOpen /\ breakpointFlags = {}
    /\ IF machine = "meters" THEN TRUE
       ELSE dial = "volts" /\ jack = "mA" /\ push = 1 /\ emf = 0 /\ behind = 0 /\ blown = FALSE
    /\ IF machine = "capture" THEN TRUE ELSE half = 0 /\ clipped = FALSE
    /\ IF machine = "panel" THEN TRUE ELSE there = FALSE
    /\ IF machine = "part" THEN TRUE ELSE conduct = "analog-sensor" /\ sensed = 0
    /\ SimInit /\ SerialInit /\ PinsInit /\ BusesInit /\ CaptureInit /\ PanelInit
    /\ SolverInit /\ NetInit /\ MnaInit /\ AnalogInit /\ MetersInit
    /\ LibraryInit /\ PartInit /\ SurroundInit /\ HexInit /\ GesturesInit
    /\ ServiceInit /\ LimiterInit /\ CompilerInit /\ InstallerInit
    /\ \A d \in SpiDevices : level[d] = "high"
    /\ machine = "installer" \/ server.packages = {}

Boards     == UNCHANGED <<captureVars, panelVars>>
Simulating == SimNext /\ UNCHANGED <<serialVars, busVars, pinVars>> /\ Boards
Sending    == SerialNext /\ UNCHANGED <<simVars, busVars, pinVars>> /\ Boards
Talking    == UNCHANGED <<simVars, serialVars, pinVars>> /\ Boards
Pinning    == PinsNext /\ UNCHANGED <<simVars, serialVars, busVars>> /\ Boards
Capturing  == CaptureNext /\ UNCHANGED <<simVars, serialVars, busVars, pinVars, panelVars>>
Scoping    == PanelNext /\ UNCHANGED <<simVars, serialVars, busVars, pinVars, captureVars>>
SolvingIt  == SolverNext /\ UNCHANGED <<mnaVars, analogVars, netVars, meterVars>>
Wiring     == NetNext /\ UNCHANGED <<solverVars, mnaVars, analogVars, meterVars>>
Factoring  == MnaNext /\ UNCHANGED <<solverVars, analogVars, netVars, meterVars>>
Stamping   == AnalogNext /\ UNCHANGED <<solverVars, mnaVars, netVars, meterVars>>
Metering   == MetersNext /\ UNCHANGED <<solverVars, mnaVars, analogVars, netVars>>

Boarding ==
    /\ UNCHANGED <<circuitVars, shelfVars, hostVars>>
    /\ \/ machine = "simulation" /\ Simulating
       \/ machine = "serial" /\ Sending
       \/ machine = "spi" /\ SpiNext /\ Talking
       \/ machine = "i2c" /\ (I2cNext \/ Measure) /\ Talking
       \/ machine = "pins" /\ Pinning
       \/ machine = "capture" /\ Capturing
       \/ machine = "panel" /\ Scoping

Circuiting ==
    /\ UNCHANGED <<boardVars, shelfVars, hostVars>>
    /\ \/ machine = "solver" /\ SolvingIt
       \/ machine = "netlist" /\ Wiring
       \/ machine = "mna" /\ Factoring
       \/ machine = "analog" /\ Stamping
       \/ machine = "meters" /\ Metering

Hosting ==
    /\ UNCHANGED <<boardVars, circuitVars, shelfVars>>
    /\ \/ machine = "service" /\ ServiceNext /\ UNCHANGED <<limiterVars, compilerVars, installerVars>>
       \/ machine = "limiter" /\ LimiterNext /\ UNCHANGED <<serviceVars, compilerVars, installerVars>>
       \/ machine = "compiler" /\ CompilerNext /\ UNCHANGED <<serviceVars, limiterVars, installerVars>>
       \/ machine = "installer" /\ InstallerNext /\ UNCHANGED <<serviceVars, limiterVars, compilerVars>>

Collecting ==
    /\ UNCHANGED <<boardVars, circuitVars, hostVars>>
    /\ \/ machine = "library" /\ LibraryNext /\ UNCHANGED <<partVars, surroundVars, hexVars, gestureVars>>
       \/ machine = "part" /\ PartNext /\ UNCHANGED <<libraryVars, surroundVars, hexVars, gestureVars>>
       \/ machine = "surroundings" /\ SurroundNext /\ UNCHANGED <<libraryVars, partVars, hexVars, gestureVars>>
       \/ machine = "hex" /\ HexNext /\ UNCHANGED <<libraryVars, partVars, surroundVars, gestureVars>>
       \/ machine = "gestures" /\ GesturesNext /\ UNCHANGED <<libraryVars, partVars, surroundVars, hexVars>>

MCNext == UNCHANGED machine /\ (Boarding \/ Circuiting \/ Hosting \/ Collecting)

MCSpec == MCInit /\ [][MCNext]_<<machine, boardVars, circuitVars, shelfVars, hostVars>>
-------------------------------------------------------------------------------
(* What is captured is what went over the line, and what is drawn and heard of *)
(* it is what was captured.                                                    *)
TracesAreTheSignal == DecodedIsSent /\ CaptureIsTheSignal /\ PanelSettles

(* What the solver answers is a solution, of the equations that were stamped   *)
(* and of the circuit itself rather than of one that was made easier for it.   *)
SolvedAreTheCircuits == AnswersAreOfTheRealCircuit /\ AnswerSolvesTheEquations

(* The elements of the circuit, a meter among them, do what their data sheets  *)
(* say and report what flows in them.                                          *)
ElementsAreHonest == DevicesAreHonest /\ MetersAreHonest
===============================================================================
