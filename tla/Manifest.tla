------------------------------- MODULE Manifest --------------------------------
(* Component manifests (parts/src): what a manifest may say (manifest.ts), what *)
(* validateManifest refuses (manifest-validate.ts), and what the runtime builds *)
(* of one (manifest-runtime.ts).  Of the electrical figures a manifest holds    *)
(* for a pin or a behaviour, only how a check takes them is kept: "sound", or   *)
(* "absurd" for figures no part has.  Lengths are in fifths of a pitch or so.   *)
EXTENDS Integers, Sequences, SequencesExt, FiniteSets, FiniteSetsExt

PinModels == {"power", "ground", "digital-in", "digital-out", "analog-in", "analog-out", "passive", "led", "nc"}

(* The pins each behaviour names.                                              *)
Roles == [behavior \in
    {"passive", "analog-sensor", "variable-resistor", "i2c-peripheral", "spi-peripheral", "regulator",
     "pulse-echo", "pwm-actuator", "transistor", "mosfet", "op-amp", "diode", "capacitor", "source",
     "potentiometer", "threshold-switch"} |->
    CASE behavior = "analog-sensor"     -> <<"outputPin">>
      [] behavior = "variable-resistor" -> <<"pinA", "pinB">>
      [] behavior = "i2c-peripheral"    -> <<"sdaPin", "sclPin">>
      [] behavior = "spi-peripheral"    -> <<"mosiPin", "misoPin", "sckPin", "csPin">>
      [] behavior = "regulator"         -> <<"inputPin", "outputPin", "groundPin">>
      [] behavior = "pulse-echo"        -> <<"triggerPin", "echoPin">>
      [] behavior = "pwm-actuator"      -> <<"signalPin">>
      [] behavior = "transistor"        -> <<"collectorPin", "basePin", "emitterPin">>
      [] behavior = "mosfet"            -> <<"drainPin", "gatePin", "sourcePin">>
      [] behavior = "op-amp"            -> <<"nonInvertingPin", "invertingPin", "outputPin",
                                             "positiveRailPin", "negativeRailPin">>
      [] behavior = "diode"             -> <<"anodePin", "cathodePin">>
      [] behavior = "capacitor"         -> <<"pinA", "pinB">>
      [] behavior = "source"            -> <<"positivePin", "negativePin">>
      [] behavior = "potentiometer"     -> <<"terminalAPin", "wiperPin", "terminalBPin">>
      [] behavior = "threshold-switch"  -> <<"outputPin">>
      [] OTHER                          -> <<>>]

Behaviors == DOMAIN Roles

(* A manifest: its pins in order ([name, model, to, figures, x]), the pin that  *)
(* plays each role, the states it declares and the one its behaviour reads.     *)
PinOf(name, model, to, figures, x) == [name |-> name, model |-> model, to |-> to, figures |-> figures, x |-> x]

(* What the schema lets through, before anything is validated.  Two nodes are   *)
(* no pins: the ground that an unknown name falls through to, and the one that  *)
(* a pin's own model is wired to.                                              *)
GROUND == "GROUND"
RETURN == "RETURN"
PinNames == STRING \ {GROUND, RETURN}

PinSchema == [name : PinNames, model : PinModels, to : STRING, figures : {"sound", "absurd"}, x : Int]

IsManifest(m) ==
    /\ m.pins \in Seq(PinSchema)
    /\ m.pins # <<>>
    /\ m.behavior \in Behaviors
    /\ m.width \in Int

Named(m) == {m.pins[i].name : i \in DOMAIN m.pins}
Playing(m) == {m.uses[r] : r \in ToSet(Roles[m.behavior])}

-------------------------------------------------------------------------------
(* validateManifest: the errors, by the path they are reported at.  Warnings   *)
(* do not keep a manifest out and are left out.                                *)

DuplicateNames(m) ==
    {<<"pins", i>> : i \in {i \in DOMAIN m.pins : \E j \in 1..(i - 1) : m.pins[j].name = m.pins[i].name}}

(* requirePin and requireState.                                                *)
Dangling(m) ==
    {<<"behavior", r>> : r \in {r \in ToSet(Roles[m.behavior]) : m.uses[r] \notin Named(m)}}
    \cup (IF m.reads \notin m.states \cup {"none"} THEN {<<"behavior", "state">>} ELSE {})

(* Mutant: where a passive or an LED leads is not looked up.                   *)
PinErrorsUnchecked(m) ==
    UNION {LET pin == m.pins[i]
           IN  IF \/ pin.model \in {"power", "digital-in", "digital-out", "passive", "led"} /\ pin.figures = "absurd"
                  \/ pin.model = "passive" /\ pin.to = pin.name
               THEN {<<"model", i>>} ELSE {} : i \in DOMAIN m.pins}

PinErrors(m) ==
    UNION {LET pin == m.pins[i]
           IN  IF \/ pin.model \in {"power", "digital-in", "digital-out", "passive", "led"} /\ pin.figures = "absurd"
                  \/ pin.model \in {"passive", "led"} /\ pin.to \notin Named(m)
                  \/ pin.model = "passive" /\ pin.to = pin.name
               THEN {<<"model", i>>} ELSE {} : i \in DOMAIN m.pins}

HasModel(m, model) == \E i \in DOMAIN m.pins : m.pins[i].model = model

(* What is wired into someone else's circuit has no supply of its own.         *)
NeedsSupply(m) ==
    m.behavior \notin {"passive", "variable-resistor", "transistor", "mosfet", "potentiometer", "diode", "capacitor"}

SupplyErrors(m) ==
    IF NeedsSupply(m) THEN {<<"pins", model>> : model \in {s \in {"power", "ground"} : ~HasModel(m, s)}} ELSE {}

(* The behaviours whose pins must be different ones, and those whose figures   *)
(* are refused and not only warned about.                                      *)
MustDiffer ==
    {"variable-resistor", "spi-peripheral", "regulator", "transistor", "mosfet", "source", "potentiometer",
     "diode", "capacitor"}
Weighed == {"i2c-peripheral", "regulator", "pwm-actuator", "transistor", "mosfet", "op-amp", "source"}

BehaviorErrors(m) ==
    Dangling(m)
    \cup (IF m.behavior \in MustDiffer /\ Cardinality(Playing(m)) # Len(Roles[m.behavior])
          THEN {<<"behavior", "pins">>} ELSE {})
    \cup (IF m.behavior \in Weighed /\ m.figures = "absurd" THEN {<<"behavior", "figures">>} ELSE {})

(* A range that is empty or that the default is outside of; absolute maxima    *)
(* that contradict each other.                                                 *)
RangeErrors(m) == IF m.range # "sound" THEN {<<m.range>>} ELSE {}

Errors(m) == DuplicateNames(m) \cup PinErrors(m) \cup SupplyErrors(m) \cup RangeErrors(m) \cup BehaviorErrors(m)

Valid(m) == Errors(m) = {}

-------------------------------------------------------------------------------
(* normaliseLayout and centreHorizontally.                                     *)

PitchMm == 5
MarginMm == 2
MinBody == 6

Lefts(xs)  == Min(ToSet(xs))
Rights(xs) == Max(ToSet(xs))
Shifted(xs, by) == [i \in DOMAIN xs |-> xs[i] + by]

Centred(xs, body) ==
    LET slack  == body - (Rights(xs) - Lefts(xs))
        steps  == (slack + PitchMm) \div (2 * PitchMm)
    IN  IF slack < 2 * MarginMm THEN xs ELSE Shifted(xs, Min({slack, steps * PitchMm}) - Lefts(xs))

LegsOf(m) ==
    LET xs == [i \in DOMAIN m.pins |-> m.pins[i].x]
    IN  Centred(IF Lefts(xs) < 0 THEN Shifted(xs, MarginMm - Lefts(xs)) ELSE xs, Max({MinBody, m.width}))

Width(m) == Max({MinBody, m.width, Rights(LegsOf(m)) + MarginMm})

-------------------------------------------------------------------------------
(* build: the devices.  A name that no pin has is the ground.                   *)

NodeOf(m, name) == IF name \in Named(m) THEN name ELSE GROUND

DeviceOf(m, type, names) == [type |-> type, of |-> m.id, nodes |-> [i \in DOMAIN names |-> NodeOf(m, names[i])]]

LitPins(m) == {i \in DOMAIN m.pins : m.pins[i].model = "led"}

(* Behaviours that are a device of their own, and those a bus answers for.     *)
Owned == {"transistor", "mosfet", "op-amp", "potentiometer", "regulator", "diode", "capacitor", "source"}
OnBus == {"i2c-peripheral", "spi-peripheral"}

RolesPlayed(m) == [i \in DOMAIN Roles[m.behavior] |-> m.uses[Roles[m.behavior][i]]]

Built(m) ==
    {DeviceOf(m, "led", <<m.pins[i].name, m.pins[i].to>>) : i \in LitPins(m)}
    \cup (IF m.behavior \in OnBus \cup Owned THEN {DeviceOf(m, m.behavior, RolesPlayed(m))} ELSE {})
    \cup {DeviceOf(m, "manifest", [i \in DOMAIN m.pins |-> m.pins[i].name])}

(* What the ManifestDevice stamps: its pins' models, and a resistor between    *)
(* two of them; nothing for a part whose own device has the terminals.         *)
PinStamps(m) ==
    IF m.behavior \in Owned THEN {}
    ELSE {<<RETURN, m.pins[i].name>> : i \in {i \in DOMAIN m.pins : m.pins[i].model \notin {"ground", "passive", "led", "nc"}}}
         \cup {<<NodeOf(m, m.pins[i].to), m.pins[i].name>> : i \in {i \in DOMAIN m.pins : m.pins[i].model = "passive"}}
         \cup (IF m.behavior = "variable-resistor" THEN {<<NodeOf(m, m.uses["pinA"]), NodeOf(m, m.uses["pinB"])>>} ELSE {})

-------------------------------------------------------------------------------
(* A manifest that passes never falls through to the ground, and none of its    *)
(* devices is across a single pin, except an op-amp's and an LED's that say so: *)
(* the validator asks for every reference that the runtime follows.             *)
StandsOnItsPins(m) ==
    /\ \A d \in Built(m) :
          /\ \A n \in DOMAIN d.nodes : d.nodes[n] # GROUND
          /\ d.type \in MustDiffer => Cardinality(ToSet(d.nodes)) = Len(d.nodes)
    /\ \A s \in PinStamps(m) : GROUND \notin {s[1], s[2]} /\ s[1] # s[2]
    /\ NeedsSupply(m) => HasModel(m, "power") /\ HasModel(m, "ground")

(* The legs of a part that is drawn inside its corner, a pitch apart, stay so,  *)
(* on the body, and keep to the grid.                                          *)
LegsReachTheHoles(m) ==
    LET xs == [i \in DOMAIN m.pins |-> m.pins[i].x]
    IN  /\ \A i, j \in DOMAIN xs : LegsOf(m)[i] - LegsOf(m)[j] = xs[i] - xs[j]
        /\ \A i \in DOMAIN xs : LegsOf(m)[i] \in 0..Width(m)
        /\ (\A i \in DOMAIN xs : xs[i] >= 0 /\ xs[i] % PitchMm = 0) => \A i \in DOMAIN xs : LegsOf(m)[i] % PitchMm = 0
===============================================================================
