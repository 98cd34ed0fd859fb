----------------------------- MODULE CanvasProofs -----------------------------
(* Proofs about what lies on the canvas: the pointer that moves it, and the    *)
(* world around its sensors, for any parts, terminals, sensors and sources;    *)
(* about the panel beside it, for any circuits and selections; and about what  *)
(* the page lets in from outside, for any programs, catalogues and drafts.     *)
EXTENDS CanvasGestures, Surroundings, ScopePanel, Inputs, SequenceTheorems, FiniteSetTheorems,
        WellFoundedInduction, TLAPS

GesturesTypeOK ==
    /\ onCanvas \subseteq Bodies
    /\ mode \in {"select", "place"} \cup Leads
    /\ marquee \in {"none", "wobble", "band"}
    /\ bandJustEnded \in BOOLEAN /\ panning \in BOOLEAN
    /\ groupDrag \in Bodies \cup {"none"}
    /\ pressed \in Bodies \cup Leads \cup {EmptyStage, "none"}
    /\ click \in Bodies \cup Leads \cup {EmptyStage, "none"}

(* A click follows a release at once, and nothing is dragged without a button. *)
ReleasesComeLast ==
    /\ click # "none" => pressed = "none"
    /\ pressed = "none" => dragged = "none"
    /\ click \in Bodies => click \in onCanvas

(* What a band caught is remembered over the click that ends the gesture, and  *)
(* nothing else was pressed or clicked since.                                  *)
CaughtIsRemembered ==
    swept # Unswept =>
        /\ picked = swept
        /\ bandJustEnded \/ (pressed = "none" /\ click = "none")
        /\ pressed \in {"none", EmptyStage}
        /\ click \notin Bodies

GesturesInv ==
    /\ GesturesTypeOK
    /\ ReleasesComeLast
    /\ CaughtIsRemembered
    /\ BandIsHeld
    /\ PansWithSpace
    /\ FollowsTheHand

LEMMA GesturesStart == GesturesInit => GesturesInv
BY DEF GesturesInit, GesturesInv, GesturesTypeOK, ReleasesComeLast, CaughtIsRemembered, BandIsHeld, PansWithSpace,
       FollowsTheHand, EmptyStage

LEMMA PressStep == GesturesInv /\ (\E where \in onCanvas \cup Leads \cup {EmptyStage} : ButtonDown(where)) => GesturesInv'
<1> SUFFICES ASSUME GesturesInv, NEW where \in onCanvas \cup Leads \cup {EmptyStage}, ButtonDown(where)
             PROVE  GesturesInv'
  OBVIOUS
<1>1. GesturesTypeOK' /\ ReleasesComeLast'
  BY GesturesAssumption DEF ButtonDown, drawn, Ready, GesturesInv, GesturesTypeOK, ReleasesComeLast, EmptyStage
<1>2. CaughtIsRemembered'
  BY DEF ButtonDown, CaughtIsRemembered
<1>3. BandIsHeld' /\ PansWithSpace' /\ FollowsTheHand'
  BY DEF ButtonDown, drawn, GesturesInv, ReleasesComeLast, BandIsHeld, PansWithSpace, FollowsTheHand, EmptyStage
<1> QED
  BY <1>1, <1>2, <1>3 DEF GesturesInv

LEMMA ReleaseStep == GesturesInv /\ (\E over \in onCanvas \cup Leads \cup {EmptyStage} : ButtonUp(over)) => GesturesInv'
<1> SUFFICES ASSUME GesturesInv, NEW over \in onCanvas \cup Leads \cup {EmptyStage}, ButtonUp(over)
             PROVE  GesturesInv'
  OBVIOUS
<1>1. PICK caught \in SUBSET onCanvas, additive \in BOOLEAN : ResolveBand(caught, additive)
  BY DEF ButtonUp
<1>2. /\ click = "none" /\ pressed # "none" /\ pressed' = "none" /\ dragged' = "none" /\ marquee' = "none"
      /\ click' = IF dragged = "none" /\ over \in {pressed, EmptyStage} THEN over ELSE "none"
      /\ groupDrag' = IF dragged \in Bodies THEN "none" ELSE groupDrag
      /\ UNCHANGED <<onCanvas, mode, panning>>
  BY <1>1 DEF ButtonUp, ResolveBand, Ready
<1>3. picked' \subseteq onCanvas
  BY <1>1 DEF ResolveBand, GesturesInv, FollowsTheHand
<1>4. click' \in onCanvas \cup Leads \cup {EmptyStage, "none"} /\ groupDrag' = "none"
  BY <1>2, GesturesAssumption DEF GesturesInv, GesturesTypeOK, FollowsTheHand
<1>5. bandJustEnded' \in BOOLEAN
  BY <1>1 DEF ResolveBand, GesturesInv, GesturesTypeOK
<1>6. GesturesTypeOK' /\ ReleasesComeLast'
  BY <1>2, <1>4, <1>5, GesturesAssumption DEF GesturesInv, GesturesTypeOK, ReleasesComeLast, EmptyStage
<1>7. CaughtIsRemembered'
  <2>1. CASE marquee = "band"
    <3>1. pressed = EmptyStage /\ click' \in {EmptyStage, "none"}
      BY <1>2, <2>1 DEF GesturesInv, BandIsHeld
    <3> QED
      BY <1>1, <1>2, <2>1, <3>1, GesturesAssumption DEF ResolveBand, CaughtIsRemembered, EmptyStage
  <2>2. CASE marquee # "band"
    <3>1. UNCHANGED <<picked, swept, bandJustEnded>>
      BY <1>1, <2>2 DEF ResolveBand
    <3> QED
      BY <1>2, <3>1, GesturesAssumption DEF GesturesInv, CaughtIsRemembered, EmptyStage
  <2> QED
    BY <2>1, <2>2
<1>8. BandIsHeld' /\ PansWithSpace' /\ FollowsTheHand'
  BY <1>2, <1>3, <1>4 DEF BandIsHeld, PansWithSpace, FollowsTheHand, EmptyStage
<1> QED
  BY <1>6, <1>7, <1>8 DEF GesturesInv

LEMMA LeaveStep == GesturesInv /\ Leave => GesturesInv'
<1> SUFFICES ASSUME GesturesInv, Leave PROVE GesturesInv'
  OBVIOUS
<1>1. PICK caught \in SUBSET onCanvas, additive \in BOOLEAN : ResolveBand(caught, additive)
  BY DEF Leave
<1>2. /\ pressed = EmptyStage /\ dragged = "none" /\ click = "none" /\ marquee' = "none"
      /\ UNCHANGED <<onCanvas, mode, panning, groupDrag, pressed, dragged, click>>
  BY <1>1 DEF Leave, Ready, ResolveBand, drawn, pointer, GesturesInv, BandIsHeld
<1>3. picked' \subseteq onCanvas /\ bandJustEnded' \in BOOLEAN
  BY <1>1 DEF ResolveBand, GesturesInv, GesturesTypeOK, FollowsTheHand
<1>4. GesturesTypeOK' /\ ReleasesComeLast'
  BY <1>2, <1>3 DEF GesturesInv, GesturesTypeOK, ReleasesComeLast
<1>5. CaughtIsRemembered'
  BY <1>1, <1>2, GesturesAssumption DEF ResolveBand, GesturesInv, CaughtIsRemembered, EmptyStage
<1>6. BandIsHeld' /\ PansWithSpace' /\ FollowsTheHand'
  BY <1>2, <1>3 DEF GesturesInv, BandIsHeld, PansWithSpace, FollowsTheHand
<1> QED
  BY <1>4, <1>5, <1>6 DEF GesturesInv

LEMMA DragStep ==
    GesturesInv /\ (Stretch \/ (\E p \in Bodies : DragStart(p)) \/ PanStart \/ DragMove \/ ButtonUpOutside) => GesturesInv'
<1> USE GesturesAssumption DEF GesturesInv, GesturesTypeOK, ReleasesComeLast, CaughtIsRemembered, BandIsHeld,
                               PansWithSpace, FollowsTheHand, EmptyStage, drawn, pointer, Ready
<1>1. ASSUME GesturesInv, Stretch PROVE GesturesInv'
  BY <1>1 DEF Stretch
<1>2. ASSUME GesturesInv, NEW p \in Bodies, DragStart(p) PROVE GesturesInv'
  BY <1>2 DEF DragStart
<1>3. ASSUME GesturesInv, PanStart PROVE GesturesInv'
  BY <1>3 DEF PanStart
<1>4. ASSUME GesturesInv, DragMove PROVE GesturesInv'
  BY <1>4 DEF DragMove
<1>5. ASSUME GesturesInv, ButtonUpOutside PROVE GesturesInv'
  BY <1>5 DEF ButtonUpOutside
<1> QED
  BY <1>1, <1>2, <1>3, <1>4, <1>5

LEMMA ClickStep ==
    GesturesInv /\ (ClickStage \/ PickUpPart \/ (\E p \in Bodies : ClickPart(p) \/ ContextMenu(p))
                               \/ (\E l \in Leads : ClickLead(l))) => GesturesInv'
<1> USE GesturesAssumption DEF GesturesInv, GesturesTypeOK, ReleasesComeLast, CaughtIsRemembered, BandIsHeld,
                               PansWithSpace, FollowsTheHand, EmptyStage, drawn, pointer, Ready
<1>1. ASSUME GesturesInv, ClickStage PROVE GesturesInv'
  BY <1>1 DEF ClickStage
<1>2. ASSUME GesturesInv, PickUpPart PROVE GesturesInv'
  BY <1>2 DEF PickUpPart
<1>3. ASSUME GesturesInv, NEW p \in Bodies, ClickPart(p) PROVE GesturesInv'
  BY <1>3 DEF ClickPart
<1>4. ASSUME GesturesInv, NEW p \in Bodies, ContextMenu(p) PROVE GesturesInv'
  BY <1>4 DEF ContextMenu
<1>5. ASSUME GesturesInv, NEW l \in Leads, ClickLead(l) PROVE GesturesInv'
  BY <1>5 DEF ClickLead
<1> QED
  BY <1>1, <1>2, <1>3, <1>4, <1>5

LEMMA KeyStep == GesturesInv /\ (Escape \/ Delete \/ SpaceDown \/ SpaceUp) => GesturesInv'
<1> USE GesturesAssumption DEF GesturesInv, GesturesTypeOK, ReleasesComeLast, CaughtIsRemembered, BandIsHeld,
                               PansWithSpace, FollowsTheHand, EmptyStage, drawn, pointer, Ready
<1>1. ASSUME GesturesInv, Escape PROVE GesturesInv'
  BY <1>1 DEF Escape
<1>2. ASSUME GesturesInv, Delete PROVE GesturesInv'
  BY <1>2 DEF Delete
<1>3. ASSUME GesturesInv, SpaceDown PROVE GesturesInv'
  BY <1>3 DEF SpaceDown
<1>4. ASSUME GesturesInv, SpaceUp PROVE GesturesInv'
  BY <1>4 DEF SpaceUp
<1> QED
  BY <1>1, <1>2, <1>3, <1>4

LEMMA GesturesStep == GesturesInv /\ [GesturesNext]_gestureVars => GesturesInv'
<1> SUFFICES ASSUME GesturesInv, [GesturesNext]_gestureVars PROVE GesturesInv'
  OBVIOUS
<1>1. CASE UNCHANGED gestureVars
  BY <1>1 DEF gestureVars, GesturesInv, GesturesTypeOK, ReleasesComeLast, CaughtIsRemembered, BandIsHeld,
              PansWithSpace, FollowsTheHand
<1> QED
  BY <1>1, PressStep, ReleaseStep, LeaveStep, DragStep, ClickStep, KeyStep DEF GesturesNext

(* What a band caught stays selected over the click that ends the gesture,     *)
(* bands and drags live no longer than the button is held, and what follows a  *)
(* drag follows what is dragged (Workspace.tsx), whatever keys are pressed in  *)
(* between.                                                                    *)
THEOREM GesturesAreObeyed == GesturesSpec => []PointerIsObeyed
<1>1. GesturesInv => PointerIsObeyed
  BY DEF GesturesInv, CaughtIsRemembered, PointerIsObeyed, BandIsKept
<1> QED
  BY <1>1, GesturesStart, GesturesStep, PTL DEF GesturesSpec

-------------------------------------------------------------------------------
(* The world around the sensors.                                               *)
Of(m) == IF m.says = "setEnvironment" THEN m.sources ELSE m.sensors

(* Whoever hears all the letters in q, and has p of these kinds before, ends   *)
(* up with g.                                                                  *)
ReadsAsLast(q, kinds, p, g) ==
    /\ \A i \in 1 .. Len(q) :
         q[i].says \in kinds /\ (\A j \in 1 .. Len(q) : j > i => q[j].says \notin kinds)
         => Of(q[i]) = g
    /\ (\A i \in 1 .. Len(q) : q[i].says \notin kinds) => p = g

Worlds   == {"setEnvironment"}
Projects == {"load", "loadProject"}

SurroundTypeOK ==
    /\ bench = [objects |-> bench.objects, sensors |-> bench.sensors]
    /\ lab = [sensors |-> lab.sensors, sources |-> lab.sources, built |-> lab.built]
    /\ lab.built \in BOOLEAN
    /\ \E S : letters \in Seq(S)
    /\ \A i \in 1 .. Len(letters) : letters[i].says \in Worlds \cup Projects

(* What the worker has not heard yet, it will have heard.                      *)
WorldIsUnderWay ==
    /\ lastGiven = bench
    /\ ReadsAsLast(letters, Worlds, lab.sources, EnvironmentSources(bench.objects))
    /\ ReadsAsLast(letters, Projects, lab.sensors, bench.sensors)

(* What a sensor was driven with last is what the worker has around it.        *)
FeltIsApplied ==
    lab.built =>
        \A s \in Touched(lab, sounded) :
            felt[s] = Clamped(Field(World(lab, sounded), s, lab.sensors[s].x, lab.sensors[s].facing,
                                    lab.sensors[s].ambient))

SurroundInv == SurroundTypeOK /\ WorldIsUnderWay /\ FeltIsApplied

-------------------------------------------------------------------------------
(* What a letter says last is what it leaves behind, whatever came before.     *)
LEMMA WrittenLast ==
    ASSUME NEW S, NEW q \in Seq(S), NEW m, NEW kinds, NEW p, NEW g,
           m.says \in kinds => Of(m) = g,
           m.says \notin kinds => ReadsAsLast(q, kinds, p, g)
    PROVE  ReadsAsLast(Append(q, m), kinds, p, g)
<1> DEFINE a == Append(q, m)
<1>1. /\ Len(a) = Len(q) + 1 /\ a[Len(q) + 1] = m /\ Len(q) \in Nat
      /\ \A i \in 1 .. Len(q) : i \in 1 .. Len(a) /\ a[i] = q[i]
  <2>1. q \in Seq(S \cup {m}) /\ m \in S \cup {m}
    OBVIOUS
  <2> QED
    BY <2>1
<1>2. Len(q) + 1 \in 1 .. Len(a)
  BY <1>1
<1> HIDE DEF a
<1>3. \A i \in 1 .. Len(a) : i = Len(q) + 1 \/ i \in 1 .. Len(q)
  BY <1>1
<1>4. CASE m.says \in kinds
  <2>1. ~ \A i \in 1 .. Len(a) : a[i].says \notin kinds
    BY <1>1, <1>2, <1>4
  <2>2. ASSUME NEW i \in 1 .. Len(a), \A j \in 1 .. Len(a) : j > i => a[j].says \notin kinds
        PROVE  a[i] = m
    <3>1. ~ Len(q) + 1 > i
      BY <1>1, <1>2, <1>4, <2>2
    <3>2. i = Len(q) + 1
      BY <1>1, <3>1
    <3> QED
      BY <1>1, <3>2
  <2>3. ReadsAsLast(a, kinds, p, g)
    BY <1>4, <2>1, <2>2 DEF ReadsAsLast
  <2> QED
    BY <2>3 DEF a
<1>5. CASE m.says \notin kinds
  <2>1. ASSUME NEW i \in 1 .. Len(a), a[i].says \in kinds
        PROVE  i \in 1 .. Len(q) /\ a[i] = q[i]
    BY <1>1, <1>3, <1>5, <2>1
  <2>2. ASSUME NEW i \in 1 .. Len(a), a[i].says \in kinds,
               \A j \in 1 .. Len(a) : j > i => a[j].says \notin kinds
        PROVE  Of(a[i]) = g
    <3>1. i \in 1 .. Len(q) /\ a[i] = q[i]
      BY <2>1, <2>2
    <3>2. \A j \in 1 .. Len(q) : j > i => q[j].says \notin kinds
      BY <1>1, <2>2
    <3> QED
      BY <1>5, <2>2, <3>1, <3>2 DEF ReadsAsLast
  <2>3. ASSUME \A i \in 1 .. Len(a) : a[i].says \notin kinds
        PROVE  p = g
    <3>1. \A i \in 1 .. Len(q) : q[i].says \notin kinds
      BY <1>1, <2>3
    <3> QED
      BY <1>5, <3>1 DEF ReadsAsLast
  <2>4. ReadsAsLast(a, kinds, p, g)
    BY <2>2, <2>3 DEF ReadsAsLast
  <2> QED
    BY <2>4 DEF a
<1> QED
  BY <1>4, <1>5

(* Reading the first letter leaves what the rest of them lead to unchanged.    *)
LEMMA ReadFirst ==
    ASSUME NEW S, NEW q \in Seq(S), q # <<>>, NEW kinds, NEW p, NEW g, ReadsAsLast(q, kinds, p, g)
    PROVE  ReadsAsLast(Tail(q), kinds, IF Head(q).says \in kinds THEN Of(Head(q)) ELSE p, g)
<1> DEFINE t == Tail(q)
<1>1. Len(q) \in Nat /\ Len(q) > 0 /\ Len(t) = Len(q) - 1 /\ Head(q) = q[1]
  OBVIOUS
<1>2. \A i \in 1 .. Len(t) : i + 1 \in 1 .. Len(q) /\ t[i] = q[i + 1]
  OBVIOUS
<1>3. \A j \in 1 .. Len(q) : j > 1 => j - 1 \in 1 .. Len(t) /\ q[j] = t[j - 1]
  BY <1>1, <1>2
<1>4. 1 \in 1 .. Len(q)
  BY <1>1
<1> HIDE DEF t
<1>5. ASSUME NEW i \in 1 .. Len(t), t[i].says \in kinds,
             \A j \in 1 .. Len(t) : j > i => t[j].says \notin kinds
      PROVE  Of(t[i]) = g
  <2>1. i + 1 \in 1 .. Len(q) /\ t[i] = q[i + 1]
    BY <1>2
  <2>2. ASSUME NEW j \in 1 .. Len(q), j > i + 1
        PROVE  q[j].says \notin kinds
    <3>1. j - 1 \in 1 .. Len(t) /\ q[j] = t[j - 1] /\ j - 1 > i
      BY <1>1, <1>3, <2>2
    <3> QED
      BY <1>5, <3>1
  <2> QED
    BY <1>5, <2>1, <2>2 DEF ReadsAsLast
<1>6. ASSUME \A i \in 1 .. Len(t) : t[i].says \notin kinds
      PROVE  (IF Head(q).says \in kinds THEN Of(Head(q)) ELSE p) = g
  <2>1. \A j \in 1 .. Len(q) : j > 1 => q[j].says \notin kinds
    BY <1>3, <1>6
  <2>2. CASE q[1].says \in kinds
    BY <1>1, <1>4, <2>1, <2>2 DEF ReadsAsLast
  <2>3. CASE q[1].says \notin kinds
    <3>1. \A j \in 1 .. Len(q) : q[j].says \notin kinds
      BY <1>1, <2>1, <2>3
    <3> QED
      BY <1>1, <2>3, <3>1 DEF ReadsAsLast
  <2> QED
    BY <2>2, <2>3
<1>7. ReadsAsLast(t, kinds, IF Head(q).says \in kinds THEN Of(Head(q)) ELSE p, g)
  BY <1>5, <1>6 DEF ReadsAsLast
<1> QED
  BY <1>7 DEF t

-------------------------------------------------------------------------------
(* Wherever a world is applied, the sensors hold what it amounts to.           *)
LEMMA AppliedIsFelt ==
    ASSUME NEW l, NEW volts, NEW held, Apply(l, volts, held), lab' = l
    PROVE  FeltIsApplied'
<1>1. CASE l.built
  <2>1. felt' = AppliedTo(l, volts, held) /\ sounded' = volts
    BY <1>1 DEF Apply
  <2> SUFFICES ASSUME NEW s \in Touched(l, volts)
               PROVE  felt'[s] = Clamped(Field(World(l, volts), s, l.sensors[s].x, l.sensors[s].facing,
                                               l.sensors[s].ambient))
    BY <2>1 DEF FeltIsApplied
  <2>2. s \in Sensors
    BY DEF Touched
  <2> QED
    BY <2>1, <2>2 DEF AppliedTo
<1>2. CASE ~l.built
  BY <1>2 DEF FeltIsApplied
<1> QED
  BY <1>1, <1>2

(* One letter more.                                                            *)
Extended(q, m, objects, sensors) ==
    /\ \E S : Append(q, m) \in Seq(S)
    /\ \A i \in 1 .. Len(Append(q, m)) : Append(q, m)[i].says \in Worlds \cup Projects
    /\ ReadsAsLast(Append(q, m), Worlds, lab.sources, EnvironmentSources(objects))
    /\ ReadsAsLast(Append(q, m), Projects, lab.sensors, sensors)

(* A letter of the newest bench on top of the others leads to that bench.      *)
LEMMA OneMore ==
    ASSUME NEW S, NEW q \in Seq(S), NEW m, NEW objects, NEW sensors, m.says \in Worlds \cup Projects,
           \A i \in 1 .. Len(q) : q[i].says \in Worlds \cup Projects,
           m.says \in Worlds => m.sources = EnvironmentSources(objects),
           m.says \in Projects => m.sensors = sensors,
           m.says \notin Worlds => ReadsAsLast(q, Worlds, lab.sources, EnvironmentSources(objects)),
           m.says \notin Projects => ReadsAsLast(q, Projects, lab.sensors, sensors)
    PROVE  Extended(q, m, objects, sensors)
<1>1. Append(q, m) \in Seq(S \cup {m})
  <2>1. q \in Seq(S \cup {m})
    OBVIOUS
  <2> QED
    BY <2>1
<1>2. \A i \in 1 .. Len(Append(q, m)) : Append(q, m)[i].says \in Worlds \cup Projects
  <2> DEFINE T == S \cup {m}
  <2>1. q \in Seq(T) /\ m \in T
    OBVIOUS
  <2> HIDE DEF T
  <2> TAKE i \in 1 .. Len(Append(q, m))
  <2>2. Append(q, m)[i] = IF i = Len(q) + 1 THEN m ELSE q[i]
    BY <2>1
  <2>3. Len(Append(q, m)) = Len(q) + 1 /\ Len(q) \in Nat
    BY <2>1
  <2>4. i = Len(q) + 1 \/ i \in 1 .. Len(q)
    BY <2>3
  <2> QED
    BY <2>2, <2>4
<1>3. ReadsAsLast(Append(q, m), Worlds, lab.sources, EnvironmentSources(objects))
  <2>1. m.says \in Worlds => Of(m) = EnvironmentSources(objects)
    BY DEF Of, Worlds
  <2> QED
    BY <2>1, WrittenLast
<1>4. ReadsAsLast(Append(q, m), Projects, lab.sensors, sensors)
  <2>1. m.says \in Projects => Of(m) = sensors
    BY DEF Of, Projects
  <2> QED
    BY <2>1, WrittenLast
<1> QED
  BY <1>1, <1>2, <1>3, <1>4 DEF Extended

(* An edit that tells the worker keeps everything it will know in step.        *)
LEMMA BecomesStep ==
    ASSUME SurroundInv, NEW objects, NEW sensors, Becomes([objects |-> objects, sensors |-> sensors])
    PROVE  SurroundInv'
<1> DEFINE b == [objects |-> objects, sensors |-> sensors]
           project == [says |-> "loadProject", sensors |-> sensors]
           env == [says |-> "setEnvironment", sources |-> EnvironmentSources(objects)]
           q == IF sensors # bench.sensors THEN Append(letters, project) ELSE letters
           r == IF objects # bench.objects THEN Append(q, env) ELSE q
<1>1. PICK S : letters \in Seq(S)
  BY DEF SurroundInv, SurroundTypeOK
<1>2. /\ \A i \in 1 .. Len(letters) : letters[i].says \in Worlds \cup Projects
      /\ ReadsAsLast(letters, Worlds, lab.sources, EnvironmentSources(bench.objects))
      /\ ReadsAsLast(letters, Projects, lab.sensors, bench.sensors)
      /\ lastGiven = bench
  BY DEF SurroundInv, SurroundTypeOK, WorldIsUnderWay
<1>3. /\ \E T : q \in Seq(T)
      /\ \A i \in 1 .. Len(q) : q[i].says \in Worlds \cup Projects
      /\ ReadsAsLast(q, Worlds, lab.sources, EnvironmentSources(bench.objects))
      /\ ReadsAsLast(q, Projects, lab.sensors, sensors)
  <2>1. CASE sensors # bench.sensors
    <3>1. project.says \in Projects /\ project.says \notin Worlds /\ project.sensors = sensors
      BY DEF Projects, Worlds
    <3> HIDE DEF project
    <3>2. Extended(letters, project, bench.objects, sensors)
      BY <1>1, <1>2, <3>1, OneMore
    <3> QED
      BY <2>1, <3>2 DEF Extended
  <2>2. CASE sensors = bench.sensors
    BY <1>1, <1>2, <2>2
  <2> QED
    BY <2>1, <2>2
<1> HIDE DEF q
<1>4. /\ \E T : r \in Seq(T)
      /\ \A i \in 1 .. Len(r) : r[i].says \in Worlds \cup Projects
      /\ ReadsAsLast(r, Worlds, lab.sources, EnvironmentSources(objects))
      /\ ReadsAsLast(r, Projects, lab.sensors, sensors)
  <2>1. CASE objects # bench.objects
    <3>1. env.says \in Worlds /\ env.says \notin Projects /\ env.sources = EnvironmentSources(objects)
      BY DEF Projects, Worlds
    <3>2. PICK T : q \in Seq(T)
      BY <1>3
    <3> HIDE DEF env
    <3>3. Extended(q, env, objects, sensors)
      BY <1>3, <3>1, <3>2, OneMore
    <3> QED
      BY <2>1, <3>3 DEF Extended
  <2>2. CASE objects = bench.objects
    BY <1>3, <2>2
  <2> QED
    BY <2>1, <2>2
<1>5. letters' = r
  <2> DEFINE A == IF sensors # bench.sensors THEN <<project>> ELSE <<>>
             B == IF objects # bench.objects THEN <<env>> ELSE <<>>
             T == S \cup {project, env}
  <2>1. letters' = letters \o (A \o B)
    BY <1>2 DEF Becomes, Told
  <2>2. letters \in Seq(T) /\ project \in T /\ env \in T
    BY <1>1
  <2> HIDE DEF T, project, env
  <2>3. A \in Seq(T) /\ B \in Seq(T)
    BY <2>2
  <2>4. letters \o A = q
    BY <2>2 DEF q
  <2>5. q \in Seq(T)
    BY <2>2 DEF q
  <2>6. q \o B = r
    BY <2>2, <2>5
  <2> HIDE DEF A, B, r
  <2>7. letters \o (A \o B) = (letters \o A) \o B
    BY <2>2, <2>3
  <2> QED
    BY <2>1, <2>4, <2>6, <2>7
<1> HIDE DEF r
<1>6. /\ bench' = b /\ lastGiven' = b /\ UNCHANGED <<lab, felt, sounded>>
  BY DEF Becomes
<1>7. SurroundTypeOK'
  BY <1>4, <1>5, <1>6 DEF SurroundInv, SurroundTypeOK
<1>8. WorldIsUnderWay'
  BY <1>4, <1>5, <1>6 DEF WorldIsUnderWay
<1>9. FeltIsApplied'
  BY <1>6 DEF SurroundInv, FeltIsApplied, Touched, World
<1> QED
  BY <1>7, <1>8, <1>9 DEF SurroundInv

(* The edits on the canvas.                                                    *)
LEMMA EditStep == SurroundInv /\ (PlaceObject \/ RemoveObject \/ SetSensor) => SurroundInv'
<1> SUFFICES ASSUME SurroundInv, PlaceObject \/ RemoveObject \/ SetSensor PROVE SurroundInv'
  OBVIOUS
<1>1. bench = [objects |-> bench.objects, sensors |-> bench.sensors]
  BY DEF SurroundInv, SurroundTypeOK
<1>2. CASE PlaceObject
  <2>1. PICK o \in DOMAIN Objects, x \in Places, on \in BOOLEAN :
          Becomes([bench EXCEPT !.objects = [n \in DOMAIN @ \cup {o} |-> IF n = o THEN [x |-> x, on |-> on] ELSE @[n]]])
    BY <1>2 DEF PlaceObject
  <2> DEFINE objects == [n \in DOMAIN bench.objects \cup {o} |-> IF n = o THEN [x |-> x, on |-> on] ELSE bench.objects[n]]
  <2>2. Becomes([bench EXCEPT !.objects = objects])
    BY <2>1
  <2> HIDE DEF objects
  <2>3. [bench EXCEPT !.objects = objects] = [objects |-> objects, sensors |-> bench.sensors]
    BY <1>1
  <2> QED
    BY <2>2, <2>3, BecomesStep
<1>3. CASE RemoveObject
  <2>1. PICK o \in DOMAIN bench.objects : Becomes([bench EXCEPT !.objects = [n \in DOMAIN @ \ {o} |-> @[n]]])
    BY <1>3 DEF RemoveObject
  <2> DEFINE objects == [n \in DOMAIN bench.objects \ {o} |-> bench.objects[n]]
  <2>2. Becomes([bench EXCEPT !.objects = objects])
    BY <2>1
  <2> HIDE DEF objects
  <2>3. [bench EXCEPT !.objects = objects] = [objects |-> objects, sensors |-> bench.sensors]
    BY <1>1
  <2> QED
    BY <2>2, <2>3, BecomesStep
<1>4. CASE SetSensor
  <2>1. PICK s \in Sensors, x \in Places, facing \in {"left", "right"}, ambient \in {1, 3} :
          Becomes([bench EXCEPT !.sensors[s] = [x |-> x, facing |-> facing, ambient |-> ambient]])
    BY <1>4 DEF SetSensor
  <2> DEFINE sensors == [bench.sensors EXCEPT ![s] = [x |-> x, facing |-> facing, ambient |-> ambient]]
  <2>2. Becomes([bench EXCEPT !.sensors = sensors])
    BY <2>1
  <2> HIDE DEF sensors
  <2>3. [bench EXCEPT !.sensors = sensors] = [objects |-> bench.objects, sensors |-> sensors]
    BY <1>1
  <2> QED
    BY <2>2, <2>3, BecomesStep
<1> QED
  BY <1>2, <1>3, <1>4

(* A sketch that is sent takes the project along.                              *)
LEMMA LoadSketchStep == SurroundInv /\ LoadSketch => SurroundInv'
<1> SUFFICES ASSUME SurroundInv, LoadSketch PROVE SurroundInv'
  OBVIOUS
<1> DEFINE m == [says |-> "load", sensors |-> bench.sensors]
<1>1. PICK S : letters \in Seq(S)
  BY DEF SurroundInv, SurroundTypeOK
<1>2. m.says \in Projects /\ m.says \notin Worlds /\ m.sensors = bench.sensors
  BY DEF Projects, Worlds
<1>3. letters' = Append(letters, m) /\ UNCHANGED <<bench, lab, felt, sounded>>
  BY DEF LoadSketch
<1>4. lastGiven' = bench
  BY DEF LoadSketch, SurroundInv, SurroundTypeOK, WorldIsUnderWay
<1> HIDE DEF m
<1>5. Extended(letters, m, bench.objects, bench.sensors)
  BY <1>1, <1>2, OneMore DEF SurroundInv, SurroundTypeOK, WorldIsUnderWay
<1>6. SurroundTypeOK'
  BY <1>3, <1>5 DEF SurroundInv, SurroundTypeOK, Extended
<1>7. WorldIsUnderWay'
  BY <1>3, <1>4, <1>5 DEF WorldIsUnderWay, Extended
<1>8. FeltIsApplied'
  BY <1>3 DEF SurroundInv, FeltIsApplied, Touched, World
<1> QED
  BY <1>6, <1>7, <1>8 DEF SurroundInv

(* The worker hears the next letter.                                           *)
LEMMA HearStep == SurroundInv /\ HearLetter => SurroundInv'
<1> SUFFICES ASSUME SurroundInv, HearLetter PROVE SurroundInv'
  OBVIOUS
<1> DEFINE m == Head(letters)
           l == IF m.says = "setEnvironment" THEN [lab EXCEPT !.sources = m.sources]
                ELSE [lab EXCEPT !.sensors = m.sensors, !.built = @ \/ m.says = "load"]
<1>1. PICK S : letters \in Seq(S)
  BY DEF SurroundInv, SurroundTypeOK
<1>2. letters # <<>> /\ letters' = Tail(letters) /\ lab' = l /\ UNCHANGED <<bench, lastGiven>>
  BY DEF HearLetter
<1>3. FeltIsApplied'
  <2> HIDE DEF l
  <2>1. \E volts, held : Apply(l, volts, held)
    BY DEF HearLetter, RebuiltIn, l
  <2> QED
    BY <1>2, <2>1, AppliedIsFelt
<1>4. m.says \in Worlds \cup Projects
  BY <1>1, <1>2 DEF SurroundInv, SurroundTypeOK
<1>5. lab = [sensors |-> lab.sensors, sources |-> lab.sources, built |-> lab.built] /\ lab.built \in BOOLEAN
  BY DEF SurroundInv, SurroundTypeOK
<1>6. /\ lab' = [sensors |-> lab'.sensors, sources |-> lab'.sources, built |-> lab'.built] /\ lab'.built \in BOOLEAN
      /\ lab'.sources = IF m.says \in Worlds THEN Of(m) ELSE lab.sources
      /\ lab'.sensors = IF m.says \in Projects THEN Of(m) ELSE lab.sensors
  <2>1. CASE m.says \in Worlds
    <3>1. lab' = [lab EXCEPT !.sources = m.sources] /\ m.says \notin Projects
      BY <1>2, <2>1 DEF Worlds, Projects
    <3> QED
      BY <1>5, <2>1, <3>1 DEF Of, Worlds
  <2>2. CASE m.says \in Projects
    <3>1. PICK built \in BOOLEAN : built = (lab.built \/ m.says = "load")
      BY <1>5
    <3>2. lab' = [lab EXCEPT !.sensors = m.sensors, !.built = built] /\ m.says \notin Worlds
      BY <1>2, <1>5, <2>2, <3>1 DEF Worlds, Projects
    <3> QED
      BY <1>5, <2>2, <3>2 DEF Of, Projects
  <2> QED
    BY <1>4, <2>1, <2>2
<1>7. /\ ReadsAsLast(letters', Worlds, lab'.sources, EnvironmentSources(bench.objects))
      /\ ReadsAsLast(letters', Projects, lab'.sensors, bench.sensors)
  <2>1. /\ ReadsAsLast(letters, Worlds, lab.sources, EnvironmentSources(bench.objects))
        /\ ReadsAsLast(letters, Projects, lab.sensors, bench.sensors)
    BY DEF SurroundInv, WorldIsUnderWay
  <2> QED
    BY <1>1, <1>2, <1>6, <2>1, ReadFirst
<1>8. SurroundTypeOK'
  <2>1. \E T : letters' \in Seq(T)
    BY <1>1, <1>2
  <2>2. \A i \in 1 .. Len(letters') : letters'[i].says \in Worlds \cup Projects
    <3>1. \A i \in 1 .. Len(letters) : letters[i].says \in Worlds \cup Projects
      BY DEF SurroundInv, SurroundTypeOK
    <3>2. \A i \in 1 .. Len(letters') : i + 1 \in 1 .. Len(letters) /\ letters'[i] = letters[i + 1]
      BY <1>1, <1>2
    <3> QED
      BY <3>1, <3>2
  <2> QED
    BY <1>2, <1>6, <2>1, <2>2 DEF SurroundInv, SurroundTypeOK
<1>9. WorldIsUnderWay'
  BY <1>2, <1>7 DEF SurroundInv, WorldIsUnderWay, EnvironmentSources
<1> QED
  BY <1>3, <1>8, <1>9 DEF SurroundInv

(* A tick of a running simulation applies the world as it sounds then.         *)
LEMMA TickWorldStep == SurroundInv /\ TickWorld => SurroundInv'
<1> SUFFICES ASSUME SurroundInv, TickWorld PROVE SurroundInv'
  OBVIOUS
<1>1. Apply(lab, buzz, felt) /\ UNCHANGED <<bench, lastGiven, letters, lab>>
  BY DEF TickWorld
<1>2. FeltIsApplied'
  BY <1>1, AppliedIsFelt
<1>3. SurroundTypeOK' /\ WorldIsUnderWay'
  BY <1>1 DEF SurroundInv, SurroundTypeOK, WorldIsUnderWay, EnvironmentSources
<1> QED
  BY <1>2, <1>3 DEF SurroundInv

(* At first the opened project and an empty world are on their way.            *)
LEMMA SurroundStarts == SurroundInit => SurroundInv
<1> SUFFICES ASSUME SurroundInit PROVE SurroundInv
  OBVIOUS
<1> DEFINE a == [says |-> "loadProject", sensors |-> bench.sensors]
           e == [says |-> "setEnvironment", sources |-> {}]
<1>1. bench.objects = <<>> /\ letters = <<a, e>> /\ lastGiven = bench
  BY DEF SurroundInit
<1>2. a.says \in Projects \ Worlds /\ e.says \in Worlds \ Projects /\ Of(a) = bench.sensors /\ Of(e) = {}
  BY DEF Projects, Worlds, Of
<1>3. EnvironmentSources(bench.objects) = {}
  BY <1>1 DEF EnvironmentSources
<1>4. bench = [objects |-> bench.objects, sensors |-> bench.sensors]
  BY DEF SurroundInit
<1>5. lab = [sensors |-> lab.sensors, sources |-> lab.sources, built |-> lab.built] /\ lab.built = FALSE
  BY DEF SurroundInit
<1> HIDE DEF a, e
<1>6. letters \in Seq({a, e}) /\ Len(letters) = 2 /\ letters[1] = a /\ letters[2] = e
  BY <1>1
<1>7. \A i \in 1 .. Len(letters) : i = 1 \/ i = 2
  BY <1>6
<1>8. 1 \in 1 .. Len(letters) /\ 2 \in 1 .. Len(letters) /\ 2 > 1
  BY <1>6
<1>9. SurroundTypeOK
  BY <1>2, <1>4, <1>5, <1>6, <1>7 DEF SurroundTypeOK
<1>10. ReadsAsLast(letters, Worlds, lab.sources, EnvironmentSources(bench.objects))
  BY <1>2, <1>3, <1>6, <1>7, <1>8 DEF ReadsAsLast
<1>11. ReadsAsLast(letters, Projects, lab.sensors, bench.sensors)
  BY <1>2, <1>6, <1>7, <1>8 DEF ReadsAsLast
<1> QED
  BY <1>1, <1>5, <1>9, <1>10, <1>11 DEF SurroundInv, WorldIsUnderWay, FeltIsApplied

(* One case per action, and the stuttering step.                               *)
LEMMA SurroundStep == SurroundInv /\ [SurroundNext]_surroundVars => SurroundInv'
<1> SUFFICES ASSUME SurroundInv, [SurroundNext]_surroundVars PROVE SurroundInv'
  OBVIOUS
<1>1. CASE UNCHANGED surroundVars
  <2>1. UNCHANGED <<bench, lastGiven, letters, lab, felt, sounded>>
    BY <1>1 DEF surroundVars
  <2>2. SurroundTypeOK' /\ WorldIsUnderWay'
    BY <2>1 DEF SurroundInv, SurroundTypeOK, WorldIsUnderWay, EnvironmentSources
  <2>3. FeltIsApplied'
    BY <2>1 DEF SurroundInv, FeltIsApplied, Touched, World
  <2> QED
    BY <2>2, <2>3 DEF SurroundInv
<1> QED
  BY <1>1, EditStep, LoadSketchStep, HearStep, TickWorldStep DEF SurroundNext

(* Whatever is edited, dragged, loaded or rebuilt in whatever order, once the  *)
(* worker has heard everything a driven sensor holds what the stimuli on the   *)
(* canvas amount to where it stands (useSimulation.ts, worker.ts).             *)
THEOREM SensorsAreDriven == SurroundSpec => []SensorsReadTheWorld
<1>1. SurroundInv => SensorsReadTheWorld
  <2> SUFFICES ASSUME SurroundInv, letters = <<>>, lab.built, NEW s \in Sensors,
                      IsDriven(Around, Senses[s].quantity)
               PROVE  LET p == bench.sensors[s]
                      IN  felt[s] = Clamped(Field(Around, s, p.x, p.facing, p.ambient))
    BY DEF SensorsReadTheWorld
  <2>1. lab.sources = EnvironmentSources(bench.objects) /\ lab.sensors = bench.sensors
    BY DEF SurroundInv, WorldIsUnderWay, ReadsAsLast
  <2>2. Around = World(lab, sounded)
    BY <2>1 DEF Around, World
  <2>3. s \in Touched(lab, sounded)
    BY <2>2 DEF Touched
  <2> QED
    BY <2>1, <2>2, <2>3 DEF SurroundInv, FeltIsApplied
<1> QED
  BY <1>1, SurroundStarts, SurroundStep, PTL DEF SurroundSpec

-------------------------------------------------------------------------------
(* The scope panel, for any circuits, selections and number of refreshes.      *)

Selectable == [selected : Selections \cup {{"D1"}}, decode : BOOLEAN]
Numbered   == [number : Nat]
Steps      == {"span", "traces", "frames"}
Drawings   == {{}} \cup {ChannelsOf[c] : c \in Nat} \cup {of.selected \cap ChannelsOf[c] : of \in Selectable, c \in Nat}
Questions  == [want : Steps, of : Selectable] \cup [want : {"channels"}, of : Numbered]
Replies    == [want : Steps, of : Selectable, found : Drawings, by : Nat]
              \cup [want : {"channels"}, of : Numbered, found : Drawings, by : Nat]

PanelTypeOK ==
    /\ there \in BOOLEAN /\ circuit \in Nat /\ circuit # 0 /\ choice \in Selectable
    /\ flight \in Seq(Questions) /\ back \in Seq(Replies)
    /\ listing \in Nat /\ refreshes \in Nat /\ unseen \in BOOLEAN

(* All that is under way, in the order in which the panel will hear of it: the *)
(* answers, then the questions.  The worker's answer moves nothing.            *)
UnderWay == Len(back) + Len(flight)
At(i)    == IF i <= Len(back) THEN back[i] ELSE flight[i - Len(back)]
Want(i)  == At(i).want
About(i) == At(i).of

(* What was found is what the circuit had that was asked; a worker that is not *)
(* there yet has been asked nothing.                                           *)
RepliesAreTrue ==
    /\ ~there => flight = <<>>
    /\ \A i \in 1..Len(back) :
          back[i].want = "traces" =>
              back[i].found = IF back[i].by = 0 THEN {} ELSE back[i].of.selected \cap ChannelsOf[back[i].by]

(* The last refresh is at p: it will be the last to draw.                      *)
DrawsLast(p) ==
    /\ p \in 1..UnderWay /\ About(p) = choice
    /\ \/ Want(p) = "span" /\ \A j \in 1..UnderWay : j > p => Want(j) # "span"
       \/ /\ Want(p) = "traces"
          /\ \A j \in 1..UnderWay : Want(j) # "span" /\ (j > p => Want(j) # "traces")

Drawn ==
    /\ plotted = IF asOf = 0 THEN {} ELSE choice.selected \cap ChannelsOf[asOf]
    /\ \A j \in 1..UnderWay : Want(j) \notin {"span", "traces"}

ChoiceIsOnItsWay == refreshes > 0 => Drawn \/ \E p \in 1..UnderWay : DrawsLast(p)

(* The last list is of the circuit that runs, or on its way.                   *)
ListIsOnItsWay ==
    /\ listing = 0 => unseen
    /\ \A i \in 1..UnderWay : Want(i) = "channels" => About(i).number <= listing
    /\ \A i \in 1..Len(back) :
          back[i].want = "channels" /\ back[i].of.number = listing => back[i].by \in {0, circuit} \/ unseen
    /\ \/ unseen \/ listing = 0 \/ offered \in {0, circuit}
       \/ \E i \in 1..UnderWay : Want(i) = "channels" /\ About(i).number = listing

PanelInv == PanelTypeOK /\ RepliesAreTrue /\ ChoiceIsOnItsWay /\ ListIsOnItsWay

(* A panel that was not opened has asked nothing.                              *)
ShutPanelIsQuiet == listing = 0 => flight = <<>> /\ back = <<>>

-------------------------------------------------------------------------------
(* The queue.                                                                  *)

LEMMA ReplyFields ==
    ASSUME NEW a \in Replies
    PROVE  /\ a.want \in Steps \cup {"channels"} /\ a.found \in Drawings /\ a.by \in Nat
           /\ a.want = "channels" => a.of \in Numbered
           /\ a.want # "channels" => a.of \in Selectable
BY DEF Replies, Steps

LEMMA QuestionFields ==
    ASSUME NEW q \in Questions
    PROVE  /\ q.want \in Steps \cup {"channels"}
           /\ q.want = "channels" => q.of \in Numbered
           /\ q.want # "channels" => q.of \in Selectable
BY DEF Questions, Steps

LEMMA UnderWayIsTyped ==
    ASSUME PanelTypeOK
    PROVE  /\ UnderWay \in Nat /\ Len(back) \in Nat /\ Len(flight) \in Nat
           /\ \A i \in 1..UnderWay :
                 /\ Want(i) \in Steps \cup {"channels"}
                 /\ Want(i) = "channels" => About(i) \in Numbered
                 /\ Want(i) # "channels" => About(i) \in Selectable
<1>1. back \in Seq(Replies) /\ flight \in Seq(Questions) /\ Len(back) \in Nat /\ Len(flight) \in Nat
  BY DEF PanelTypeOK
<1>2. SUFFICES ASSUME NEW i \in 1..UnderWay
               PROVE  /\ Want(i) \in Steps \cup {"channels"}
                      /\ Want(i) = "channels" => About(i) \in Numbered
                      /\ Want(i) # "channels" => About(i) \in Selectable
  BY <1>1 DEF UnderWay
<1>3. CASE i <= Len(back)
  <2>1. back[i] \in Replies /\ At(i) = back[i]
    BY <1>1, <1>3 DEF UnderWay, At
  <2>2. QED
    BY <2>1, ReplyFields DEF Want, About
<1>4. CASE ~(i <= Len(back))
  <2>1. flight[i - Len(back)] \in Questions /\ At(i) = flight[i - Len(back)]
    BY <1>1, <1>4 DEF UnderWay, At
  <2>2. QED
    BY <2>1, QuestionFields DEF Want, About
<1>5. QED
  BY <1>3, <1>4

(* What joins the queue is last in it.                                         *)
Joined(want, of, n) ==
    /\ flight' \in Seq(Questions) /\ back' \in Seq(Replies) /\ RepliesAreTrue'
    /\ UnderWay' = n + 1 /\ Want(n + 1)' = want /\ About(n + 1)' = of

LEMMA EmptyHanded ==
    ASSUME NEW want \in Steps \cup {"channels"}, NEW of, want = "channels" => of \in Numbered,
           want # "channels" => of \in Selectable
    PROVE  /\ [want |-> want, of |-> of] \in Questions
           /\ [want |-> want, of |-> of, found |-> {}, by |-> 0] \in Replies
<1>1. {} \in Drawings
  BY DEF Drawings
<1>2. QED
  BY <1>1 DEF Questions, Replies, Steps

LEMMA AskingJoins ==
    ASSUME PanelTypeOK, RepliesAreTrue, there' = there,
           NEW want \in Steps \cup {"channels"}, NEW of, want = "channels" => of \in Numbered,
           want # "channels" => of \in Selectable, Asking(want, of), NEW n, n = UnderWay
    PROVE  /\ Joined(want, of, n)
           /\ \A i \in 1..UnderWay : Want(i)' = Want(i) /\ About(i)' = About(i)
           /\ \A i \in 1..Len(back') : (i \in 1..Len(back) /\ back'[i] = back[i]) \/ back'[i].by = 0
<1>1. back \in Seq(Replies) /\ flight \in Seq(Questions) /\ Len(back) \in Nat /\ Len(flight) \in Nat /\ there \in BOOLEAN
  BY DEF PanelTypeOK
<1> DEFINE q == [want |-> want, of |-> of]
           a == [want |-> want, of |-> of, found |-> {}, by |-> 0]
<1>2. q \in Questions /\ a \in Replies
  BY EmptyHanded
<1>3. q.want = want /\ q.of = of /\ a.want = want /\ a.of = of /\ a.found = {} /\ a.by = 0
  OBVIOUS
<1>4. CASE there
  <2>1. flight' = Append(flight, q) /\ back' = back
    BY <1>4 DEF Asking, Question
  <2> HIDE DEF q
  <2>2. /\ flight' \in Seq(Questions) /\ Len(flight') = Len(flight) + 1 /\ flight'[Len(flight) + 1] = q
        /\ \A i \in 1..Len(flight) : flight'[i] = flight[i]
    BY <1>1, <1>2, <2>1
  <2>3. UnderWay' = n + 1 /\ At(n + 1)' = q /\ \A i \in 1..UnderWay : At(i)' = At(i)
    BY <1>1, <2>1, <2>2 DEF UnderWay, At
  <2>4. RepliesAreTrue'
    BY <1>4, <2>1 DEF RepliesAreTrue
  <2>5. QED
    BY <1>1, <1>3, <2>1, <2>2, <2>3, <2>4 DEF Joined, Want, About
<1>5. CASE ~there
  <2>1. back' = Append(back, a) /\ flight' = flight /\ flight = <<>>
    BY <1>5 DEF Asking, Nothing, RepliesAreTrue
  <2> HIDE DEF a
  <2>2. /\ back' \in Seq(Replies) /\ Len(back') = Len(back) + 1 /\ back'[Len(back) + 1] = a
        /\ \A i \in 1..Len(back) : back'[i] = back[i]
    BY <1>1, <1>2, <2>1
  <2>3. UnderWay' = n + 1 /\ At(n + 1)' = a /\ \A i \in 1..UnderWay : At(i)' = At(i)
    BY <1>1, <2>1, <2>2 DEF UnderWay, At
  <2>4. RepliesAreTrue'
    <3>1. SUFFICES ASSUME NEW i \in 1..Len(back'), back'[i].want = "traces"
                   PROVE  back'[i].found = IF back'[i].by = 0 THEN {}
                                           ELSE back'[i].of.selected \cap ChannelsOf[back'[i].by]
      BY <2>1 DEF RepliesAreTrue
    <3>2. CASE i = Len(back) + 1
      BY <1>3, <2>2, <3>2
    <3>3. CASE i # Len(back) + 1
      <4>1. i \in 1..Len(back) /\ back'[i] = back[i]
        BY <1>1, <2>2, <3>3
      <4>2. QED
        BY <3>1, <4>1 DEF RepliesAreTrue
    <3>4. QED
      BY <3>2, <3>3
  <2>5. QED
    BY <1>1, <1>3, <2>1, <2>2, <2>3, <2>4 DEF Joined, Want, About
<1>6. QED
  BY <1>1, <1>4, <1>5

LEMMA HeadIsHeard ==
    ASSUME PanelTypeOK, RepliesAreTrue, back # <<>>
    PROVE  /\ UnderWay \in Nat /\ UnderWay >= 1 /\ Len(back) >= 1
           /\ Head(back) = back[1] /\ Head(back) \in Replies
           /\ Want(1) = Head(back).want /\ About(1) = Head(back).of
           /\ Tail(back) \in Seq(Replies) /\ Len(Tail(back)) = Len(back) - 1
           /\ \A i \in 1..Len(back) - 1 : Tail(back)[i] = back[i + 1]
<1>1. back \in Seq(Replies) /\ flight \in Seq(Questions) /\ Len(back) \in Nat /\ Len(flight) \in Nat
  BY DEF PanelTypeOK
<1>2. Len(back) >= 1 /\ Head(back) = back[1] /\ back[1] \in Replies
  BY <1>1
<1>3. /\ Tail(back) \in Seq(Replies) /\ Len(Tail(back)) = Len(back) - 1
      /\ \A i \in 1..Len(back) - 1 : Tail(back)[i] = back[i + 1]
  BY <1>1, <1>2
<1>4. At(1) = back[1]
  BY <1>1, <1>2 DEF At
<1>5. QED
  BY <1>1, <1>2, <1>3, <1>4 DEF UnderWay, Want, About

(* What is heard leaves the queue.                                             *)
LEMMA HearingLeaves ==
    ASSUME PanelTypeOK, RepliesAreTrue, back # <<>>, there' = there, back' = Tail(back), flight' = flight
    PROVE  /\ back' \in Seq(Replies) /\ flight' \in Seq(Questions) /\ RepliesAreTrue'
           /\ UnderWay' = UnderWay - 1
           /\ \A i \in 1..UnderWay - 1 : Want(i)' = Want(i + 1) /\ About(i)' = About(i + 1)
           /\ \A i \in 1..Len(back') : i + 1 \in 1..Len(back) /\ back'[i] = back[i + 1]
<1>1. back \in Seq(Replies) /\ flight \in Seq(Questions) /\ Len(back) \in Nat /\ Len(flight) \in Nat
  BY DEF PanelTypeOK
<1>2. /\ Len(back) >= 1 /\ back' \in Seq(Replies) /\ Len(back') = Len(back) - 1
      /\ \A i \in 1..Len(back) - 1 : back'[i] = back[i + 1]
  BY HeadIsHeard
<1>3. UnderWay' = UnderWay - 1 /\ \A i \in 1..UnderWay - 1 : At(i)' = At(i + 1)
  BY <1>1, <1>2 DEF UnderWay, At
<1>4. RepliesAreTrue'
  <2>1. SUFFICES ASSUME NEW i \in 1..Len(back'), back'[i].want = "traces"
                 PROVE  back'[i].found = IF back'[i].by = 0 THEN {}
                                         ELSE back'[i].of.selected \cap ChannelsOf[back'[i].by]
    BY DEF RepliesAreTrue
  <2>2. i + 1 \in 1..Len(back) /\ back'[i] = back[i + 1]
    BY <1>1, <1>2
  <2>3. QED
    BY <2>1, <2>2 DEF RepliesAreTrue
<1>5. QED
  BY <1>1, <1>2, <1>3, <1>4 DEF Want, About

(* Or goes back to its end, as the next question.                              *)
LEMMA AskingAgainJoins ==
    ASSUME PanelTypeOK, RepliesAreTrue, back # <<>>, there' = there,
           NEW want \in Steps, NEW of \in Selectable, AskingAgain(want, of), NEW n, n = UnderWay
    PROVE  /\ Joined(want, of, n - 1)
           /\ \A i \in 1..UnderWay - 1 : Want(i)' = Want(i + 1) /\ About(i)' = About(i + 1)
           /\ \A i \in 1..Len(back') : (i + 1 \in 1..Len(back) /\ back'[i] = back[i + 1]) \/ back'[i].want = want
<1>1. back \in Seq(Replies) /\ flight \in Seq(Questions) /\ Len(back) \in Nat /\ Len(flight) \in Nat /\ there \in BOOLEAN
  BY DEF PanelTypeOK
<1>2. /\ Len(back) >= 1 /\ Tail(back) \in Seq(Replies) /\ Len(Tail(back)) = Len(back) - 1
      /\ \A i \in 1..Len(back) - 1 : Tail(back)[i] = back[i + 1]
  BY HeadIsHeard
<1> DEFINE q == [want |-> want, of |-> of]
           a == [want |-> want, of |-> of, found |-> {}, by |-> 0]
<1>3. q \in Questions /\ a \in Replies
  BY EmptyHanded DEF Steps
<1>4. q.want = want /\ q.of = of /\ a.want = want /\ a.of = of /\ a.found = {} /\ a.by = 0
  OBVIOUS
<1>5. CASE there
  <2>1. flight' = Append(flight, q) /\ back' = Tail(back)
    BY <1>5 DEF AskingAgain, Question
  <2> HIDE DEF q
  <2>2. /\ flight' \in Seq(Questions) /\ Len(flight') = Len(flight) + 1 /\ flight'[Len(flight) + 1] = q
        /\ \A i \in 1..Len(flight) : flight'[i] = flight[i]
    BY <1>1, <1>3, <2>1
  <2>3. UnderWay' = n /\ At(n)' = q /\ \A i \in 1..UnderWay - 1 : At(i)' = At(i + 1)
    BY <1>1, <1>2, <2>1, <2>2 DEF UnderWay, At
  <2>4. RepliesAreTrue'
    <3>1. SUFFICES ASSUME NEW i \in 1..Len(back'), back'[i].want = "traces"
                   PROVE  back'[i].found = IF back'[i].by = 0 THEN {}
                                           ELSE back'[i].of.selected \cap ChannelsOf[back'[i].by]
      BY <1>5 DEF RepliesAreTrue
    <3>2. i + 1 \in 1..Len(back) /\ back'[i] = back[i + 1]
      BY <1>1, <1>2, <2>1
    <3>3. QED
      BY <3>1, <3>2 DEF RepliesAreTrue
  <2>5. n = (n - 1) + 1
    BY <1>1 DEF UnderWay
  <2>6. QED
    BY <1>1, <1>2, <1>4, <2>1, <2>2, <2>3, <2>4, <2>5 DEF Joined, Want, About
<1>6. CASE ~there
  <2>1. back' = Append(Tail(back), a) /\ flight' = flight /\ flight = <<>>
    BY <1>6 DEF AskingAgain, Nothing, RepliesAreTrue
  <2> HIDE DEF a
  <2>2. /\ back' \in Seq(Replies) /\ Len(back') = Len(back) /\ back'[Len(back)] = a
        /\ \A i \in 1..Len(back) - 1 : back'[i] = back[i + 1]
    <3>1. PICK rest : rest = Tail(back)
      OBVIOUS
    <3>2. rest \in Seq(Replies) /\ Len(rest) = Len(back) - 1 /\ back' = Append(rest, a)
      BY <1>2, <2>1, <3>1
    <3>3. /\ back' \in Seq(Replies) /\ Len(back') = Len(rest) + 1 /\ back'[Len(rest) + 1] = a
          /\ \A i \in 1..Len(rest) : back'[i] = rest[i]
      BY <1>3, <3>2
    <3>4. QED
      BY <1>1, <1>2, <3>1, <3>2, <3>3
  <2>3. UnderWay' = n /\ At(n)' = a /\ \A i \in 1..UnderWay - 1 : At(i)' = At(i + 1)
    BY <1>1, <1>2, <2>1, <2>2 DEF UnderWay, At
  <2>4. RepliesAreTrue'
    <3>1. SUFFICES ASSUME NEW i \in 1..Len(back'), back'[i].want = "traces"
                   PROVE  back'[i].found = IF back'[i].by = 0 THEN {}
                                           ELSE back'[i].of.selected \cap ChannelsOf[back'[i].by]
      BY <2>1 DEF RepliesAreTrue
    <3>2. CASE i = Len(back)
      BY <1>4, <2>2, <3>2
    <3>3. CASE i # Len(back)
      <4>1. i + 1 \in 1..Len(back) /\ back'[i] = back[i + 1]
        BY <1>1, <2>2, <3>3
      <4>2. QED
        BY <3>1, <4>1 DEF RepliesAreTrue
    <3>4. QED
      BY <3>2, <3>3
  <2>5. n = (n - 1) + 1
    BY <1>1 DEF UnderWay
  <2>6. \A i \in 1..Len(back') : (i + 1 \in 1..Len(back) /\ back'[i] = back[i + 1]) \/ back'[i].want = want
    <3>1. SUFFICES ASSUME NEW i \in 1..Len(back'), i # Len(back)
                   PROVE  i + 1 \in 1..Len(back) /\ back'[i] = back[i + 1]
      BY <1>4, <2>2
    <3>2. QED
      BY <1>1, <2>2, <3>1
  <2>7. Joined(want, of, n - 1)
    BY <1>1, <1>4, <2>1, <2>2, <2>3, <2>4, <2>5 DEF Joined, Want, About
  <2>8. QED
    BY <2>3, <2>6, <2>7 DEF Want, About
<1>7. QED
  BY <1>1, <1>5, <1>6

(* An answer leaves the order as it is.                                        *)
LEMMA AnsweringMovesNothing ==
    ASSUME PanelTypeOK, RepliesAreTrue, AnswerPanel
    PROVE  /\ flight' \in Seq(Questions) /\ back' \in Seq(Replies) /\ RepliesAreTrue'
           /\ UnderWay' = UnderWay
           /\ \A i \in 1..UnderWay : Want(i)' = Want(i) /\ About(i)' = About(i)
           /\ \A i \in 1..Len(back') : (i \in 1..Len(back) /\ back'[i] = back[i]) \/ back'[i].by = circuit
<1>1. /\ back \in Seq(Replies) /\ flight \in Seq(Questions) /\ Len(back) \in Nat /\ Len(flight) \in Nat
      /\ there \in BOOLEAN /\ there' = there /\ circuit \in Nat /\ circuit # 0
  BY DEF PanelTypeOK, AnswerPanel
<1> DEFINE ask   == Head(flight)
           found == CASE ask.want = "traces" -> ask.of.selected \cap ChannelsOf[circuit]
                      [] OTHER -> ChannelsOf[circuit]
           a     == [want |-> ask.want, of |-> ask.of, found |-> found, by |-> circuit]
<1>2. flight # <<>> /\ flight' = Tail(flight) /\ back' = Append(back, a)
  BY DEF AnswerPanel
<1>3. there
  BY <1>2 DEF RepliesAreTrue
<1>4. ask \in Questions /\ ask = flight[1] /\ Len(flight) >= 1
  BY <1>1, <1>2
<1>5. /\ flight' \in Seq(Questions) /\ Len(flight') = Len(flight) - 1
      /\ \A i \in 1..Len(flight) - 1 : flight'[i] = flight[i + 1]
  BY <1>1, <1>2, <1>4
<1> HIDE DEF ask
<1>6. found \in Drawings /\ (ask.want = "traces" => found = ask.of.selected \cap ChannelsOf[circuit])
  <2>1. CASE ask.want = "traces"
    <3>1. found = ask.of.selected \cap ChannelsOf[circuit]
      BY <2>1
    <3>2. ask.of \in Selectable
      BY <1>4, <2>1, QuestionFields
    <3>3. QED
      BY <1>1, <3>1, <3>2 DEF Drawings
  <2>2. CASE ask.want # "traces"
    <3>1. found = ChannelsOf[circuit]
      BY <2>2
    <3>2. QED
      BY <1>1, <2>2, <3>1 DEF Drawings
  <2>3. QED
    BY <2>1, <2>2
<1> HIDE DEF found
<1>7. a \in Replies
  BY <1>1, <1>4, <1>6, QuestionFields DEF Replies
<1>8. a.want = ask.want /\ a.of = ask.of /\ a.found = found /\ a.by = circuit
  OBVIOUS
<1> HIDE DEF a
<1>9. /\ back' \in Seq(Replies) /\ Len(back') = Len(back) + 1 /\ back'[Len(back) + 1] = a
      /\ \A i \in 1..Len(back) : back'[i] = back[i]
  BY <1>1, <1>2, <1>7
<1>10. UnderWay' = UnderWay
  BY <1>1, <1>5, <1>9 DEF UnderWay
<1>11. \A i \in 1..UnderWay : Want(i)' = Want(i) /\ About(i)' = About(i)
  <2>1. SUFFICES ASSUME NEW i \in 1..UnderWay PROVE Want(i)' = Want(i) /\ About(i)' = About(i)
    OBVIOUS
  <2>2. CASE i = Len(back) + 1
    <3>1. At(i)' = a /\ At(i) = ask
      BY <1>1, <1>4, <1>9, <2>2 DEF At
    <3>2. QED
      BY <1>8, <3>1 DEF Want, About
  <2>3. CASE i # Len(back) + 1
    <3>1. At(i)' = At(i)
      BY <1>1, <1>4, <1>5, <1>9, <2>3 DEF At, UnderWay
    <3>2. QED
      BY <3>1 DEF Want, About
  <2>4. QED
    BY <2>2, <2>3
<1>12. RepliesAreTrue'
  <2>1. SUFFICES ASSUME NEW i \in 1..Len(back'), back'[i].want = "traces"
                 PROVE  back'[i].found = IF back'[i].by = 0 THEN {}
                                         ELSE back'[i].of.selected \cap ChannelsOf[back'[i].by]
    BY <1>1, <1>3 DEF RepliesAreTrue
  <2>2. CASE i = Len(back) + 1
    BY <1>1, <1>6, <1>8, <1>9, <2>1, <2>2
  <2>3. CASE i # Len(back) + 1
    <3>1. i \in 1..Len(back) /\ back'[i] = back[i]
      BY <1>1, <1>9, <2>3
    <3>2. QED
      BY <2>1, <3>1 DEF RepliesAreTrue
  <2>4. QED
    BY <2>2, <2>3
<1>13. \A i \in 1..Len(back') : (i \in 1..Len(back) /\ back'[i] = back[i]) \/ back'[i].by = circuit
  BY <1>1, <1>8, <1>9
<1>14. QED
  BY <1>5, <1>9, <1>10, <1>11, <1>12, <1>13

-------------------------------------------------------------------------------
(* Nothing of the selection is lost on the way.                                *)

(* A new refresh draws last; so does the one that did, when something else     *)
(* joins the queue.                                                            *)
LEMMA RefreshDrawsLast ==
    ASSUME NEW n \in Nat, Joined("span", choice', n)
    PROVE  ChoiceIsOnItsWay'
<1>1. UnderWay' = n + 1 /\ Want(n + 1)' = "span" /\ About(n + 1)' = choice'
  BY DEF Joined
<1>2. DrawsLast(n + 1)'
  BY <1>1 DEF DrawsLast
<1>3. QED
  BY <1>1, <1>2 DEF ChoiceIsOnItsWay

LEMMA ListDrawsNothing ==
    ASSUME PanelTypeOK, ChoiceIsOnItsWay, UNCHANGED <<choice, plotted, asOf, refreshes>>,
           NEW of, NEW n, n = UnderWay, Joined("channels", of, n),
           \A i \in 1..UnderWay : Want(i)' = Want(i) /\ About(i)' = About(i)
    PROVE  ChoiceIsOnItsWay'
<1>1. n \in Nat /\ UnderWay' = n + 1 /\ Want(n + 1)' = "channels"
  BY UnderWayIsTyped DEF Joined
<1>2. \A j \in 1..UnderWay' : (j \in 1..UnderWay /\ Want(j)' = Want(j)) \/ Want(j)' = "channels"
  BY <1>1
<1>3. SUFFICES ASSUME refreshes > 0 PROVE ChoiceIsOnItsWay'
  BY DEF ChoiceIsOnItsWay
<1>4. CASE Drawn
  <2>1. Drawn'
    BY <1>2, <1>4 DEF Drawn
  <2>2. QED
    BY <2>1 DEF ChoiceIsOnItsWay
<1>5. ASSUME NEW p \in 1..UnderWay, DrawsLast(p) PROVE ChoiceIsOnItsWay'
  <2>1. p \in 1..UnderWay' /\ Want(p)' = Want(p) /\ About(p)' = About(p)
    BY <1>1
  <2>2. DrawsLast(p)'
    BY <1>2, <1>5, <2>1 DEF DrawsLast
  <2>3. QED
    BY <2>1, <2>2 DEF ChoiceIsOnItsWay
<1>6. QED
  BY <1>3, <1>4, <1>5 DEF ChoiceIsOnItsWay

(* Who draws last stays last as the queue goes round.                          *)
LEMMA QueueGoesRound ==
    ASSUME PanelTypeOK, NEW p \in 1..UnderWay, DrawsLast(p), p # 1, choice' = choice,
           NEW n, n = UnderWay, UnderWay' \in {n - 1, n},
           \A i \in 1..UnderWay - 1 : Want(i)' = Want(i + 1) /\ About(i)' = About(i + 1),
           UnderWay' = n => \/ Want(1) = "span" /\ Want(n)' = "traces"
                            \/ Want(1) = "traces" /\ Want(n)' = "frames"
    PROVE  \E i \in 1..UnderWay' : DrawsLast(i)'
<1>1. UnderWay \in Nat /\ 1 \in 1..UnderWay
  BY UnderWayIsTyped
<1>2. PICK i \in 1..UnderWay - 1 : p = i + 1
  <2>1. p - 1 \in 1..UnderWay - 1 /\ p = (p - 1) + 1
    BY <1>1
  <2>2. QED
    BY <2>1
<1>3. i \in 1..UnderWay' /\ Want(i)' = Want(p) /\ About(i)' = About(p) /\ About(p) = choice
  BY <1>1, <1>2 DEF DrawsLast
<1>4. \A j \in 1..UnderWay' : (j \in 1..UnderWay - 1 /\ j + 1 \in 1..UnderWay /\ Want(j)' = Want(j + 1))
                              \/ (j = n /\ UnderWay' = n)
  BY <1>1
<1>5. CASE Want(p) = "span"
  <2>1. \A j \in 1..UnderWay : j > p => Want(j) # "span"
    BY <1>5 DEF DrawsLast
  <2>2. UnderWay' = n => Want(n)' # "span"
    OBVIOUS
  <2>3. \A j \in 1..UnderWay' : j > i => Want(j)' # "span"
    BY <1>1, <1>2, <1>4, <2>1, <2>2
  <2>4. DrawsLast(i)'
    BY <1>3, <1>5, <2>3 DEF DrawsLast
  <2>5. QED
    BY <1>3, <2>4
<1>6. CASE Want(p) = "traces"
  <2>1. \A j \in 1..UnderWay : Want(j) # "span" /\ (j > p => Want(j) # "traces")
    BY <1>6 DEF DrawsLast
  <2>2. UnderWay' = n => Want(n)' = "frames"
    BY <1>1, <2>1
  <2>3. \A j \in 1..UnderWay' : Want(j)' # "span" /\ (j > i => Want(j)' # "traces")
    BY <1>1, <1>2, <1>4, <2>1, <2>2
  <2>4. DrawsLast(i)'
    BY <1>3, <1>6, <2>3 DEF DrawsLast
  <2>5. QED
    BY <1>3, <2>4
<1>7. QED
  BY <1>5, <1>6 DEF DrawsLast

(* What is heard and asked again, or not.                                      *)
LEMMA HeardRefreshIsDrawn ==
    ASSUME PanelInv, Hear
    PROVE  ChoiceIsOnItsWay'
<1>1. /\ PanelTypeOK /\ RepliesAreTrue /\ ChoiceIsOnItsWay /\ back # <<>>
      /\ UNCHANGED <<there, choice, refreshes>>
  BY DEF PanelInv, Hear
<1>2. /\ UnderWay \in Nat /\ UnderWay >= 1 /\ Head(back) = back[1] /\ Len(back) >= 1 /\ Head(back) \in Replies
      /\ Want(1) = Head(back).want /\ About(1) = Head(back).of
  BY <1>1, HeadIsHeard
<1>3. PICK n \in Nat : n = UnderWay
  BY <1>2
<1> DEFINE heard == Head(back)
<1>4. SUFFICES ASSUME refreshes > 0 PROVE ChoiceIsOnItsWay'
  BY <1>1 DEF ChoiceIsOnItsWay
<1>5. ASSUME back' = Tail(back), flight' = flight
      PROVE  /\ UnderWay' = n - 1
             /\ \A i \in 1..UnderWay - 1 : Want(i)' = Want(i + 1) /\ About(i)' = About(i + 1)
             /\ \A j \in 1..UnderWay' : j + 1 \in 1..UnderWay /\ Want(j)' = Want(j + 1)
  <2>1. /\ UnderWay' = UnderWay - 1
        /\ \A i \in 1..UnderWay - 1 : Want(i)' = Want(i + 1) /\ About(i)' = About(i + 1)
    BY <1>1, <1>5, HearingLeaves
  <2>2. QED
    BY <1>3, <2>1
<1>6. ASSUME NEW want \in Steps, AskingAgain(want, heard.of), heard.want # "channels"
      PROVE  /\ UnderWay' = n /\ Want(n)' = want /\ About(n)' = heard.of
             /\ \A i \in 1..UnderWay - 1 : Want(i)' = Want(i + 1) /\ About(i)' = About(i + 1)
             /\ \A j \in 1..UnderWay' : (j + 1 \in 1..UnderWay /\ Want(j)' = Want(j + 1)) \/ j = n
  <2>1. heard.of \in Selectable
    BY <1>2, <1>6, ReplyFields
  <2>2. PICK of \in Selectable : of = heard.of
    BY <2>1
  <2>3. /\ Joined(want, of, n - 1)
        /\ \A i \in 1..UnderWay - 1 : Want(i)' = Want(i + 1) /\ About(i)' = About(i + 1)
    BY <1>1, <1>3, <1>6, <2>2, AskingAgainJoins
  <2>4. (n - 1) + 1 = n
    OBVIOUS
  <2>5. UnderWay' = n /\ Want(n)' = want /\ About(n)' = of
    BY <2>3, <2>4 DEF Joined
  <2>6. QED
    BY <1>3, <2>2, <2>3, <2>5
<1>7. CASE heard.want = "channels" \/ heard.want = "frames"
  <2>1. back' = Tail(back) /\ UNCHANGED <<flight, plotted, asOf>>
    BY <1>7 DEF Hear
  <2>2. /\ UnderWay' = n - 1
        /\ \A i \in 1..UnderWay - 1 : Want(i)' = Want(i + 1) /\ About(i)' = About(i + 1)
        /\ \A j \in 1..UnderWay' : j + 1 \in 1..UnderWay /\ Want(j)' = Want(j + 1)
    BY <1>5, <2>1
  <2>3. CASE Drawn
    <3>1. Drawn'
      BY <1>1, <2>1, <2>2, <2>3 DEF Drawn
    <3>2. QED
      BY <3>1 DEF ChoiceIsOnItsWay
  <2>4. ASSUME NEW p \in 1..UnderWay, DrawsLast(p) PROVE ChoiceIsOnItsWay'
    <3>1. p # 1
      BY <1>2, <1>7, <2>4 DEF DrawsLast
    <3>2. UnderWay' # n
      BY <2>2
    <3>3. \E i \in 1..UnderWay' : DrawsLast(i)'
      BY <1>1, <1>3, <2>2, <2>4, <3>1, <3>2, QueueGoesRound
    <3>4. QED
      BY <3>3 DEF ChoiceIsOnItsWay
  <2>5. QED
    BY <1>1, <1>4, <2>3, <2>4 DEF ChoiceIsOnItsWay
<1>8. CASE heard.want = "span"
  <2>1. AskingAgain("traces", heard.of) /\ UNCHANGED <<plotted, asOf>>
    BY <1>8 DEF Hear
  <2>2. /\ UnderWay' = n /\ Want(n)' = "traces" /\ About(n)' = heard.of
        /\ \A i \in 1..UnderWay - 1 : Want(i)' = Want(i + 1) /\ About(i)' = About(i + 1)
        /\ \A j \in 1..UnderWay' : (j + 1 \in 1..UnderWay /\ Want(j)' = Want(j + 1)) \/ j = n
    BY <1>6, <1>8, <2>1 DEF Steps
  <2>3. ~Drawn
    BY <1>2, <1>8 DEF Drawn
  <2>4. PICK p \in 1..UnderWay : DrawsLast(p)
    BY <1>1, <1>4, <2>3 DEF ChoiceIsOnItsWay
  <2>5. CASE p = 1
    <3>1. Want(1) = "span" /\ About(1) = choice
      BY <1>2, <1>8, <2>4, <2>5 DEF DrawsLast
    <3>2. \A j \in 1..UnderWay : j > 1 => Want(j) # "span"
      BY <2>4, <2>5, <3>1 DEF DrawsLast
    <3>3. ASSUME NEW j \in 1..UnderWay' PROVE Want(j)' # "span"
      <4>1. CASE j + 1 \in 1..UnderWay /\ Want(j)' = Want(j + 1)
        <5>1. j + 1 > 1
          OBVIOUS
        <5>2. Want(j + 1) # "span"
          BY <3>2, <4>1, <5>1
        <5>3. QED
          BY <4>1, <5>2
      <4>2. CASE j = n
        BY <2>2, <4>2
      <4>3. QED
        BY <2>2, <4>1, <4>2
    <3>4. \A j \in 1..UnderWay' : ~(j > n)
      BY <2>2
    <3>5. n \in 1..UnderWay' /\ About(n)' = choice'
      BY <1>1, <1>2, <1>3, <2>2, <3>1
    <3>6. DrawsLast(n)'
      BY <2>2, <3>3, <3>4, <3>5 DEF DrawsLast
    <3>7. QED
      BY <3>5, <3>6 DEF ChoiceIsOnItsWay
  <2>6. CASE p # 1
    <3>1. Want(1) = "span"
      BY <1>2, <1>8
    <3>2. \E i \in 1..UnderWay' : DrawsLast(i)'
      BY <1>1, <1>3, <2>2, <2>4, <2>6, <3>1, QueueGoesRound
    <3>3. QED
      BY <3>2 DEF ChoiceIsOnItsWay
  <2>7. QED
    BY <2>5, <2>6
<1>9. CASE heard.want = "traces"
  <2>1. plotted' = heard.found /\ asOf' = heard.by
    BY <1>9 DEF Hear
  <2>2. \/ AskingAgain("frames", heard.of)
        \/ back' = Tail(back) /\ flight' = flight
    BY <1>9 DEF Hear
  <2>3. /\ UnderWay' \in {n - 1, n}
        /\ UnderWay' = n => Want(n)' = "frames"
        /\ \A i \in 1..UnderWay - 1 : Want(i)' = Want(i + 1) /\ About(i)' = About(i + 1)
        /\ \A j \in 1..UnderWay' : (j + 1 \in 1..UnderWay /\ Want(j)' = Want(j + 1)) \/ Want(j)' = "frames"
    <3>1. CASE AskingAgain("frames", heard.of)
      BY <1>6, <1>9, <3>1 DEF Steps
    <3>2. CASE back' = Tail(back) /\ flight' = flight
      <4>1. n - 1 # n
        OBVIOUS
      <4>2. QED
        BY <1>5, <3>2, <4>1
    <3>3. QED
      BY <2>2, <3>1, <3>2
  <2>4. ~Drawn
    BY <1>2, <1>9 DEF Drawn
  <2>5. PICK p \in 1..UnderWay : DrawsLast(p)
    BY <1>1, <1>4, <2>4 DEF ChoiceIsOnItsWay
  <2>6. CASE p = 1
    <3>1. Want(1) = "traces" /\ About(1) = choice
      BY <1>2, <1>9, <2>5, <2>6 DEF DrawsLast
    <3>2. \A j \in 1..UnderWay : j > 1 => Want(j) \notin {"span", "traces"}
      BY <2>5, <2>6, <3>1 DEF DrawsLast
    <3>3. \A j \in 1..UnderWay' : Want(j)' \notin {"span", "traces"}
      BY <1>2, <2>3, <3>2
    <3>4. heard.found = IF heard.by = 0 THEN {} ELSE heard.of.selected \cap ChannelsOf[heard.by]
      <4>1. Len(back) \in Nat
        BY <1>1 DEF PanelTypeOK
      <4>2. 1 \in 1..Len(back) /\ back[1] = heard
        BY <1>2, <4>1
      <4>3. QED
        BY <1>1, <1>9, <4>2 DEF RepliesAreTrue
    <3>5. plotted' = IF asOf' = 0 THEN {} ELSE choice'.selected \cap ChannelsOf[asOf']
      BY <1>1, <1>2, <2>1, <3>1, <3>4
    <3>6. Drawn'
      BY <3>3, <3>5 DEF Drawn
    <3>7. QED
      BY <3>6 DEF ChoiceIsOnItsWay
  <2>7. CASE p # 1
    <3>1. Want(1) = "traces"
      BY <1>2, <1>9
    <3>2. \E i \in 1..UnderWay' : DrawsLast(i)'
      BY <1>1, <1>3, <2>3, <2>5, <2>7, <3>1, QueueGoesRound
    <3>3. QED
      BY <3>2 DEF ChoiceIsOnItsWay
  <2>8. QED
    BY <2>6, <2>7
<1>10. heard.want \in {"channels", "frames", "span", "traces"}
  BY <1>2, ReplyFields DEF Steps
<1>11. QED
  BY <1>7, <1>8, <1>9, <1>10

LEMMA AnswerDrawsNothing ==
    ASSUME PanelInv, AnswerPanel
    PROVE  ChoiceIsOnItsWay'
<1>1. PanelTypeOK /\ RepliesAreTrue /\ ChoiceIsOnItsWay /\ UNCHANGED <<choice, plotted, asOf, refreshes>>
  BY DEF PanelInv, AnswerPanel
<1>2. UnderWay' = UnderWay /\ \A i \in 1..UnderWay : Want(i)' = Want(i) /\ About(i)' = About(i)
  BY <1>1, AnsweringMovesNothing
<1>3. Drawn => Drawn'
  BY <1>1, <1>2 DEF Drawn
<1>4. \A p \in 1..UnderWay : DrawsLast(p) => DrawsLast(p)'
  BY <1>1, <1>2 DEF DrawsLast
<1>5. QED
  BY <1>1, <1>2, <1>3, <1>4 DEF ChoiceIsOnItsWay

-------------------------------------------------------------------------------
(* Nor of the list of channels.                                                *)

LEMMA ListSurvivesARefresh ==
    ASSUME PanelTypeOK, ListIsOnItsWay, UNCHANGED <<circuit, offered, listing, unseen>>,
           NEW of, NEW n, n = UnderWay, Joined("span", of, n),
           \A i \in 1..UnderWay : Want(i)' = Want(i) /\ About(i)' = About(i),
           \A i \in 1..Len(back') : (i \in 1..Len(back) /\ back'[i] = back[i]) \/ back'[i].by = 0
    PROVE  ListIsOnItsWay'
<1>1. n \in Nat /\ UnderWay' = n + 1 /\ Want(n + 1)' = "span"
  BY UnderWayIsTyped DEF Joined
<1>2. \A i \in 1..UnderWay' : (i \in 1..UnderWay /\ Want(i)' = Want(i) /\ About(i)' = About(i)) \/ Want(i)' = "span"
  BY <1>1
<1>3. \A i \in 1..UnderWay : i \in 1..UnderWay'
  BY <1>1
<1>4. \A i \in 1..UnderWay' : Want(i)' = "channels" => About(i)'.number <= listing
  BY <1>2 DEF ListIsOnItsWay
<1>5. \A i \in 1..Len(back') : back'[i].want = "channels" /\ back'[i].of.number = listing
                               => back'[i].by \in {0, circuit} \/ unseen
  BY DEF ListIsOnItsWay
<1>6. \/ unseen \/ listing = 0 \/ offered \in {0, circuit}
      \/ \E i \in 1..UnderWay' : Want(i)' = "channels" /\ About(i)'.number = listing
  BY <1>3 DEF ListIsOnItsWay
<1>7. QED
  BY <1>4, <1>5, <1>6 DEF ListIsOnItsWay

(* A list that is asked for anew.                                              *)
LEMMA ListIsAskedFor ==
    ASSUME PanelTypeOK, ListIsOnItsWay, UNCHANGED <<circuit, offered>>, unseen' \in BOOLEAN,
           NEW n, n = UnderWay, NEW of, of = [number |-> listing + 1], listing' = listing + 1,
           Joined("channels", of, n),
           \A i \in 1..UnderWay : Want(i)' = Want(i) /\ About(i)' = About(i),
           \A i \in 1..Len(back') : (i \in 1..Len(back) /\ back'[i] = back[i]) \/ back'[i].by = 0
    PROVE  ListIsOnItsWay'
<1>1. n \in Nat /\ UnderWay' = n + 1 /\ Want(n + 1)' = "channels" /\ About(n + 1)' = of /\ of.number = listing + 1
  BY UnderWayIsTyped DEF Joined
<1>2. listing \in Nat
  BY DEF PanelTypeOK
<1>3. \A i \in 1..UnderWay : Want(i) = "channels" => About(i).number \in Nat /\ About(i).number <= listing
  BY UnderWayIsTyped DEF ListIsOnItsWay, Numbered
<1>4. \A i \in 1..UnderWay' : Want(i)' = "channels" => About(i)'.number <= listing'
  <2>1. SUFFICES ASSUME NEW i \in 1..UnderWay', Want(i)' = "channels" PROVE About(i)'.number <= listing'
    OBVIOUS
  <2>2. CASE i \in 1..UnderWay
    BY <1>2, <1>3, <2>1, <2>2
  <2>3. CASE i \notin 1..UnderWay
    <3>1. i = n + 1
      BY <1>1, <2>3
    <3>2. QED
      BY <1>1, <1>2, <3>1
  <2>4. QED
    BY <2>2, <2>3
<1>5. \A i \in 1..Len(back') : back'[i].want = "channels" /\ back'[i].of.number = listing'
                               => back'[i].by \in {0, circuit'} \/ unseen'
  <2>1. SUFFICES ASSUME NEW i \in 1..Len(back), back[i].want = "channels" PROVE back[i].of.number # listing + 1
    OBVIOUS
  <2>2. i \in 1..UnderWay /\ Want(i) = back[i].want /\ About(i) = back[i].of
    BY UnderWayIsTyped DEF UnderWay, Want, About, At
  <2>3. back[i].of.number \in Nat /\ back[i].of.number <= listing
    BY <1>3, <2>1, <2>2
  <2>4. QED
    BY <1>2, <2>3
<1>6. \E i \in 1..UnderWay' : Want(i)' = "channels" /\ About(i)'.number = listing'
  <2>1. n + 1 \in 1..UnderWay'
    BY <1>1
  <2>2. QED
    BY <1>1, <2>1
<1>7. listing' # 0
  BY <1>2
<1>8. QED
  BY <1>4, <1>5, <1>6, <1>7 DEF ListIsOnItsWay

LEMMA HeardListIsOffered ==
    ASSUME PanelInv, Hear
    PROVE  ListIsOnItsWay'
<1>1. /\ PanelTypeOK /\ RepliesAreTrue /\ ListIsOnItsWay /\ back # <<>>
      /\ UNCHANGED <<there, circuit, listing, unseen>>
  BY DEF PanelInv, Hear
<1>2. /\ UnderWay \in Nat /\ UnderWay >= 1 /\ Head(back) = back[1] /\ Len(back) >= 1 /\ Head(back) \in Replies
      /\ Len(back) \in Nat /\ Want(1) = Head(back).want /\ About(1) = Head(back).of
  BY <1>1, HeadIsHeard, UnderWayIsTyped
<1> DEFINE heard == Head(back)
<1>3. /\ UnderWay' \in Nat /\ UnderWay' >= UnderWay - 1
      /\ \A i \in 1..UnderWay - 1 : Want(i)' = Want(i + 1) /\ About(i)' = About(i + 1)
      /\ \A i \in 1..UnderWay' : i \in 1..UnderWay - 1 \/ Want(i)' # "channels"
      /\ \A i \in 1..Len(back') : (i + 1 \in 1..Len(back) /\ back'[i] = back[i + 1]) \/ back'[i].want # "channels"
  <2>1. CASE back' = Tail(back) /\ flight' = flight
    <3>1. /\ UnderWay' = UnderWay - 1
          /\ \A i \in 1..UnderWay - 1 : Want(i)' = Want(i + 1) /\ About(i)' = About(i + 1)
          /\ \A i \in 1..Len(back') : i + 1 \in 1..Len(back) /\ back'[i] = back[i + 1]
      BY <1>1, <2>1, HearingLeaves
    <3>2. QED
      BY <1>2, <3>1
  <2>2. ASSUME NEW want \in Steps, AskingAgain(want, heard.of), heard.want # "channels"
        PROVE  /\ UnderWay' \in Nat /\ UnderWay' >= UnderWay - 1
               /\ \A i \in 1..UnderWay - 1 : Want(i)' = Want(i + 1) /\ About(i)' = About(i + 1)
               /\ \A i \in 1..UnderWay' : i \in 1..UnderWay - 1 \/ Want(i)' # "channels"
               /\ \A i \in 1..Len(back') : (i + 1 \in 1..Len(back) /\ back'[i] = back[i + 1]) \/ back'[i].want # "channels"
    <3>1. PICK of \in Selectable : of = heard.of
      BY <1>2, <2>2, ReplyFields
    <3>2. PICK n \in Nat : n = UnderWay
      BY <1>2
    <3>3. /\ Joined(want, of, n - 1)
          /\ \A i \in 1..UnderWay - 1 : Want(i)' = Want(i + 1) /\ About(i)' = About(i + 1)
          /\ \A i \in 1..Len(back') : (i + 1 \in 1..Len(back) /\ back'[i] = back[i + 1]) \/ back'[i].want = want
      BY <1>1, <2>2, <3>1, <3>2, AskingAgainJoins
    <3>4. UnderWay' = n /\ Want(n)' = want /\ want # "channels"
      <4>1. (n - 1) + 1 = n
        OBVIOUS
      <4>2. QED
        BY <3>3, <4>1 DEF Joined, Steps
    <3>5. \A i \in 1..UnderWay' : i \in 1..UnderWay - 1 \/ i = n
      BY <3>2, <3>4
    <3>6. QED
      BY <3>2, <3>3, <3>4, <3>5
  <2>3. \/ back' = Tail(back) /\ flight' = flight
        \/ heard.want = "span" /\ AskingAgain("traces", heard.of)
        \/ heard.want = "traces" /\ AskingAgain("frames", heard.of)
    BY DEF Hear
  <2>4. QED
    BY <2>1, <2>2, <2>3 DEF Steps
<1>4. \A i \in 1..UnderWay' : Want(i)' = "channels" => About(i)'.number <= listing
  <2>1. SUFFICES ASSUME NEW i \in 1..UnderWay', Want(i)' = "channels" PROVE About(i)'.number <= listing
    OBVIOUS
  <2>2. i + 1 \in 1..UnderWay /\ Want(i)' = Want(i + 1) /\ About(i)' = About(i + 1)
    BY <1>2, <1>3, <2>1
  <2>3. QED
    BY <1>1, <2>1, <2>2 DEF ListIsOnItsWay
<1>5. \A i \in 1..Len(back') : back'[i].want = "channels" /\ back'[i].of.number = listing
                               => back'[i].by \in {0, circuit} \/ unseen
  <2>1. SUFFICES ASSUME NEW i \in 1..Len(back'), back'[i].want = "channels", back'[i].of.number = listing
                 PROVE  back'[i].by \in {0, circuit} \/ unseen
    OBVIOUS
  <2>2. i + 1 \in 1..Len(back) /\ back'[i] = back[i + 1]
    BY <1>3, <2>1
  <2>3. QED
    BY <1>1, <2>1, <2>2 DEF ListIsOnItsWay
<1>6. \/ unseen \/ listing = 0 \/ offered' \in {0, circuit}
      \/ \E i \in 1..UnderWay' : Want(i)' = "channels" /\ About(i)'.number = listing
  <2>1. CASE heard.want = "channels" /\ heard.of.number = listing
    <3>1. offered' = heard.by
      BY <2>1 DEF Hear
    <3>2. heard.by \in {0, circuit} \/ unseen
      BY <1>1, <1>2, <2>1 DEF ListIsOnItsWay
    <3>3. QED
      BY <3>1, <3>2
  <2>2. CASE ~(heard.want = "channels" /\ heard.of.number = listing)
    <3>1. offered' = offered
      BY <2>2 DEF Hear
    <3>2. CASE unseen \/ listing = 0 \/ offered \in {0, circuit}
      BY <3>1, <3>2
    <3>3. ASSUME NEW i \in 1..UnderWay, Want(i) = "channels", About(i).number = listing
          PROVE  \E k \in 1..UnderWay' : Want(k)' = "channels" /\ About(k)'.number = listing
      <4>1. i # 1
        BY <1>2, <2>2, <3>3
      <4>2. PICK k \in 1..UnderWay - 1 : i = k + 1
        <5>1. i - 1 \in 1..UnderWay - 1 /\ i = (i - 1) + 1
          BY <1>2, <4>1
        <5>2. QED
          BY <5>1
      <4>3. k \in 1..UnderWay' /\ Want(k)' = Want(i) /\ About(k)' = About(i)
        BY <1>2, <1>3, <4>2
      <4>4. QED
        BY <3>3, <4>3
    <3>4. QED
      BY <1>1, <3>2, <3>3 DEF ListIsOnItsWay
  <2>3. QED
    BY <2>1, <2>2
<1>7. QED
  BY <1>1, <1>4, <1>5, <1>6 DEF ListIsOnItsWay

LEMMA AnswerIsOfTheCircuit ==
    ASSUME PanelInv, AnswerPanel
    PROVE  ListIsOnItsWay'
<1>1. PanelTypeOK /\ RepliesAreTrue /\ ListIsOnItsWay /\ UNCHANGED <<circuit, offered, listing, unseen>>
  BY DEF PanelInv, AnswerPanel
<1>2. /\ UnderWay' = UnderWay /\ \A i \in 1..UnderWay : Want(i)' = Want(i) /\ About(i)' = About(i)
      /\ \A i \in 1..Len(back') : (i \in 1..Len(back) /\ back'[i] = back[i]) \/ back'[i].by = circuit
  BY <1>1, AnsweringMovesNothing
<1>3. \A i \in 1..UnderWay' : Want(i)' = "channels" => About(i)'.number <= listing
  BY <1>1, <1>2 DEF ListIsOnItsWay
<1>4. \A i \in 1..Len(back') : back'[i].want = "channels" /\ back'[i].of.number = listing
                               => back'[i].by \in {0, circuit} \/ unseen
  BY <1>1, <1>2 DEF ListIsOnItsWay
<1>5. \/ unseen \/ listing = 0 \/ offered \in {0, circuit}
      \/ \E i \in 1..UnderWay' : Want(i)' = "channels" /\ About(i)'.number = listing
  BY <1>1, <1>2 DEF ListIsOnItsWay
<1>6. QED
  BY <1>1, <1>3, <1>4, <1>5 DEF ListIsOnItsWay

-------------------------------------------------------------------------------
(* The theorem.                                                                *)

LEMMA PanelInitEstablishes == ASSUME PanelInit PROVE PanelInv
<1>1. flight = <<>> /\ back = <<>> /\ Len(flight) = 0 /\ Len(back) = 0 /\ UnderWay = 0
  BY DEF PanelInit, UnderWay
<1>2. flight \in Seq(Questions) /\ back \in Seq(Replies)
  BY <1>1
<1>3. choice \in Selectable
  BY DEF PanelInit, Selectable
<1>4. PanelTypeOK
  BY <1>2, <1>3 DEF PanelInit, PanelTypeOK
<1>5. RepliesAreTrue
  BY <1>1 DEF RepliesAreTrue
<1>6. ChoiceIsOnItsWay
  BY DEF PanelInit, ChoiceIsOnItsWay
<1>7. ListIsOnItsWay
  BY <1>1 DEF PanelInit, ListIsOnItsWay
<1>8. QED
  BY <1>4, <1>5, <1>6, <1>7 DEF PanelInv

(* A refresh of what is chosen by then.                                        *)
LEMMA RefreshKeeps ==
    ASSUME PanelInv, Refresh(choice'), choice' \in Selectable,
           UNCHANGED <<there, circuit, offered, listing, unseen>>
    PROVE  PanelInv'
<1>1. PanelTypeOK /\ RepliesAreTrue /\ ListIsOnItsWay
  BY DEF PanelInv
<1>2. PICK n : n = UnderWay
  OBVIOUS
<1>3. PICK of \in Selectable : of = choice'
  OBVIOUS
<1>4. refreshes' = refreshes + 1 /\ Asking("span", of)
  BY <1>3 DEF Refresh
<1>5. /\ Joined("span", of, n)
      /\ \A i \in 1..UnderWay : Want(i)' = Want(i) /\ About(i)' = About(i)
      /\ \A i \in 1..Len(back') : (i \in 1..Len(back) /\ back'[i] = back[i]) \/ back'[i].by = 0
  BY <1>1, <1>2, <1>4, AskingJoins DEF Steps
<1>6. n \in Nat
  BY <1>1, <1>2, UnderWayIsTyped
<1>7. ChoiceIsOnItsWay'
  BY <1>3, <1>5, <1>6, RefreshDrawsLast
<1>8. ListIsOnItsWay'
  BY <1>1, <1>2, <1>5, ListSurvivesARefresh
<1>9. PanelTypeOK' /\ RepliesAreTrue'
  BY <1>1, <1>4, <1>5 DEF PanelTypeOK, Joined
<1>10. QED
  BY <1>7, <1>8, <1>9 DEF PanelInv

LEMMA ListKeeps ==
    ASSUME PanelInv, List, unseen' \in BOOLEAN,
           UNCHANGED <<there, circuit, choice, offered, plotted, asOf, refreshes>>
    PROVE  PanelInv'
<1>1. PanelTypeOK /\ RepliesAreTrue /\ ChoiceIsOnItsWay /\ ListIsOnItsWay /\ listing \in Nat
  BY DEF PanelInv, PanelTypeOK
<1>2. PICK n : n = UnderWay
  OBVIOUS
<1>3. PICK of \in Numbered : of = [number |-> listing + 1]
  <2>1. listing + 1 \in Nat
    BY <1>1
  <2>2. [number |-> listing + 1] \in Numbered
    BY <2>1 DEF Numbered
  <2>3. QED
    BY <2>2
<1>4. listing' = listing + 1 /\ Asking("channels", of)
  BY <1>3 DEF List
<1>5. /\ Joined("channels", of, n)
      /\ \A i \in 1..UnderWay : Want(i)' = Want(i) /\ About(i)' = About(i)
      /\ \A i \in 1..Len(back') : (i \in 1..Len(back) /\ back'[i] = back[i]) \/ back'[i].by = 0
  BY <1>1, <1>2, <1>4, AskingJoins
<1>6. ChoiceIsOnItsWay'
  BY <1>1, <1>2, <1>5, ListDrawsNothing
<1>7. ListIsOnItsWay'
  BY <1>1, <1>2, <1>3, <1>4, <1>5, ListIsAskedFor
<1>8. PanelTypeOK' /\ RepliesAreTrue'
  BY <1>1, <1>4, <1>5 DEF PanelTypeOK, Joined
<1>9. QED
  BY <1>6, <1>7, <1>8 DEF PanelInv

(* What leaves the queue alone.                                                *)
LEMMA QueueStands ==
    ASSUME PanelInv, UNCHANGED <<choice, flight, back, offered, plotted, asOf, listing, refreshes>>,
           there' \in BOOLEAN, there => there', circuit' \in Nat, circuit' # 0,
           (circuit' = circuit /\ unseen' = unseen) \/ unseen'
    PROVE  PanelInv'
<1>1. PanelTypeOK /\ RepliesAreTrue /\ ChoiceIsOnItsWay /\ ListIsOnItsWay
  BY DEF PanelInv
<1>2. UnderWay' = UnderWay /\ \A i \in 1..UnderWay : Want(i)' = Want(i) /\ About(i)' = About(i)
  BY DEF UnderWay, Want, About, At
<1>3. PanelTypeOK'
  BY <1>1 DEF PanelTypeOK
<1>4. RepliesAreTrue'
  BY <1>1 DEF RepliesAreTrue
<1>5. ChoiceIsOnItsWay'
  <2>1. Drawn => Drawn'
    BY <1>2 DEF Drawn
  <2>2. \A p \in 1..UnderWay : DrawsLast(p) => DrawsLast(p)'
    BY <1>2 DEF DrawsLast
  <2>3. QED
    BY <1>1, <1>2, <2>1, <2>2 DEF ChoiceIsOnItsWay
<1>6. ListIsOnItsWay'
  <2>1. \A i \in 1..UnderWay' : Want(i)' = "channels" => About(i)'.number <= listing
    BY <1>1, <1>2 DEF ListIsOnItsWay
  <2>2. \A i \in 1..Len(back') : back'[i].want = "channels" /\ back'[i].of.number = listing
                                 => back'[i].by \in {0, circuit'} \/ unseen'
    BY <1>1 DEF ListIsOnItsWay
  <2>3. \/ unseen' \/ listing = 0 \/ offered \in {0, circuit'}
        \/ \E i \in 1..UnderWay' : Want(i)' = "channels" /\ About(i)'.number = listing
    BY <1>1, <1>2 DEF ListIsOnItsWay
  <2>4. listing = 0 => unseen'
    BY <1>1 DEF ListIsOnItsWay
  <2>5. QED
    BY <2>1, <2>2, <2>3, <2>4 DEF ListIsOnItsWay
<1>7. QED
  BY <1>3, <1>4, <1>5, <1>6 DEF PanelInv

LEMMA HearingIsTyped ==
    ASSUME PanelInv, Hear
    PROVE  flight' \in Seq(Questions) /\ back' \in Seq(Replies) /\ RepliesAreTrue'
<1>1. PanelTypeOK /\ RepliesAreTrue /\ back # <<>> /\ there' = there
  BY DEF PanelInv, Hear
<1>2. Head(back) \in Replies
  BY <1>1, HeadIsHeard
<1>3. CASE back' = Tail(back) /\ flight' = flight
  BY <1>1, <1>3, HearingLeaves
<1>4. ASSUME NEW want \in Steps, AskingAgain(want, Head(back).of), Head(back).want # "channels"
      PROVE  flight' \in Seq(Questions) /\ back' \in Seq(Replies) /\ RepliesAreTrue'
  <2>1. PICK of \in Selectable : of = Head(back).of
    BY <1>2, <1>4, ReplyFields
  <2>2. PICK n : n = UnderWay
    OBVIOUS
  <2>3. Joined(want, of, n - 1)
    BY <1>1, <1>4, <2>1, <2>2, AskingAgainJoins
  <2>4. QED
    BY <2>3 DEF Joined
<1>5. \/ back' = Tail(back) /\ flight' = flight
      \/ Head(back).want = "span" /\ AskingAgain("traces", Head(back).of)
      \/ Head(back).want = "traces" /\ AskingAgain("frames", Head(back).of)
  BY DEF Hear
<1>6. QED
  BY <1>3, <1>4, <1>5 DEF Steps

(* The panel is opened: its list and its first refresh are all that is asked.  *)
LEMMA OpeningKeeps ==
    ASSUME PanelInv, ShutPanelIsQuiet, OpenPanel
    PROVE  PanelInv'
<1>1. /\ PanelTypeOK /\ RepliesAreTrue /\ ListIsOnItsWay /\ flight = <<>> /\ back = <<>> /\ listing = 0
      /\ listing' = 1 /\ refreshes' = refreshes + 1 /\ choice \in Selectable
      /\ UNCHANGED <<there, circuit, choice, offered, plotted, asOf, unseen>>
  BY DEF PanelInv, ShutPanelIsQuiet, OpenPanel, PanelTypeOK
<1> DEFINE of == [number |-> 1]
<1>2. of \in Numbered /\ of.number = 1
  BY DEF Numbered
<1>3. /\ Question("channels", of) \in Questions /\ Question("span", choice) \in Questions
      /\ Nothing("channels", of) \in Replies /\ Nothing("span", choice) \in Replies
  BY <1>1, <1>2, EmptyHanded DEF Question, Nothing, Steps
<1>4. /\ Question("channels", of).want = "channels" /\ Question("channels", of).of = of
      /\ Question("span", choice).want = "span" /\ Question("span", choice).of = choice
      /\ Nothing("channels", of).want = "channels" /\ Nothing("channels", of).of = of
      /\ Nothing("span", choice).want = "span" /\ Nothing("span", choice).of = choice
      /\ Nothing("channels", of).by = 0 /\ Nothing("span", choice).by = 0
  BY DEF Question, Nothing
<1>5. /\ UnderWay' = 2 /\ flight' \in Seq(Questions) /\ back' \in Seq(Replies)
      /\ Want(1)' = "channels" /\ About(1)' = of /\ Want(2)' = "span" /\ About(2)' = choice
      /\ ~there => flight' = <<>>
      /\ \A i \in 1..Len(back') : back'[i].want # "traces" /\ back'[i].by = 0
  <2> DEFINE ql == Question("channels", of)
             qs == Question("span", choice)
             nl == Nothing("channels", of)
             ns == Nothing("span", choice)
  <2>1. IF there THEN flight' = flight \o <<ql, qs>> /\ back' = back
        ELSE back' = back \o <<nl, ns>> /\ flight' = flight
    BY DEF OpenPanel
  <2> HIDE DEF ql, qs, nl, ns, of
  <2>2. CASE there
    <3>1. flight' = <<ql, qs>> /\ back' = <<>>
      BY <1>1, <2>1, <2>2
    <3>2. flight' \in Seq(Questions) /\ Len(flight') = 2 /\ flight'[1] = ql /\ flight'[2] = qs
      BY <1>3, <3>1 DEF ql, qs
    <3>3. back' \in Seq(Replies) /\ Len(back') = 0
      BY <3>1
    <3>4. UnderWay' = 2 /\ At(1)' = ql /\ At(2)' = qs
      BY <3>2, <3>3 DEF UnderWay, At
    <3>5. QED
      BY <1>4, <2>2, <3>2, <3>3, <3>4 DEF Want, About, ql, qs
  <2>3. CASE ~there
    <3>1. back' = <<nl, ns>> /\ flight' = <<>>
      BY <1>1, <2>1, <2>3
    <3>2. back' \in Seq(Replies) /\ Len(back') = 2 /\ back'[1] = nl /\ back'[2] = ns
      BY <1>3, <3>1 DEF nl, ns
    <3>3. flight' \in Seq(Questions) /\ Len(flight') = 0
      BY <3>1
    <3>4. UnderWay' = 2 /\ At(1)' = nl /\ At(2)' = ns
      BY <3>2, <3>3 DEF UnderWay, At
    <3>5. \A i \in 1..Len(back') : i = 1 \/ i = 2
      BY <3>2
    <3>6. QED
      BY <1>4, <3>1, <3>2, <3>3, <3>4, <3>5 DEF Want, About, nl, ns
  <2>4. QED
    BY <2>2, <2>3
<1>6. PanelTypeOK' /\ RepliesAreTrue'
  BY <1>1, <1>5 DEF PanelTypeOK, RepliesAreTrue
<1>7. ChoiceIsOnItsWay'
  <2>1. 2 \in 1..UnderWay' /\ \A j \in 1..UnderWay' : ~(j > 2)
    BY <1>5
  <2>2. DrawsLast(2)'
    BY <1>1, <1>5, <2>1 DEF DrawsLast
  <2>3. QED
    BY <2>1, <2>2 DEF ChoiceIsOnItsWay
<1>8. ListIsOnItsWay'
  <2>1. 1 \in 1..UnderWay' /\ \A i \in 1..UnderWay' : i = 1 \/ i = 2
    BY <1>5
  <2>2. \A i \in 1..UnderWay' : Want(i)' = "channels" => About(i)'.number <= listing'
    BY <1>1, <1>2, <1>5, <2>1
  <2>3. \A i \in 1..Len(back') : back'[i].want = "channels" /\ back'[i].of.number = listing'
                                 => back'[i].by \in {0, circuit'} \/ unseen'
    BY <1>5
  <2>4. \E i \in 1..UnderWay' : Want(i)' = "channels" /\ About(i)'.number = listing'
    BY <1>1, <1>2, <1>5, <2>1
  <2>5. QED
    BY <1>1, <2>2, <2>3, <2>4 DEF ListIsOnItsWay
<1>9. QED
  BY <1>6, <1>7, <1>8 DEF PanelInv

(* However many refreshes of the panel (panels/Scope.tsx) are under way, when  *)
(* the last has been answered it shows what is selected, of the circuit that   *)
(* was asked last, and offers the channels of the one that runs.               *)
THEOREM PanelsSettle == PanelSpec => []PanelSettles
<1>1. PanelInit => PanelInv /\ ShutPanelIsQuiet
  BY PanelInitEstablishes DEF PanelInit, ShutPanelIsQuiet
<1>2. PanelInv /\ ShutPanelIsQuiet /\ [PanelNext]_panelVars => PanelInv'
  <2>1. SUFFICES ASSUME PanelInv, ShutPanelIsQuiet, [PanelNext]_panelVars PROVE PanelInv'
    OBVIOUS
  <2>2. choice \in Selectable /\ there \in BOOLEAN /\ circuit \in Nat /\ circuit # 0
    BY <2>1 DEF PanelInv, PanelTypeOK
  <2>3. CASE OpenPanel
    BY <2>1, <2>3, OpeningKeeps
  <2>4. CASE Timer
    <3>1. Refresh(choice') /\ UNCHANGED <<there, circuit, choice, offered, listing, unseen>>
      BY <2>4 DEF Timer
    <3>2. QED
      BY <2>1, <2>2, <3>1, RefreshKeeps
  <2>5. CASE StartOrPause
    <3>1. Refresh(choice') /\ UNCHANGED <<there, circuit, choice, offered, listing, unseen>>
      BY <2>5 DEF StartOrPause
    <3>2. QED
      BY <2>1, <2>2, <3>1, RefreshKeeps
  <2>6. ASSUME NEW to \in [selected : Selections, decode : BOOLEAN], Choose(to) PROVE PanelInv'
    <3>1. Refresh(choice') /\ choice' = to /\ UNCHANGED <<there, circuit, offered, listing, unseen>>
      BY <2>6 DEF Choose
    <3>2. to \in Selectable
      BY DEF Selectable
    <3>3. QED
      BY <2>1, <3>1, <3>2, RefreshKeeps
  <2>7. CASE WorkerIsUp
    BY <2>1, <2>2, <2>7, QueueStands DEF WorkerIsUp
  <2>8. CASE TickPanel
    BY <2>1, <2>2, <2>8, QueueStands DEF TickPanel
  <2>9. CASE LoadCircuit
    <3>1. circuit' \in Nat /\ circuit' # 0 /\ unseen'
      BY <2>2, <2>9 DEF LoadCircuit
    <3>2. QED
      BY <2>1, <2>2, <2>9, <3>1, QueueStands DEF LoadCircuit
  <2>10. CASE SnapshotPanel
    BY <2>1, <2>10, ListKeeps DEF SnapshotPanel
  <2>11. CASE AnswerPanel
    <3>1. ChoiceIsOnItsWay' /\ ListIsOnItsWay'
      BY <2>1, <2>11, AnswerDrawsNothing, AnswerIsOfTheCircuit
    <3>2. flight' \in Seq(Questions) /\ back' \in Seq(Replies) /\ RepliesAreTrue'
      BY <2>1, <2>11, AnsweringMovesNothing DEF PanelInv
    <3>3. PanelTypeOK'
      BY <2>1, <2>11, <3>2 DEF PanelInv, PanelTypeOK, AnswerPanel
    <3>4. QED
      BY <3>1, <3>2, <3>3 DEF PanelInv
  <2>12. CASE Hear
    <3>1. ChoiceIsOnItsWay' /\ ListIsOnItsWay'
      BY <2>1, <2>12, HeardRefreshIsDrawn, HeardListIsOffered
    <3>2. flight' \in Seq(Questions) /\ back' \in Seq(Replies) /\ RepliesAreTrue'
      BY <2>1, <2>12, HearingIsTyped
    <3>3. PanelTypeOK'
      BY <2>1, <2>12, <3>2 DEF PanelInv, PanelTypeOK, Hear
    <3>4. QED
      BY <3>1, <3>2, <3>3 DEF PanelInv
  <2>13. CASE UNCHANGED panelVars
    BY <2>1, <2>2, <2>13, QueueStands DEF panelVars
  <2>14. QED
    BY <2>1, <2>3, <2>4, <2>5, <2>6, <2>7, <2>8, <2>9, <2>10, <2>11, <2>12, <2>13 DEF PanelNext
<1>3. PanelInv /\ ShutPanelIsQuiet /\ [PanelNext]_panelVars => ShutPanelIsQuiet'
  <2>1. SUFFICES ASSUME PanelInv, ShutPanelIsQuiet, [PanelNext]_panelVars, listing' = 0
                 PROVE  flight' = <<>> /\ back' = <<>>
    BY DEF ShutPanelIsQuiet
  <2>2. listing \in Nat
    BY <2>1 DEF PanelInv, PanelTypeOK
  <2>3. listing = 0 /\ UNCHANGED <<flight, back>>
    <3>1. CASE OpenPanel \/ SnapshotPanel
      BY <2>1, <2>2, <3>1 DEF OpenPanel, SnapshotPanel, List
    <3>2. CASE Timer \/ StartOrPause
      BY <2>1, <3>2 DEF Timer, StartOrPause
    <3>3. ASSUME NEW to \in [selected : Selections, decode : BOOLEAN], Choose(to) PROVE FALSE
      BY <2>1, <3>3 DEF Choose
    <3>4. CASE AnswerPanel \/ Hear
      BY <2>1, <3>4 DEF AnswerPanel, Hear, ShutPanelIsQuiet
    <3>5. CASE WorkerIsUp \/ TickPanel \/ LoadCircuit
      BY <2>1, <3>5 DEF WorkerIsUp, TickPanel, LoadCircuit
    <3>6. CASE UNCHANGED panelVars
      BY <2>1, <3>6 DEF panelVars
    <3>7. QED
      BY <2>1, <3>1, <3>2, <3>3, <3>4, <3>5, <3>6 DEF PanelNext
  <2>4. QED
    BY <2>1, <2>3 DEF ShutPanelIsQuiet
<1>4. PanelInv => PanelSettles
  <2>1. SUFFICES ASSUME PanelInv, PanelAtRest PROVE PanelSettles
    BY DEF PanelSettles, SelectedIsDrawn, ListIsOfTheCircuit
  <2>2. UnderWay = 0
    BY <2>1 DEF PanelAtRest, UnderWay
  <2>3. SelectedIsDrawn
    BY <2>1, <2>2 DEF PanelInv, ChoiceIsOnItsWay, Drawn, SelectedIsDrawn
  <2>4. ListIsOfTheCircuit
    BY <2>1, <2>2 DEF PanelInv, PanelTypeOK, ListIsOnItsWay, ListIsOfTheCircuit
  <2>5. QED
    BY <2>3, <2>4 DEF PanelSettles
<1>5. QED
  BY <1>1, <1>2, <1>3, <1>4, PTL DEF PanelSpec
-------------------------------------------------------------------------------
(* The HEX loader, for any records, lengths of file and sizes of the flash.    *)

AddressTypes == {"segment", "linear"}
Image == [0..FlashBytes - 1 -> Nat \X Nat]

HexTypeOK ==
    /\ image \in Image /\ highAddress \in Int /\ highestWritten \in Nat
    /\ verdict \in {"reading", "loaded", "error"} /\ linesRead \in Seq(Records)

(* The address records above line i, and where the last of them has moved to.  *)
AddressesAbove(lines, i) == {j \in 1..i - 1 : lines[j].type \in AddressTypes}
BaseOf(lines, i) ==
    IF AddressesAbove(lines, i) = {} THEN 0
    ELSE LET r == lines[Max(AddressesAbove(lines, i))]
         IN  r.value * (IF r.type = "segment" THEN Paragraph ELSE Page)
HasLast(lines, i) ==
    AddressesAbove(lines, i) = {} \/ \E m \in AddressesAbove(lines, i) : \A j \in AddressesAbove(lines, i) : m >= j

(* Where line i of a file puts its byte k.                                     *)
PutBy(lines, i, k) == BaseOf(lines, i) + lines[i].address + k

(* The loader's base is the file's, or is negative, where nothing is written.  *)
BaseIsTheFiles == verdict = "reading" => highAddress = BaseOf(linesRead, Len(linesRead) + 1) \/ highAddress <= -Page

LinesAreGood ==
    verdict # "error" =>
        \A i \in DOMAIN linesRead :
            WellFormed(linesRead[i]) /\ linesRead[i].type \in {"data", "end", "segment", "linear"}

BytesAreThere ==
    verdict # "error" =>
        \A i \in DOMAIN linesRead : linesRead[i].type = "data" =>
            \A k \in 0..linesRead[i].count - 1 :
                PutBy(linesRead, i, k) \in 0..FlashBytes - 1 /\ image[PutBy(linesRead, i, k)][1] >= i

NothingElseIs ==
    \A b \in 0..FlashBytes - 1 : image[b] # Unwritten =>
        image[b][1] \in DOMAIN linesRead /\ PutBy(linesRead, image[b][1], image[b][2]) = b

HexInv ==
    /\ HexTypeOK
    /\ \A i \in 1..Len(linesRead) + 1 : HasLast(linesRead, i)
    /\ BaseIsTheFiles /\ LinesAreGood /\ BytesAreThere /\ NothingElseIs

LEMMA RecordsAreTyped ==
    ASSUME NEW r \in Records
    PROVE  /\ r.address \in Nat /\ r.address <= Page - 1 /\ r.count \in Nat /\ r.value \in Nat
           /\ r.type = "linear" => r.value < 2 * SignBit
           /\ Page \in Nat /\ Page >= 1 /\ Paragraph \in Nat /\ FlashBytes \in Nat /\ FlashBytes <= Page
           /\ SignBit \in Nat
BY HexAssumption

(* What is above a line does not change with what comes below it.              *)
LEMMA AboveStays ==
    ASSUME NEW lines \in Seq(Records), NEW r \in Records, NEW i \in 1..Len(lines) + 1,
           NEW longer, longer = Append(lines, r)
    PROVE  AddressesAbove(longer, i) = AddressesAbove(lines, i)
<1>1. \A j \in 1..i - 1 : j \in 1..Len(lines) /\ longer[j] = lines[j]
  OBVIOUS
<1>2. QED
  BY <1>1 DEF AddressesAbove

LEMMA LastIsAbove ==
    ASSUME NEW lines \in Seq(Records), NEW i \in 1..Len(lines) + 1, HasLast(lines, i),
           AddressesAbove(lines, i) # {}
    PROVE  Max(AddressesAbove(lines, i)) \in AddressesAbove(lines, i)
BY DEF HasLast, Max

LEMMA BasesStay ==
    ASSUME NEW lines \in Seq(Records), NEW r \in Records, NEW i \in 1..Len(lines) + 1, HasLast(lines, i),
           NEW longer, longer = Append(lines, r)
    PROVE  BaseOf(longer, i) = BaseOf(lines, i) /\ HasLast(longer, i)
<1> DEFINE above == AddressesAbove(lines, i)
<1>1. AddressesAbove(longer, i) = above
  BY AboveStays
<1>2. above # {} => longer[Max(above)] = lines[Max(above)]
  <2>1. SUFFICES ASSUME above # {} PROVE longer[Max(above)] = lines[Max(above)]
    OBVIOUS
  <2>2. Max(above) \in above
    BY <2>1, LastIsAbove
  <2>3. Max(above) \in 1..Len(lines)
    BY <2>2 DEF AddressesAbove
  <2> HIDE DEF above
  <2>4. QED
    BY <2>3
<1> HIDE DEF above
<1>3. QED
  BY <1>1, <1>2 DEF BaseOf, HasLast, above

(* The base below a line: its own, if it moves it.                             *)
LEMMA BaseMoves ==
    ASSUME NEW lines \in Seq(Records), NEW r \in Records, HasLast(lines, Len(lines) + 1),
           NEW longer, longer = Append(lines, r)
    PROVE  /\ HasLast(longer, Len(longer) + 1)
           /\ BaseOf(longer, Len(longer) + 1)
                = IF r.type \in AddressTypes THEN r.value * (IF r.type = "segment" THEN Paragraph ELSE Page)
                  ELSE BaseOf(lines, Len(lines) + 1)
<1> DEFINE n == Len(lines) + 1
           before == AddressesAbove(longer, n)
           after  == AddressesAbove(longer, Len(longer) + 1)
<1>1. n \in Nat /\ Len(longer) = n /\ longer[n] = r /\ n \in 1..n
  OBVIOUS
<1>2. BaseOf(longer, n) = BaseOf(lines, n) /\ HasLast(longer, n)
  BY <1>1, BasesStay
<1>3. CASE r.type \in AddressTypes
  <2>1. n \in after /\ \A j \in after : j \in Nat /\ n >= j
    BY <1>1, <1>3 DEF AddressesAbove
  <2>2. Max(after) = n
    <3>1. PICK m : m = Max(after)
      OBVIOUS
    <3>2. m \in after /\ \A j \in after : m >= j
      BY <2>1, <3>1 DEF Max
    <3>3. m >= n /\ n >= m /\ m \in Nat
      BY <2>1, <3>2
    <3>4. QED
      BY <1>1, <3>1, <3>3
  <2>3. BaseOf(longer, Len(longer) + 1) = r.value * (IF r.type = "segment" THEN Paragraph ELSE Page)
    BY <1>1, <2>1, <2>2 DEF BaseOf
  <2>4. QED
    BY <1>3, <2>1, <2>3 DEF HasLast
<1>4. CASE r.type \notin AddressTypes
  <2>1. after = before
    BY <1>1, <1>4 DEF AddressesAbove
  <2>2. QED
    BY <1>2, <1>4, <2>1 DEF BaseOf, HasLast
<1>5. QED
  BY <1>3, <1>4

LEMMA HexInitEstablishes == ASSUME HexInit PROVE HexInv
<1>1. linesRead = <<>> /\ Len(linesRead) = 0 /\ DOMAIN linesRead = {} /\ linesRead \in Seq(Records)
  BY DEF HexInit
<1>2. \A i \in 1..Len(linesRead) + 1 : AddressesAbove(linesRead, i) = {}
  BY <1>1 DEF AddressesAbove
<1>3. image \in Image /\ \A b \in 0..FlashBytes - 1 : image[b] = Unwritten
  BY DEF HexInit, Image, Unwritten
<1>4. HexTypeOK
  BY <1>1, <1>3 DEF HexInit, HexTypeOK
<1>5. BaseIsTheFiles
  BY <1>1, <1>2 DEF HexInit, BaseIsTheFiles, BaseOf
<1>6. QED
  BY <1>1, <1>2, <1>3, <1>4, <1>5 DEF HexInv, HasLast, LinesAreGood, BytesAreThere, NothingElseIs

(* A line that is read changes nothing of what the lines above it have put.    *)
LEMMA LinesAboveKeep ==
    ASSUME HexInv, NEW r \in Records, linesRead' = Append(linesRead, r)
    PROVE  /\ linesRead' \in Seq(Records) /\ Len(linesRead') = Len(linesRead) + 1
           /\ DOMAIN linesRead = 1..Len(linesRead) /\ DOMAIN linesRead' = 1..Len(linesRead) + 1
           /\ linesRead'[Len(linesRead) + 1] = r
           /\ \A i \in DOMAIN linesRead, k \in Nat :
                 PutBy(linesRead', i, k) = PutBy(linesRead, i, k) /\ linesRead'[i] = linesRead[i]
           /\ \A i \in 1..Len(linesRead') + 1 : HasLast(linesRead', i)
           /\ BaseOf(linesRead', Len(linesRead) + 1) = BaseOf(linesRead, Len(linesRead) + 1)
           /\ BaseOf(linesRead', Len(linesRead') + 1)
                = IF r.type \in AddressTypes THEN r.value * (IF r.type = "segment" THEN Paragraph ELSE Page)
                  ELSE BaseOf(linesRead, Len(linesRead) + 1)
<1>1. PICK longer : longer = linesRead'
  OBVIOUS
<1>2. longer = Append(linesRead, r) /\ linesRead \in Seq(Records) /\ \A i \in 1..Len(linesRead) + 1 : HasLast(linesRead, i)
  BY <1>1 DEF HexInv, HexTypeOK
<1>3. /\ longer \in Seq(Records) /\ Len(longer) = Len(linesRead) + 1 /\ Len(linesRead) \in Nat
      /\ DOMAIN linesRead = 1..Len(linesRead) /\ DOMAIN longer = 1..Len(linesRead) + 1
      /\ longer[Len(linesRead) + 1] = r
  BY <1>2
<1>4. \A i \in 1..Len(linesRead) + 1 : BaseOf(longer, i) = BaseOf(linesRead, i) /\ HasLast(longer, i)
  BY <1>2, BasesStay
<1>5. \A i \in DOMAIN linesRead, k \in Nat : PutBy(longer, i, k) = PutBy(linesRead, i, k) /\ longer[i] = linesRead[i]
  <2>1. SUFFICES ASSUME NEW i \in 1..Len(linesRead), NEW k \in Nat
                 PROVE  PutBy(longer, i, k) = PutBy(linesRead, i, k) /\ longer[i] = linesRead[i]
    BY <1>3
  <2>2. longer[i] = linesRead[i]
    BY <1>2
  <2>3. i \in 1..Len(linesRead) + 1
    BY <1>3
  <2>4. BaseOf(longer, i) = BaseOf(linesRead, i)
    BY <1>4, <2>3
  <2>5. QED
    BY <2>2, <2>4 DEF PutBy
<1>6. /\ HasLast(longer, Len(longer) + 1)
      /\ BaseOf(longer, Len(longer) + 1)
           = IF r.type \in AddressTypes THEN r.value * (IF r.type = "segment" THEN Paragraph ELSE Page)
             ELSE BaseOf(linesRead, Len(linesRead) + 1)
  <2>1. HasLast(linesRead, Len(linesRead) + 1)
    BY <1>2, <1>3
  <2>2. QED
    BY <1>2, <2>1, BaseMoves
<1>7. \A i \in 1..Len(longer) + 1 : HasLast(longer, i)
  BY <1>3, <1>4, <1>6
<1>8. BaseOf(longer, Len(linesRead) + 1) = BaseOf(linesRead, Len(linesRead) + 1)
  BY <1>3, <1>4
<1>9. QED
  BY <1>1, <1>3, <1>5, <1>6, <1>7, <1>8

(* What was put stays put, and was put where it says, when the image stands.   *)
LEMMA RestIsKept ==
    ASSUME HexInv, NEW r \in Records, linesRead' = Append(linesRead, r), image' = image
    PROVE  /\ image' \in Image /\ linesRead' \in Seq(Records) /\ NothingElseIs'
           /\ \A i \in 1..Len(linesRead') + 1 : HasLast(linesRead', i)
<1>1. /\ linesRead' \in Seq(Records) /\ DOMAIN linesRead \subseteq DOMAIN linesRead'
      /\ \A i \in DOMAIN linesRead, k \in Nat : PutBy(linesRead', i, k) = PutBy(linesRead, i, k)
      /\ \A i \in 1..Len(linesRead') + 1 : HasLast(linesRead', i)
  BY LinesAboveKeep DEF HexInv, HexTypeOK
<1>2. image \in Image /\ NothingElseIs
  BY DEF HexInv, HexTypeOK
<1>3. \A b \in 0..FlashBytes - 1 : image[b][1] \in Nat /\ image[b][2] \in Nat
  BY <1>2 DEF Image
<1>4. NothingElseIs'
  BY <1>1, <1>2, <1>3 DEF NothingElseIs
<1>5. QED
  BY <1>1, <1>2, <1>4

(* A good line without a byte.                                                 *)
LEMMA NoByteIsPut ==
    ASSUME HexInv, NEW r \in Records, linesRead' = Append(linesRead, r), image' = image,
           verdict = "reading", WellFormed(r), r.type \in {"data", "end", "segment", "linear"},
           r.type = "data" => r.count = 0
    PROVE  LinesAreGood' /\ BytesAreThere'
<1>1. /\ DOMAIN linesRead' = 1..Len(linesRead) + 1 /\ DOMAIN linesRead = 1..Len(linesRead)
      /\ linesRead'[Len(linesRead) + 1] = r /\ Len(linesRead) \in Nat
      /\ \A i \in DOMAIN linesRead, k \in Nat : PutBy(linesRead', i, k) = PutBy(linesRead, i, k) /\ linesRead'[i] = linesRead[i]
  BY LinesAboveKeep DEF HexInv, HexTypeOK
<1>2. LinesAreGood /\ BytesAreThere
  BY DEF HexInv
<1>3. \A i \in DOMAIN linesRead' : i \in DOMAIN linesRead \/ i = Len(linesRead) + 1
  BY <1>1
<1>4. \A i \in DOMAIN linesRead : linesRead'[i] = linesRead[i]
  BY <1>1
<1>5. LinesAreGood'
  BY <1>1, <1>2, <1>3, <1>4 DEF LinesAreGood, WellFormed
<1>6. ASSUME NEW i \in DOMAIN linesRead', linesRead'[i].type = "data", NEW k \in 0..linesRead'[i].count - 1
      PROVE  PutBy(linesRead', i, k) \in 0..FlashBytes - 1 /\ image'[PutBy(linesRead', i, k)][1] >= i
  <2>1. CASE i \in DOMAIN linesRead
    BY <1>1, <1>2, <1>6, <2>1 DEF BytesAreThere
  <2>2. CASE i = Len(linesRead) + 1
    BY <1>1, <1>6, <2>2
  <2>3. QED
    BY <1>3, <2>1, <2>2
<1>7. QED
  BY <1>5, <1>6 DEF BytesAreThere

LEMMA DataIsPut ==
    ASSUME HexInv, NEW r \in Records, verdict = "reading", linesRead' = Append(linesRead, r),
           WellFormed(r), r.type = "data", WriteData(r), highAddress' = highAddress
    PROVE  HexInv'
<1> DEFINE n == Len(linesRead) + 1
           base == PlaceOf(r)
<1>1. HexTypeOK /\ BaseIsTheFiles /\ LinesAreGood /\ BytesAreThere /\ NothingElseIs
  BY DEF HexInv
<1>2. /\ r.address \in Nat /\ r.address <= Page - 1 /\ r.count \in Nat /\ FlashBytes \in Nat /\ Page \in Nat
  BY RecordsAreTyped
<1>3. /\ linesRead' \in Seq(Records) /\ Len(linesRead') = n /\ n \in Nat /\ linesRead \in Seq(Records)
      /\ DOMAIN linesRead = 1..n - 1 /\ DOMAIN linesRead' = 1..n /\ linesRead'[n] = r
      /\ \A i \in DOMAIN linesRead, k \in Nat : PutBy(linesRead', i, k) = PutBy(linesRead, i, k) /\ linesRead'[i] = linesRead[i]
      /\ \A i \in 1..Len(linesRead') + 1 : HasLast(linesRead', i)
      /\ BaseOf(linesRead', n) = BaseOf(linesRead, n)
      /\ BaseOf(linesRead', n + 1) = BaseOf(linesRead, n)
  BY <1>1, LinesAboveKeep DEF HexTypeOK, AddressTypes
<1>4. base = highAddress + r.address /\ base \in Int
  BY <1>1, <1>2 DEF PlaceOf, HexTypeOK
<1>5. CASE base + r.count > FlashBytes \/ base < 0
  <2>1. verdict' = "error" /\ image' = image /\ highestWritten' = highestWritten
    BY <1>5 DEF WriteData
  <2>2. image' \in Image /\ linesRead' \in Seq(Records) /\ NothingElseIs'
    BY <2>1, RestIsKept
  <2>3. QED
    BY <1>1, <1>3, <2>1, <2>2 DEF HexInv, HexTypeOK, BaseIsTheFiles, LinesAreGood, BytesAreThere
<1>6. CASE ~(base + r.count > FlashBytes \/ base < 0)
  <2>1. /\ image' = [b \in DOMAIN image |-> IF b \in base..base + r.count - 1 THEN <<n, b - base>> ELSE image[b]]
        /\ highestWritten' = Max0(highestWritten, base + r.count) /\ verdict' = verdict
    BY <1>6 DEF WriteData
  <2>2. highAddress = BaseOf(linesRead, n) /\ base >= 0 /\ base + r.count <= FlashBytes
    BY <1>1, <1>2, <1>4, <1>6 DEF BaseIsTheFiles, HexTypeOK
  <2>3. \A k \in Nat : PutBy(linesRead', n, k) = base + k
    BY <1>3, <1>4, <2>2 DEF PutBy
  <2> HIDE DEF base, n
  <2>4. DOMAIN image = 0..FlashBytes - 1 /\ \A b \in 0..FlashBytes - 1 : image[b] \in Nat \X Nat
    BY <1>1 DEF HexTypeOK, Image
  <2>5. image' \in Image
    BY <1>3, <1>4, <2>1, <2>2, <2>4 DEF Image
  <2>6. HexTypeOK'
    <3>1. highestWritten' \in Nat
      BY <1>1, <1>2, <1>4, <2>1, <2>2 DEF HexTypeOK, Max0
    <3>2. verdict' = "reading" /\ highAddress' \in Int
      BY <1>1, <2>1 DEF HexTypeOK
    <3>3. QED
      BY <1>3, <2>5, <3>1, <3>2 DEF HexTypeOK
  <2>7. NothingElseIs'
    <3>1. SUFFICES ASSUME NEW b \in 0..FlashBytes - 1, image'[b] # Unwritten
                   PROVE  image'[b][1] \in DOMAIN linesRead' /\ PutBy(linesRead', image'[b][1], image'[b][2]) = b
      BY DEF NothingElseIs
    <3>2. CASE b \in base..base + r.count - 1
      <4>1. image'[b] = <<n, b - base>> /\ b - base \in Nat
        BY <1>4, <2>1, <2>4, <3>2
      <4>2. PutBy(linesRead', n, b - base) = b
        <5>1. PICK k \in Nat : k = b - base
          BY <4>1
        <5>2. PutBy(linesRead', n, k) = base + k
          BY <2>3
        <5>3. base + k = b
          BY <1>4, <5>1
        <5>4. QED
          BY <5>1, <5>2, <5>3
      <4>3. QED
        BY <1>3, <4>1, <4>2
    <3>3. CASE b \notin base..base + r.count - 1
      <4>1. image'[b] = image[b] /\ image[b][2] \in Nat
        BY <2>1, <2>4, <3>3
      <4>2. image[b][1] \in DOMAIN linesRead /\ PutBy(linesRead, image[b][1], image[b][2]) = b
        BY <1>1, <3>1, <4>1 DEF NothingElseIs
      <4>3. QED
        BY <1>3, <4>1, <4>2
    <3>4. QED
      BY <3>2, <3>3
  <2>8. BytesAreThere'
    <3>1. SUFFICES ASSUME NEW i \in DOMAIN linesRead', linesRead'[i].type = "data",
                          NEW k \in 0..linesRead'[i].count - 1
                   PROVE  PutBy(linesRead', i, k) \in 0..FlashBytes - 1 /\ image'[PutBy(linesRead', i, k)][1] >= i
      BY DEF BytesAreThere
    <3>2. CASE i = n
      <4>1. k \in Nat /\ k <= r.count - 1 /\ PutBy(linesRead', i, k) = base + k
        BY <1>2, <1>3, <2>3, <3>2
      <4>2. base + k \in base..base + r.count - 1 /\ base + k \in 0..FlashBytes - 1
        <5>1. k \in Nat /\ k <= r.count - 1 /\ base \in Int
          BY <1>4, <4>1
        <5>2. base + k <= base + r.count - 1 /\ base + k <= FlashBytes - 1
          BY <1>2, <2>2, <5>1
        <5>3. QED
          BY <1>2, <2>2, <5>1, <5>2
      <4>3. image'[base + k] = <<n, (base + k) - base>>
        BY <2>1, <2>4, <4>2
      <4>4. QED
        BY <1>3, <3>2, <4>1, <4>2, <4>3
    <3>3. CASE i # n
      <4>1. i \in DOMAIN linesRead /\ i <= n
        BY <1>3, <3>3
      <4>2. PICK p : p = PutBy(linesRead, i, k)
        OBVIOUS
      <4>3. linesRead'[i] = linesRead[i] /\ k \in Nat /\ PutBy(linesRead', i, k) = p
        BY <1>3, <4>1, <4>2
      <4>4. p \in 0..FlashBytes - 1 /\ image[p][1] >= i
        BY <1>1, <2>1, <3>1, <4>1, <4>2, <4>3 DEF BytesAreThere
      <4>5. image'[p] = image[p] \/ image'[p][1] = n
        BY <2>1, <2>4, <4>4
      <4>6. QED
        BY <1>3, <4>1, <4>3, <4>4, <4>5
    <3>4. QED
      BY <3>2, <3>3
  <2>9. LinesAreGood'
    <3>1. \A i \in DOMAIN linesRead' : i \in DOMAIN linesRead \/ i = n
      BY <1>3
    <3>2. \A i \in DOMAIN linesRead : linesRead'[i] = linesRead[i]
      BY <1>3
    <3>3. QED
      BY <1>1, <1>3, <2>1, <3>1, <3>2 DEF LinesAreGood
  <2>10. BaseIsTheFiles'
    BY <1>3, <2>2 DEF BaseIsTheFiles
  <2>11. QED
    BY <1>3, <2>6, <2>7, <2>8, <2>9, <2>10 DEF HexInv
<1>7. QED
  BY <1>5, <1>6

LEMMA BaseIsMoved ==
    ASSUME HexInv, NEW r \in Records, verdict = "reading", linesRead' = Append(linesRead, r),
           WellFormed(r), r.type \in AddressTypes, MoveBase(r)
    PROVE  HexInv'
<1>1. HexTypeOK /\ image' = image /\ highestWritten' = highestWritten
  BY DEF HexInv, MoveBase
<1>2. /\ image' \in Image /\ linesRead' \in Seq(Records) /\ NothingElseIs'
      /\ \A i \in 1..Len(linesRead') + 1 : HasLast(linesRead', i)
  BY <1>1, RestIsKept
<1>3. CASE r.count # 2
  <2>1. verdict' = "error" /\ highAddress' = highAddress
    BY <1>3 DEF MoveBase
  <2>2. QED
    BY <1>1, <1>2, <2>1 DEF HexInv, HexTypeOK, BaseIsTheFiles, LinesAreGood, BytesAreThere
<1>4. CASE r.count = 2
  <2>1. /\ highAddress' = IF r.type = "segment" THEN r.value * Paragraph
                          ELSE (IF r.value >= SignBit THEN r.value - 2 * SignBit ELSE r.value) * Page
        /\ verdict' = verdict
    BY <1>4 DEF MoveBase
  <2>2. /\ r.value \in Nat /\ Page \in Nat /\ Page >= 1 /\ Paragraph \in Nat /\ SignBit \in Nat
        /\ r.type = "linear" => r.value < 2 * SignBit
    BY RecordsAreTyped
  <2>3. BaseOf(linesRead', Len(linesRead') + 1) = r.value * (IF r.type = "segment" THEN Paragraph ELSE Page)
    BY LinesAboveKeep
  <2>4. LinesAreGood' /\ BytesAreThere'
    BY <1>1, NoByteIsPut DEF AddressTypes
  <2>5. highAddress' \in Int /\ (highAddress' = BaseOf(linesRead', Len(linesRead') + 1) \/ highAddress' <= -Page)
    <3>1. CASE r.type = "segment"
      <4>1. highAddress' = r.value * Paragraph
        BY <2>1, <3>1
      <4>2. BaseOf(linesRead', Len(linesRead') + 1) = r.value * Paragraph
        BY <2>3, <3>1, Zenon
      <4>3. QED
        BY <2>2, <4>1, <4>2
    <3>2. CASE r.type # "segment" /\ ~(r.value >= SignBit)
      BY <2>1, <2>2, <2>3, <3>2
    <3>3. CASE r.type # "segment" /\ r.value >= SignBit
      <4>1. PICK v \in Int : v = r.value - 2 * SignBit
        BY <2>2
      <4>2. v <= -1
        BY <2>2, <3>3, <4>1 DEF AddressTypes
      <4>3. v * Page <= -Page
        BY <2>2, <4>2
      <4>4. highAddress' = v * Page
        BY <2>1, <3>3, <4>1
      <4>5. QED
        BY <2>2, <4>3, <4>4
    <3>4. QED
      BY <3>1, <3>2, <3>3
  <2>6. QED
    BY <1>1, <1>2, <2>1, <2>4, <2>5 DEF HexInv, HexTypeOK, BaseIsTheFiles
<1>5. QED
  BY <1>3, <1>4

LEMMA RecordKeepsTheImage ==
    ASSUME HexInv, NEW r \in Records, ReadRecord(r)
    PROVE  HexInv'
<1>1. verdict = "reading" /\ linesRead' = Append(linesRead, r) /\ HexTypeOK
  BY DEF ReadRecord, HexInv
<1>2. ASSUME verdict' = "error", UNCHANGED <<image, highAddress, highestWritten>>
      PROVE  HexInv'
  <2>1. /\ image' \in Image /\ linesRead' \in Seq(Records) /\ NothingElseIs'
        /\ \A i \in 1..Len(linesRead') + 1 : HasLast(linesRead', i)
    BY <1>1, <1>2, RestIsKept
  <2>2. QED
    BY <1>1, <1>2, <2>1 DEF HexInv, HexTypeOK, BaseIsTheFiles, LinesAreGood, BytesAreThere
<1>3. CASE WellFormed(r) /\ r.type = "data"
  <2>1. WriteData(r) /\ highAddress' = highAddress
    BY <1>3 DEF ReadRecord
  <2>2. QED
    BY <1>1, <1>3, <2>1, DataIsPut
<1>4. CASE WellFormed(r) /\ r.type \in AddressTypes
  <2>1. MoveBase(r)
    BY <1>4 DEF ReadRecord, AddressTypes
  <2>2. QED
    BY <1>1, <1>4, <2>1, BaseIsMoved
<1>5. CASE WellFormed(r) /\ r.type = "end"
  <2>1. /\ verdict' = IF highestWritten = 0 THEN "error" ELSE "loaded"
        /\ UNCHANGED <<image, highAddress, highestWritten>>
    BY <1>5 DEF ReadRecord
  <2>2. /\ image' \in Image /\ linesRead' \in Seq(Records) /\ NothingElseIs'
        /\ \A i \in 1..Len(linesRead') + 1 : HasLast(linesRead', i)
    BY <1>1, <2>1, RestIsKept
  <2>3. LinesAreGood' /\ BytesAreThere'
    BY <1>1, <1>5, <2>1, NoByteIsPut
  <2>4. verdict' \in {"loaded", "error"}
    BY <2>1
  <2>5. QED
    BY <1>1, <2>1, <2>2, <2>3, <2>4 DEF HexInv, HexTypeOK, BaseIsTheFiles
<1>6. CASE ~WellFormed(r) \/ r.type \notin {"data", "end", "segment", "linear"}
  <2>1. verdict' = "error" /\ UNCHANGED <<image, highAddress, highestWritten>>
    BY <1>6 DEF ReadRecord
  <2>2. QED
    BY <1>2, <2>1
<1>7. QED
  BY <1>3, <1>4, <1>5, <1>6 DEF AddressTypes

(* A program that is loaded is the file: parseIntelHex puts every byte where   *)
(* the records above it say, and refuses what has a fault or does not fit.     *)
THEOREM ProgramsAreLoadedWhole == HexSpec => []ImageIsAsWritten
<1>1. HexInit => HexInv
  BY HexInitEstablishes
<1>2. HexInv /\ [HexNext]_hexVars => HexInv'
  <2>1. SUFFICES ASSUME HexInv, [HexNext]_hexVars PROVE HexInv'
    OBVIOUS
  <2>2. ASSUME NEW r \in Records, ReadRecord(r) PROVE HexInv'
    BY <2>1, <2>2, RecordKeepsTheImage
  <2>3. CASE RunOut
    BY <2>1, <2>3 DEF RunOut, HexInv, HexTypeOK, BaseIsTheFiles, LinesAreGood, BytesAreThere, NothingElseIs
  <2>4. CASE UNCHANGED hexVars
    BY <2>1, <2>4 DEF hexVars, HexInv, HexTypeOK, BaseIsTheFiles, LinesAreGood, BytesAreThere, NothingElseIs
  <2>5. QED
    BY <2>1, <2>2, <2>3, <2>4 DEF HexNext
<1>3. HexInv => ImageIsAsWritten
  <2>1. SUFFICES ASSUME HexInv, verdict = "loaded" PROVE ImageIsAsWritten
    BY DEF ImageIsAsWritten
  <2>2. \A i, k : Belongs(i, k) = PutBy(linesRead, i, k)
    BY DEF Belongs, PutBy, BaseOf, AddressesAbove, AddressTypes
  <2>3. DOMAIN image = 0..FlashBytes - 1
    BY <2>1 DEF HexInv, HexTypeOK, Image
  <2>4. QED
    BY <2>1, <2>2, <2>3 DEF HexInv, LinesAreGood, BytesAreThere, NothingElseIs, ImageIsAsWritten
<1>4. QED
  BY <1>1, <1>2, <1>3, PTL DEF HexSpec

-------------------------------------------------------------------------------
(* Every set of numbers that is not empty has a smallest one.                  *)
LEMMA LeastOfNats ==
    ASSUME NEW T, T \subseteq Nat, T # {}
    PROVE  \E x \in T : \A y \in T : x <= y
<1> DEFINE R == OpToRel(<, Nat)
<1>1. \A i, j \in Nat : i < j => <<i, j>> \in R
  BY DEF OpToRel
<1>2. IsWellFoundedOn(R, Nat)
  BY NatLessThanWellFounded
<1> HIDE DEF R
<1>3. PICK x \in T : \A y \in T : <<y, x>> \notin R
  BY <1>2, WFMin
<1>4. \A y \in T : ~(y < x)
  BY <1>1, <1>3
<1> QED
  BY <1>4

-------------------------------------------------------------------------------
(* Manifests: the validator asks for every reference the runtime follows.      *)

IsSequence(roles) == Len(roles) \in Nat /\ roles = [n \in 1..Len(roles) |-> roles[n]]

LEMMA FoursAndFives ==
    ASSUME NEW c, NEW d, NEW e, NEW f, NEW g
    PROVE  IsSequence(<<c, d, e, f>>) /\ IsSequence(<<c, d, e, f, g>>)
<1>1. PICK four : four = <<c, d, e, f>>
  OBVIOUS
<1>2. PICK five : five = <<c, d, e, f, g>>
  OBVIOUS
<1>3. Len(four) = 4
  BY <1>1
<1>4. four = [n \in 1..4 |-> four[n]]
  BY <1>1
<1>5. Len(five) = 5
  BY <1>2
<1>6. five = [n \in 1..5 |-> five[n]]
  BY <1>2
<1>7. IsSequence(four)
  BY <1>3, <1>4 DEF IsSequence
<1>8. IsSequence(five)
  BY <1>5, <1>6 DEF IsSequence
<1> QED
  BY <1>1, <1>2, <1>7, <1>8

LEMMA RolesAreSequences ==
    ASSUME NEW b \in Behaviors
    PROVE  IsSequence(Roles[b])
<1>1. b \in {"passive", "analog-sensor", "variable-resistor", "i2c-peripheral", "spi-peripheral", "regulator",
     "pulse-echo", "pwm-actuator", "transistor", "mosfet", "op-amp", "diode", "capacitor", "source",
     "potentiometer", "threshold-switch"}
  BY DEF Behaviors, Roles
<1>2. PICK roles : roles = Roles[b]
  OBVIOUS
<1>3. \/ roles = <<>>
      \/ roles \in {<<"outputPin">>, <<"signalPin">>}
      \/ roles \in {<<"pinA", "pinB">>, <<"sdaPin", "sclPin">>, <<"triggerPin", "echoPin">>}
      \/ roles \in {<<"anodePin", "cathodePin">>, <<"positivePin", "negativePin">>}
      \/ roles \in {<<"inputPin", "outputPin", "groundPin">>, <<"collectorPin", "basePin", "emitterPin">>}
      \/ roles \in {<<"drainPin", "gatePin", "sourcePin">>, <<"terminalAPin", "wiperPin", "terminalBPin">>}
      \/ roles = <<"mosiPin", "misoPin", "sckPin", "csPin">>
      \/ roles = <<"nonInvertingPin", "invertingPin", "outputPin", "positiveRailPin", "negativeRailPin">>
  BY <1>1, <1>2 DEF Roles
<1>4. IsSequence(roles)
  <2>0. CASE roles = <<>>
    BY <2>0 DEF IsSequence
  <2>1. CASE roles \in {<<"outputPin">>, <<"signalPin">>}
    BY <2>1 DEF IsSequence
  <2>2. CASE roles \in {<<"pinA", "pinB">>, <<"sdaPin", "sclPin">>, <<"triggerPin", "echoPin">>}
    BY <2>2 DEF IsSequence
  <2>3. CASE roles \in {<<"anodePin", "cathodePin">>, <<"positivePin", "negativePin">>}
    BY <2>3 DEF IsSequence
  <2>4. CASE roles \in {<<"inputPin", "outputPin", "groundPin">>, <<"collectorPin", "basePin", "emitterPin">>}
    BY <2>4 DEF IsSequence
  <2>5. CASE roles \in {<<"drainPin", "gatePin", "sourcePin">>, <<"terminalAPin", "wiperPin", "terminalBPin">>}
    BY <2>5 DEF IsSequence
  <2>6. CASE roles = <<"mosiPin", "misoPin", "sckPin", "csPin">>
    BY <2>6, FoursAndFives
  <2>7. CASE roles = <<"nonInvertingPin", "invertingPin", "outputPin", "positiveRailPin", "negativeRailPin">>
    BY <2>7, FoursAndFives
  <2> QED
    BY <1>3, <2>0, <2>1, <2>2, <2>3, <2>4, <2>5, <2>6, <2>7
<1> QED
  BY <1>2, <1>4

LEMMA PinsFit ==
    ASSUME NEW pins \in Seq(PinSchema)
    PROVE  \A i \in DOMAIN pins : pins[i].name \in PinNames /\ pins[i].x \in Int
<1>1. \A i \in DOMAIN pins : pins[i] \in PinSchema
  OBVIOUS
<1> QED
  BY <1>1 DEF PinSchema

LEMMA ValidMeans ==
    ASSUME NEW m, IsManifest(m), Valid(m)
    PROVE  /\ \A i \in DOMAIN m.pins :
                  /\ m.pins[i].model \in {"passive", "led"} => m.pins[i].to \in Named(m)
                  /\ m.pins[i].model = "passive" => m.pins[i].to # m.pins[i].name
           /\ \A r \in ToSet(Roles[m.behavior]) : m.uses[r] \in Named(m)
           /\ m.behavior \in MustDiffer => Cardinality(Playing(m)) = Len(Roles[m.behavior])
           /\ NeedsSupply(m) => HasModel(m, "power") /\ HasModel(m, "ground")
<1>1. PinErrors(m) = {} /\ SupplyErrors(m) = {} /\ BehaviorErrors(m) = {} /\ Dangling(m) = {}
  BY DEF Valid, Errors, BehaviorErrors
<1>2. ASSUME NEW i \in DOMAIN m.pins
      PROVE  /\ m.pins[i].model \in {"passive", "led"} => m.pins[i].to \in Named(m)
             /\ m.pins[i].model = "passive" => m.pins[i].to # m.pins[i].name
  <2> DEFINE wrong(pin) == \/ pin.model \in {"power", "digital-in", "digital-out", "passive", "led"} /\ pin.figures = "absurd"
                           \/ pin.model \in {"passive", "led"} /\ pin.to \notin Named(m)
                           \/ pin.model = "passive" /\ pin.to = pin.name
             found(j) == IF wrong(m.pins[j]) THEN {<<"model", j>>} ELSE {}
  <2>1. UNION {found(j) : j \in DOMAIN m.pins} = {}
    BY <1>1 DEF PinErrors
  <2>2. found(i) = {}
    <3> HIDE DEF found
    <3> QED
      BY <2>1
  <2>3. ~wrong(m.pins[i])
    <3> HIDE DEF wrong
    <3> QED
      BY <2>2
  <2> QED
    BY <2>3
<1>3. \A r \in ToSet(Roles[m.behavior]) : m.uses[r] \in Named(m)
  BY <1>1 DEF Dangling
<1>4. m.behavior \in MustDiffer => Cardinality(Playing(m)) = Len(Roles[m.behavior])
  BY <1>1 DEF BehaviorErrors
<1>5. NeedsSupply(m) => HasModel(m, "power") /\ HasModel(m, "ground")
  BY <1>1 DEF SupplyErrors
<1> QED
  BY <1>2, <1>3, <1>4, <1>5

Grounded(d) ==
    /\ \A n \in DOMAIN d.nodes : d.nodes[n] # GROUND
    /\ d.type \in MustDiffer => Cardinality(ToSet(d.nodes)) = Len(d.nodes)

LEMMA DevicesStand ==
    ASSUME NEW m, IsManifest(m), Valid(m), NEW d \in Built(m)
    PROVE  Grounded(d)
<1>0. /\ \A i \in DOMAIN m.pins : m.pins[i].name \in Named(m) /\ NodeOf(m, m.pins[i].name) = m.pins[i].name
      /\ \A name \in Named(m) : name # GROUND /\ NodeOf(m, name) = name
  <2>1. \A i \in DOMAIN m.pins : m.pins[i].name \in PinNames
    BY PinsFit DEF IsManifest
  <2>2. \A name \in Named(m) : name \in PinNames
    BY <2>1 DEF Named
  <2> QED
    BY <2>2 DEF Named, NodeOf, PinNames
<1>1. CASE \E i \in LitPins(m) : d = DeviceOf(m, "led", <<m.pins[i].name, m.pins[i].to>>)
  <2>1. PICK i \in LitPins(m) : d = DeviceOf(m, "led", <<m.pins[i].name, m.pins[i].to>>)
    BY <1>1
  <2>2. PICK names : names = <<m.pins[i].name, m.pins[i].to>>
    OBVIOUS
  <2>3. \A n \in DOMAIN names : names[n] \in Named(m)
    BY <1>0, <2>1, <2>2, ValidMeans DEF LitPins
  <2>4. d.type = "led" /\ d.nodes = [n \in DOMAIN names |-> NodeOf(m, names[n])]
    BY <2>1, <2>2 DEF DeviceOf
  <2> QED
    BY <1>0, <2>3, <2>4 DEF Grounded, MustDiffer
<1>2. CASE m.behavior \in OnBus \cup Owned /\ d = DeviceOf(m, m.behavior, RolesPlayed(m))
  <2>1. PICK roles : roles = Roles[m.behavior]
    OBVIOUS
  <2>2. roles = [n \in 1..Len(roles) |-> roles[n]] /\ Len(roles) \in Nat
    BY <2>1, RolesAreSequences DEF IsManifest, IsSequence
  <2>3. \A n \in DOMAIN roles : m.uses[roles[n]] \in Named(m) /\ m.uses[roles[n]] \in Playing(m)
    BY <2>1, ValidMeans DEF ToSet, Playing
  <2>4. d.type = m.behavior /\ d.nodes = [n \in DOMAIN roles |-> m.uses[roles[n]]]
    BY <1>0, <1>2, <2>1, <2>3 DEF DeviceOf, RolesPlayed
  <2>5. Len(d.nodes) = Len(roles) /\ DOMAIN d.nodes = DOMAIN roles
    BY <2>2, <2>4
  <2>6. ToSet(d.nodes) = Playing(m)
    BY <2>1, <2>4 DEF ToSet, Playing
  <2>7. d.type \in MustDiffer => Cardinality(ToSet(d.nodes)) = Len(d.nodes)
    BY <2>1, <2>4, <2>5, <2>6, ValidMeans
  <2> QED
    BY <1>0, <2>3, <2>4, <2>7 DEF Grounded
<1>3. CASE d = DeviceOf(m, "manifest", [i \in DOMAIN m.pins |-> m.pins[i].name])
  <2>1. d.type = "manifest" /\ d.nodes = [i \in DOMAIN m.pins |-> m.pins[i].name]
    BY <1>0, <1>3 DEF DeviceOf
  <2> QED
    BY <1>0, <2>1 DEF Grounded, MustDiffer
<1> QED
  BY <1>1, <1>2, <1>3 DEF Built

LEMMA StampsStand ==
    ASSUME NEW m, IsManifest(m), Valid(m), NEW s \in PinStamps(m)
    PROVE  GROUND \notin {s[1], s[2]} /\ s[1] # s[2]
<1>0. /\ \A i \in DOMAIN m.pins : m.pins[i].name \in Named(m)
      /\ \A name \in Named(m) : name \notin {GROUND, RETURN} /\ NodeOf(m, name) = name
  <2>1. \A i \in DOMAIN m.pins : m.pins[i].name \in PinNames
    BY PinsFit DEF IsManifest
  <2>2. \A name \in Named(m) : name \in PinNames
    BY <2>1 DEF Named
  <2> QED
    BY <2>2 DEF Named, NodeOf, PinNames
<1>1. CASE \E i \in DOMAIN m.pins : s = <<RETURN, m.pins[i].name>>
  BY <1>0, <1>1 DEF GROUND, RETURN
<1>2. CASE \E i \in DOMAIN m.pins : m.pins[i].model = "passive" /\ s = <<NodeOf(m, m.pins[i].to), m.pins[i].name>>
  <2>1. PICK i \in DOMAIN m.pins : m.pins[i].model = "passive" /\ s = <<NodeOf(m, m.pins[i].to), m.pins[i].name>>
    BY <1>2
  <2>2. m.pins[i].to \in Named(m) /\ m.pins[i].to # m.pins[i].name
    BY <2>1, ValidMeans
  <2> QED
    BY <1>0, <2>1, <2>2
<1>3. CASE m.behavior = "variable-resistor" /\ s = <<NodeOf(m, m.uses["pinA"]), NodeOf(m, m.uses["pinB"])>>
  <2>1. Roles[m.behavior] = <<"pinA", "pinB">>
    BY <1>3 DEF Roles
  <2>2. ToSet(Roles[m.behavior]) = {"pinA", "pinB"} /\ Len(Roles[m.behavior]) = 2
    BY <2>1 DEF ToSet
  <2>3. m.uses["pinA"] \in Named(m) /\ m.uses["pinB"] \in Named(m)
    BY <2>2, ValidMeans
  <2>4. Cardinality({m.uses["pinA"], m.uses["pinB"]}) = 2
    <3>1. Playing(m) = {m.uses["pinA"], m.uses["pinB"]}
      BY <2>2 DEF Playing
    <3> QED
      BY <1>3, <2>2, <3>1, ValidMeans DEF MustDiffer
  <2>5. m.uses["pinA"] # m.uses["pinB"]
    <3>1. Cardinality({m.uses["pinA"]}) = 1
      BY FS_Singleton
    <3>2. m.uses["pinA"] = m.uses["pinB"] => {m.uses["pinA"], m.uses["pinB"]} = {m.uses["pinA"]}
      OBVIOUS
    <3> QED
      BY <2>4, <3>1, <3>2
  <2> QED
    BY <1>0, <1>3, <2>3, <2>5
<1> QED
  BY <1>1, <1>2, <1>3 DEF PinStamps

LEMMA ValidStands ==
    ASSUME NEW m, IsManifest(m), Valid(m)
    PROVE  StandsOnItsPins(m)
<1>1. \A d \in Built(m) : Grounded(d)
  BY DevicesStand
<1>2. \A s \in PinStamps(m) : GROUND \notin {s[1], s[2]} /\ s[1] # s[2]
  BY StampsStand
<1>3. NeedsSupply(m) => HasModel(m, "power") /\ HasModel(m, "ground")
  BY ValidMeans
<1> QED
  BY <1>1, <1>2, <1>3 DEF StandsOnItsPins, Grounded

-------------------------------------------------------------------------------
(* Legs: what is drawn is moved as a whole, inside the body and onto the grid. *)

LEMMA LeastOfMany ==
    ASSUME NEW n \in Nat \ {0}, NEW xs \in [1..n -> Int]
    PROVE  \E i \in 1..n : \A j \in 1..n : xs[i] <= xs[j]
<1> DEFINE Least(k) == \E i \in 1..k : \A j \in 1..k : xs[i] <= xs[j]
           Bad == {k \in 1..n : ~Least(k)}
<1>0. SUFFICES ASSUME ~Least(n)
               PROVE  FALSE
  OBVIOUS
<1>1. Bad # {}
  <2>1. n \in Bad
    BY <1>0
  <2> QED
    BY <2>1
<1>2. PICK k \in Bad : \A l \in Bad : k <= l
  <2>1. Bad \subseteq Nat
    OBVIOUS
  <2> HIDE DEF Bad
  <2> QED
    BY <1>1, <2>1, LeastOfNats
<1>3. k \in 1..n /\ ~Least(k)
  OBVIOUS
<1>4. k # 1
  BY <1>3
<1>5. k - 1 \in 1..n /\ k - 1 \notin Bad
  <2>1. k - 1 \in 1..n
    BY <1>3, <1>4
  <2> HIDE DEF Bad
  <2> QED
    BY <1>2, <1>3, <2>1
<1>6. PICK i \in 1..(k - 1) : \A j \in 1..(k - 1) : xs[i] <= xs[j]
  BY <1>5
<1>7. xs[i] \in Int /\ xs[k] \in Int /\ i \in 1..k /\ \A j \in 1..k : j \in 1..(k - 1) \/ j = k
  BY <1>3, <1>6
<1>8. \A j \in 1..k : xs[j] \in Int
  BY <1>3
<1>9. CASE xs[i] <= xs[k]
  <2>1. \A j \in 1..k : xs[i] <= xs[j]
    BY <1>6, <1>7, <1>9
  <2> QED
    BY <1>3, <1>7, <2>1
<1>10. CASE xs[k] <= xs[i]
  <2>1. \A j \in 1..k : xs[k] <= xs[j]
    BY <1>6, <1>7, <1>8, <1>10
  <2> QED
    BY <1>3, <2>1
<1> QED
  BY <1>7, <1>9, <1>10

LEMMA EndsOfMany ==
    ASSUME NEW n \in Nat \ {0}, NEW xs \in [1..n -> Int]
    PROVE  /\ Lefts(xs) \in Int /\ Rights(xs) \in Int
           /\ \A j \in 1..n : Lefts(xs) <= xs[j] /\ xs[j] <= Rights(xs)
           /\ \E i \in 1..n : xs[i] = Lefts(xs)
<1>1. PICK i \in 1..n : \A j \in 1..n : xs[i] <= xs[j]
  BY LeastOfMany
<1>2. PICK l \in 1..n : \A j \in 1..n : xs[j] <= xs[l]
  <2> DEFINE ys == [j \in 1..n |-> -xs[j]]
  <2>1. ys \in [1..n -> Int]
    OBVIOUS
  <2>2. PICK l \in 1..n : \A j \in 1..n : ys[l] <= ys[j]
    <3> HIDE DEF ys
    <3> QED
      BY <2>1, LeastOfMany
  <2>3. \A j \in 1..n : -xs[l] <= -xs[j] /\ xs[j] \in Int /\ xs[l] \in Int
    BY <2>2
  <2>4. \A j \in 1..n : xs[j] <= xs[l]
    BY <2>3
  <2> QED
    BY <2>4
<1>3. ToSet(xs) = {xs[j] : j \in 1..n} /\ ToSet(xs) \subseteq Int
  BY DEF ToSet
<1>4. Lefts(xs) \in ToSet(xs) /\ \A y \in ToSet(xs) : Lefts(xs) <= y
  BY <1>1, <1>3 DEF Lefts, Min
<1>5. Rights(xs) \in ToSet(xs) /\ \A y \in ToSet(xs) : Rights(xs) >= y
  BY <1>2, <1>3 DEF Rights, Max
<1>6. Lefts(xs) \in Int /\ Rights(xs) \in Int
  BY <1>3, <1>4, <1>5
<1>7. \A j \in 1..n : Lefts(xs) <= xs[j] /\ xs[j] <= Rights(xs)
  <2>1. \A j \in 1..n : xs[j] \in ToSet(xs) /\ xs[j] \in Int
    BY <1>3
  <2> QED
    BY <1>4, <1>5, <1>6, <2>1
<1> QED
  BY <1>3, <1>4, <1>6, <1>7

LEMMA OfTwo ==
    ASSUME NEW a \in Int, NEW b \in Int
    PROVE  /\ Max({a, b}) \in {a, b} /\ a <= Max({a, b}) /\ b <= Max({a, b})
           /\ Min({a, b}) \in {a, b} /\ Min({a, b}) <= a /\ Min({a, b}) <= b
<1>1. \E x \in {a, b} : \A y \in {a, b} : x >= y
  OBVIOUS
<1>2. \E x \in {a, b} : \A y \in {a, b} : x <= y
  OBVIOUS
<1>3. Max({a, b}) \in {a, b} /\ \A y \in {a, b} : Max({a, b}) >= y
  BY <1>1 DEF Max
<1>4. Min({a, b}) \in {a, b} /\ \A y \in {a, b} : Min({a, b}) <= y
  BY <1>2 DEF Min
<1> QED
  BY <1>3, <1>4

LEMMA OfThree ==
    ASSUME NEW a \in Int, NEW b \in Int, NEW c \in Int
    PROVE  Max({a, b, c}) \in {a, b, c} /\ c <= Max({a, b, c})
<1>1. \E x \in {a, b, c} : \A y \in {a, b, c} : x >= y
  OBVIOUS
<1>2. Max({a, b, c}) \in {a, b, c} /\ \A y \in {a, b, c} : Max({a, b, c}) >= y
  BY <1>1 DEF Max
<1> QED
  BY <1>2

(* Moved by a whole: every place by the same.                                  *)
Moved(xs, ys, by) == ys = [i \in DOMAIN xs |-> xs[i] + by]

LEMMA TensOfIt ==
    ASSUME NEW slack \in Int, 2 * MarginMm <= slack
    PROVE  LET steps == (slack + PitchMm) \div (2 * PitchMm)
           IN  steps \in Nat /\ Min({slack, steps * PitchMm}) = steps * PitchMm
<1> DEFINE steps == (slack + 5) \div 10
<1>1. steps \in Int /\ 10 * steps <= slack + 5 /\ slack + 5 < 10 * steps + 10
  BY DEF MarginMm
<1>2. 4 <= slack
  BY DEF MarginMm
<1> HIDE DEF steps
<1>3. steps \in Nat
  BY <1>1, <1>2
<1>4. steps * 5 <= slack /\ steps * 5 \in Int
  <2>1. CASE steps = 0
    BY <1>2, <2>1
  <2>2. CASE steps >= 1
    BY <1>1, <2>2
  <2> QED
    BY <1>3, <2>1, <2>2
<1>5. Min({slack, steps * 5}) = steps * 5
  <2>1. PICK k \in Int : k = steps * 5
    BY <1>4
  <2>2. k <= slack
    BY <1>4, <2>1
  <2>3. Min({slack, k}) = k
    <3>1. Min({slack, k}) \in {slack, k} /\ Min({slack, k}) <= k
      BY OfTwo
    <3> QED
      BY <2>2, <3>1
  <2> QED
    BY <2>1, <2>3
<1> QED
  BY <1>3, <1>5 DEF steps, PitchMm

(* Not moved, or with its left end onto a whole pitch.                         *)
MovedOnGrid(xs, ys) ==
    \E by \in Int : Moved(xs, ys, by) /\ (by = 0 \/ \E steps \in Nat : by = steps * 5 - Lefts(xs))

LEMMA CentredMoves ==
    ASSUME NEW n \in Nat \ {0}, NEW xs \in [1..n -> Int], NEW body \in Int
    PROVE  MovedOnGrid(xs, Centred(xs, body))
<1> DEFINE slack == body - (Rights(xs) - Lefts(xs))
           steps == (slack + PitchMm) \div (2 * PitchMm)
           by == Min({slack, steps * PitchMm}) - Lefts(xs)
<1>1. Lefts(xs) \in Int /\ Rights(xs) \in Int /\ slack \in Int
  BY EndsOfMany
<1>2. Centred(xs, body) = IF slack < 2 * MarginMm THEN xs ELSE Shifted(xs, by)
  BY DEF Centred
<1>3. CASE slack < 2 * MarginMm
  <2>1. Moved(xs, Centred(xs, body), 0)
    BY <1>2, <1>3 DEF Moved
  <2> QED
    BY <2>1 DEF MovedOnGrid
<1>4. CASE ~(slack < 2 * MarginMm)
  <2> HIDE DEF slack
  <2>1. 2 * MarginMm <= slack
    BY <1>1, <1>4 DEF MarginMm
  <2>2. steps \in Nat /\ Min({slack, steps * PitchMm}) = steps * PitchMm
    BY <1>1, <2>1, TensOfIt
  <2> HIDE DEF steps
  <2>3. by = steps * PitchMm - Lefts(xs) /\ by \in Int
    BY <1>1, <2>2 DEF PitchMm
  <2> HIDE DEF by
  <2>4. Moved(xs, Centred(xs, body), by)
    BY <1>2, <1>4 DEF Moved, Shifted
  <2> QED
    BY <2>2, <2>3, <2>4 DEF PitchMm, MovedOnGrid
<1> QED
  BY <1>3, <1>4

LEMMA OnTheGrid ==
    ASSUME NEW x \in Int, x % PitchMm = 0, NEW l \in Int, l % PitchMm = 0, NEW steps \in Nat
    PROVE  (x + steps * PitchMm - l) % PitchMm = 0
<1>1. PICK p \in Int : x = 5 * p
  <2>1. x = 5 * (x \div 5) /\ (x \div 5) \in Int
    BY DEF PitchMm
  <2> QED
    BY <2>1
<1>2. PICK q \in Int : l = 5 * q
  <2>1. l = 5 * (l \div 5) /\ (l \div 5) \in Int
    BY DEF PitchMm
  <2> QED
    BY <2>1
<1>3. PICK k \in Int : k = p + steps - q
  OBVIOUS
<1>4. x + steps * 5 - l = 5 * k
  BY <1>1, <1>2, <1>3
<1>5. (5 * k) % 5 = 0
  OBVIOUS
<1> QED
  BY <1>4, <1>5 DEF PitchMm

LEMMA LegsReach ==
    ASSUME NEW m, IsManifest(m)
    PROVE  LegsReachTheHoles(m)
<1> DEFINE n == Len(m.pins)
           xs == [i \in DOMAIN m.pins |-> m.pins[i].x]
           ys == IF Lefts(xs) < 0 THEN Shifted(xs, MarginMm - Lefts(xs)) ELSE xs
           body == Max({MinBody, m.width})
           legs == LegsOf(m)
<1>1. n \in Nat \ {0} /\ DOMAIN m.pins = 1..n
  BY DEF IsManifest
<1>2. xs \in [1..n -> Int] /\ DOMAIN xs = 1..n
  BY <1>1, PinsFit DEF IsManifest
<1>3. body \in Int
  <2>1. PICK w \in Int : w = m.width
    BY DEF IsManifest
  <2>2. PICK b \in Int : b = MinBody
    BY DEF MinBody
  <2>3. Max({b, w}) \in Int
    BY OfTwo
  <2> QED
    BY <2>1, <2>2, <2>3
<1>4. legs = Centred(ys, body)
  BY DEF LegsOf
<1> HIDE DEF n, xs, body, legs
<1>6. PICK c \in Int : /\ Moved(xs, ys, c)
                       /\ \A i \in 1..n : xs[i] + c >= 0
                       /\ (\A i \in 1..n : xs[i] >= 0) => c = 0
  <2>1. /\ Lefts(xs) \in Int
        /\ \A i \in 1..n : Lefts(xs) <= xs[i] /\ xs[i] \in Int
        /\ \E i \in 1..n : xs[i] = Lefts(xs)
    BY <1>1, <1>2, EndsOfMany
  <2>2. CASE Lefts(xs) < 0
    <3>1. Moved(xs, ys, MarginMm - Lefts(xs))
      BY <2>2 DEF Moved, Shifted
    <3>2. \A i \in 1..n : xs[i] + (MarginMm - Lefts(xs)) >= 0
      BY <2>1 DEF MarginMm
    <3>3. ~\A i \in 1..n : xs[i] >= 0
      BY <2>1, <2>2
    <3> QED
      BY <2>1, <3>1, <3>2, <3>3 DEF MarginMm
  <2>3. CASE ~(Lefts(xs) < 0)
    <3>1. Moved(xs, ys, 0)
      BY <1>2, <2>3 DEF Moved
    <3>2. \A i \in 1..n : xs[i] + 0 >= 0
      BY <2>1, <2>3
    <3> QED
      BY <3>1, <3>2
  <2> QED
    BY <2>2, <2>3
<1> HIDE DEF ys
<1>7. ys \in [1..n -> Int] /\ DOMAIN ys = 1..n /\ \A i \in 1..n : ys[i] = xs[i] + c /\ ys[i] >= 0
  BY <1>2, <1>6 DEF Moved
<1>8. PICK by \in Int : Moved(ys, legs, by) /\ (by = 0 \/ \E steps \in Nat : by = steps * 5 - Lefts(ys))
  <2>1. MovedOnGrid(ys, Centred(ys, body))
    BY <1>1, <1>3, <1>7, CentredMoves
  <2> QED
    BY <1>4, <2>1 DEF MovedOnGrid
<1>9. legs \in [1..n -> Int] /\ DOMAIN legs = 1..n /\ \A i \in 1..n : legs[i] = xs[i] + c + by
  BY <1>2, <1>7, <1>8 DEF Moved
<1>10. /\ Lefts(ys) \in Int
       /\ \A i \in 1..n : Lefts(ys) <= ys[i] /\ ys[i] \in Int
       /\ \E i \in 1..n : ys[i] = Lefts(ys)
  BY <1>1, <1>7, EndsOfMany
<1>11. ASSUME NEW i \in 1..n
       PROVE  legs[i] \in 0..Width(m)
  <2>1. legs[i] \in Int /\ legs[i] = ys[i] + by
    BY <1>2, <1>7, <1>9
  <2>2. legs[i] >= 0
    <3>1. CASE by = 0
      BY <1>7, <2>1, <3>1
    <3>2. CASE \E steps \in Nat : by = steps * 5 - Lefts(ys)
      <4>1. PICK steps \in Nat : by = steps * 5 - Lefts(ys)
        BY <3>2 DEF PitchMm
      <4> QED
        BY <1>10, <2>1, <4>1
    <3> QED
      BY <1>8, <3>1, <3>2
  <2>3. Rights(legs) \in Int /\ legs[i] <= Rights(legs)
    BY <1>1, <1>9, EndsOfMany
  <2>4. Width(m) \in Int /\ Rights(legs) + MarginMm <= Width(m)
    <3>1. Width(m) = Max({MinBody, m.width, Rights(legs) + MarginMm})
      BY DEF Width, legs
    <3>2. MinBody \in Int /\ m.width \in Int /\ Rights(legs) + MarginMm \in Int
      BY <2>3 DEF IsManifest, MinBody, MarginMm
    <3> QED
      BY <3>1, <3>2, OfThree
  <2> QED
    BY <2>1, <2>2, <2>3, <2>4 DEF MarginMm
<1>12. ASSUME NEW i \in 1..n, NEW j \in 1..n
       PROVE  legs[i] - legs[j] = xs[i] - xs[j]
  BY <1>2, <1>9
<1>13. ASSUME \A j \in 1..n : xs[j] >= 0 /\ xs[j] % PitchMm = 0, NEW i \in 1..n
       PROVE  legs[i] % PitchMm = 0
  <2>1. c = 0
    BY <1>6, <1>13
  <2>2. \A j \in 1..n : ys[j] = xs[j] /\ xs[j] \in Int
    BY <1>2, <1>7, <2>1
  <2>3. Lefts(ys) % PitchMm = 0
    BY <1>10, <1>13, <2>2
  <2>4. legs[i] = xs[i] + by
    BY <1>2, <1>9, <2>1
  <2>5. CASE by = 0
    BY <1>13, <2>2, <2>4, <2>5
  <2>6. CASE \E steps \in Nat : by = steps * 5 - Lefts(ys)
    <3>1. PICK steps \in Nat : by = steps * PitchMm - Lefts(ys)
      BY <2>6 DEF PitchMm
    <3>2. (xs[i] + steps * PitchMm - Lefts(ys)) % PitchMm = 0
      BY <1>10, <1>13, <2>2, <2>3, OnTheGrid
    <3>3. legs[i] = xs[i] + steps * PitchMm - Lefts(ys)
      BY <1>10, <2>2, <2>4, <3>1 DEF PitchMm
    <3> QED
      BY <3>2, <3>3
  <2> QED
    BY <1>8, <2>5, <2>6
<1> QED
  BY <1>2, <1>11, <1>12, <1>13 DEF LegsReachTheHoles, legs, xs

-------------------------------------------------------------------------------
(* The library: what is on its way to the worker makes up for what it does not *)
(* know yet.                                                                   *)

GoodParts == {m \in Shipped \cup Drafts : Valid(m)}
Shareable == {m \in ValidDrafts : m.id \notin HandCoded}
PlacedTypes == SUBSET (Types \ HandCoded)

Registrations == [call : {"registerManifest"}, manifest : Shareable]
Loads == [call : {"load", "loadProject"}, types : PlacedTypes, foreign : SUBSET Types]
Calls == Registrations \cup Loads
Parts == [Types -> GoodParts \cup {NoManifest}]

LibraryTypeOK ==
    /\ extraction \in [stage : {"idle", "asking", "ok", "refused", "thrown"}, attempt : Nat, retry : Nat,
                       found : ValidDrafts \cup {NoManifest}]
    /\ preview \in ValidDrafts \cup {NoManifest}
    /\ registered \in [studio : Parts, worker : Parts]
    /\ stored \subseteq Shareable /\ IsFiniteSet(stored) /\ \A m, o \in stored : m.id = o.id => m = o
    /\ placed \in PlacedTypes
    /\ told \in Seq(Calls)
    /\ firmware \in BOOLEAN

(* The i-th call of q registers a part of type t.                              *)
Due(q, t, i) == q[i].call = "registerManifest" /\ q[i].manifest.id = t

(* What is not on its way the two registries agree on, and what is on its way   *)
(* ends with what the studio has.                                              *)
InStep(q, studio, worker) ==
    \A t \in Types :
        /\ (\A i \in DOMAIN q : ~Due(q, t, i)) => worker[t] = studio[t]
        /\ \A i \in DOMAIN q :
              Due(q, t, i) /\ (\A j \in DOMAIN q : j > i => ~Due(q, t, j)) => q[i].manifest = studio[t]

(* A part of a circuit on its way was unknown to the canvas, is known to the   *)
(* worker or registered before the circuit gets there; or nothing is built,    *)
(* because there is no firmware yet.                                           *)
Covered(q, worker, hex, i, t) ==
    \/ t \in q[i].foreign
    \/ KnownType(worker, t)
    \/ \E j \in DOMAIN q : j < i /\ Due(q, t, j)
    \/ ~hex /\ q[i].call = "loadProject" /\ \A j \in DOMAIN q : j < i => q[j].call # "load"

AllCovered(q, worker, hex) ==
    \A i \in DOMAIN q : q[i].call # "registerManifest" => \A t \in q[i].types : Covered(q, worker, hex, i, t)

(* An answer is one attempt, and costs no more calls than its retries.         *)
BudgetInv ==
    /\ answers \in Nat /\ calls \in Nat
    /\ extraction.stage = "asking" =>
          /\ extraction.attempt = answers + 1 /\ extraction.attempt <= MaxAttempts
          /\ extraction.retry <= MaxRetries
          /\ calls <= answers * (MaxRetries + 1) + extraction.retry
    /\ extraction.stage = "refused" => answers = MaxAttempts

UnderWayInv ==
    /\ InStep(told, registered.studio, registered.worker)
    /\ AllCovered(told, registered.worker, firmware)

BoardInv == onBoard \subseteq SoundParts /\ unknown \subseteq foreign

LibraryInv == LibraryTypeOK /\ BudgetInv /\ UnderWayInv /\ BoardInv

LEMMA Appended ==
    ASSUME NEW q \in Seq(Calls), NEW c \in Calls
    PROVE  /\ Append(q, c) \in Seq(Calls) /\ Len(q) \in Nat
           /\ DOMAIN q = 1..Len(q) /\ DOMAIN Append(q, c) = 1..(Len(q) + 1)
           /\ \A i \in DOMAIN q : Append(q, c)[i] = q[i]
           /\ Append(q, c)[Len(q) + 1] = c
  OBVIOUS

LEMMA CoverKept ==
    ASSUME NEW q \in Seq(Calls), NEW c \in Calls, NEW worker, NEW hex, NEW i \in DOMAIN q, NEW t,
           Covered(q, worker, hex, i, t)
    PROVE  Covered(Append(q, c), worker, hex, i, t)
<1>1. PICK r : r = Append(q, c)
  OBVIOUS
<1>2. /\ Len(q) \in Nat /\ DOMAIN q = 1..Len(q) /\ DOMAIN r = 1..(Len(q) + 1)
      /\ \A j \in DOMAIN q : r[j] = q[j]
  BY <1>1, Appended
<1>3. r[i] = q[i] /\ DOMAIN q \subseteq DOMAIN r /\ \A j \in DOMAIN r : j < i => j \in DOMAIN q
  BY <1>2
<1>4. \A j \in DOMAIN q : Due(r, t, j) <=> Due(q, t, j)
  BY <1>2 DEF Due
<1>5. Covered(r, worker, hex, i, t)
  BY <1>2, <1>3, <1>4 DEF Covered
<1> QED
  BY <1>1, <1>5

(* addManifest.                                                                *)
LEMMA RegistrationSent ==
    ASSUME NEW q \in Seq(Calls), NEW studio \in Parts, NEW worker \in Parts, NEW hex, NEW m \in Shareable,
           NEW c, c = [call |-> "registerManifest", manifest |-> m],
           InStep(q, studio, worker), AllCovered(q, worker, hex)
    PROVE  /\ c \in Calls /\ Registering(studio, m) \in Parts
           /\ InStep(Append(q, c), Registering(studio, m), worker)
           /\ AllCovered(Append(q, c), worker, hex)
<1>0. c \in Calls /\ c.call = "registerManifest" /\ c.manifest = m
  BY DEF Calls, Registrations
<1>1. PICK r : r = Append(q, c)
  OBVIOUS
<1>2. /\ Len(q) \in Nat /\ DOMAIN q = 1..Len(q) /\ DOMAIN r = 1..(Len(q) + 1)
      /\ \A j \in DOMAIN q : r[j] = q[j]
      /\ r[Len(q) + 1] = c
  BY <1>0, <1>1, Appended
<1>3. PICK after : after = Registering(studio, m)
  OBVIOUS
<1>4. after \in Parts /\ \A t \in Types : after[t] = IF t = m.id THEN m ELSE studio[t]
  <2>1. m \in GoodParts /\ m.id \notin HandCoded /\ m.id \in Types
    BY DEF Shareable, ValidDrafts, GoodParts, Types
  <2>2. after = [studio EXCEPT ![m.id] = m]
    BY <1>3, <2>1 DEF Registering
  <2> QED
    BY <2>1, <2>2 DEF Parts
<1>5. ASSUME NEW t \in Types
      PROVE  /\ (\A i \in DOMAIN r : ~Due(r, t, i)) => worker[t] = after[t]
             /\ \A i \in DOMAIN r :
                    Due(r, t, i) /\ (\A j \in DOMAIN r : j > i => ~Due(r, t, j)) => r[i].manifest = after[t]
  <2>1. \A j \in DOMAIN q : (Due(r, t, j) <=> Due(q, t, j)) /\ j \in DOMAIN r
    BY <1>2 DEF Due
  <2>2. Due(r, t, Len(q) + 1) <=> m.id = t
    BY <1>0, <1>2 DEF Due
  <2>3. /\ (\A i \in DOMAIN q : ~Due(q, t, i)) => worker[t] = studio[t]
        /\ \A i \in DOMAIN q :
              Due(q, t, i) /\ (\A j \in DOMAIN q : j > i => ~Due(q, t, j)) => q[i].manifest = studio[t]
    BY DEF InStep
  <2>4. CASE m.id = t
    <3>1. \A i \in DOMAIN r : i # Len(q) + 1 => \E j \in DOMAIN r : j > i /\ Due(r, t, j)
      BY <1>2, <2>2, <2>4
    <3> QED
      BY <1>0, <1>2, <1>4, <2>2, <2>4, <3>1
  <2>5. CASE m.id # t
    <3>1. after[t] = studio[t]
      BY <1>4, <2>5
    <3>2. \A i \in DOMAIN r : Due(r, t, i) => i \in DOMAIN q
      BY <1>2, <2>2, <2>5
    <3>3. (\A i \in DOMAIN r : ~Due(r, t, i)) => worker[t] = after[t]
      BY <2>1, <2>3, <3>1
    <3>4. ASSUME NEW i \in DOMAIN r, Due(r, t, i), \A j \in DOMAIN r : j > i => ~Due(r, t, j)
          PROVE  r[i].manifest = after[t]
      <4>1. i \in DOMAIN q /\ r[i] = q[i] /\ Due(q, t, i)
        BY <1>2, <2>1, <3>2, <3>4
      <4>2. \A j \in DOMAIN q : j > i => ~Due(q, t, j)
        BY <2>1, <3>4
      <4> QED
        BY <2>3, <3>1, <4>1, <4>2
    <3> QED
      BY <3>3, <3>4
  <2> QED
    BY <2>4, <2>5
<1>6. ASSUME NEW i \in DOMAIN r, r[i].call # "registerManifest", NEW t \in r[i].types
      PROVE  Covered(r, worker, hex, i, t)
  <2>1. i \in DOMAIN q /\ r[i] = q[i]
    BY <1>0, <1>2, <1>6
  <2>2. Covered(q, worker, hex, i, t)
    BY <1>6, <2>1 DEF AllCovered
  <2> QED
    BY <1>0, <1>1, <2>1, <2>2, CoverKept
<1>7. InStep(r, after, worker)
  BY <1>5 DEF InStep
<1>8. AllCovered(r, worker, hex)
  BY <1>6 DEF AllCovered
<1> QED
  BY <1>0, <1>1, <1>3, <1>4, <1>7, <1>8

(* A circuit goes after what it needs: place, open, flash.                     *)
LEMMA CircuitSent ==
    ASSUME NEW q \in Seq(Calls), NEW studio \in Parts, NEW worker \in Parts, NEW hex, NEW c \in Loads,
           c.foreign = Strangers(studio, c.types),
           InStep(q, studio, worker), AllCovered(q, worker, hex)
    PROVE  /\ InStep(Append(q, c), studio, worker)
           /\ AllCovered(Append(q, c), worker, hex)
<1>0. c \in Calls /\ c.call \in {"load", "loadProject"} /\ c.types \subseteq Types
  BY DEF Calls, Loads, PlacedTypes
<1>1. PICK r : r = Append(q, c)
  OBVIOUS
<1>2. /\ Len(q) \in Nat /\ DOMAIN q = 1..Len(q) /\ DOMAIN r = 1..(Len(q) + 1)
      /\ \A j \in DOMAIN q : r[j] = q[j]
      /\ r[Len(q) + 1] = c
  BY <1>0, <1>1, Appended
<1>3. \A t, j : j \in DOMAIN q => (Due(r, t, j) <=> Due(q, t, j)) /\ j \in DOMAIN r
  BY <1>2 DEF Due
<1>4. \A t, i : i \in DOMAIN r /\ Due(r, t, i) => i \in DOMAIN q
  BY <1>0, <1>2 DEF Due
<1>5. ASSUME NEW t \in Types
      PROVE  /\ (\A i \in DOMAIN r : ~Due(r, t, i)) => worker[t] = studio[t]
             /\ \A i \in DOMAIN r :
                    Due(r, t, i) /\ (\A j \in DOMAIN r : j > i => ~Due(r, t, j)) => r[i].manifest = studio[t]
  <2>1. /\ (\A i \in DOMAIN q : ~Due(q, t, i)) => worker[t] = studio[t]
        /\ \A i \in DOMAIN q :
              Due(q, t, i) /\ (\A j \in DOMAIN q : j > i => ~Due(q, t, j)) => q[i].manifest = studio[t]
    BY DEF InStep
  <2>2. (\A i \in DOMAIN r : ~Due(r, t, i)) => worker[t] = studio[t]
    BY <1>3, <2>1
  <2>3. ASSUME NEW i \in DOMAIN r, Due(r, t, i), \A j \in DOMAIN r : j > i => ~Due(r, t, j)
        PROVE  r[i].manifest = studio[t]
    <3>1. i \in DOMAIN q /\ r[i] = q[i] /\ Due(q, t, i)
      BY <1>2, <1>3, <1>4, <2>3
    <3>2. \A j \in DOMAIN q : j > i => ~Due(q, t, j)
      BY <1>3, <2>3
    <3> QED
      BY <2>1, <3>1, <3>2
  <2> QED
    BY <2>2, <2>3
<1>6. ASSUME NEW i \in DOMAIN r, r[i].call # "registerManifest", NEW t \in r[i].types
      PROVE  Covered(r, worker, hex, i, t)
  <2>1. CASE i \in DOMAIN q
    <3>1. r[i] = q[i]
      BY <1>2, <2>1
    <3>2. Covered(q, worker, hex, i, t)
      BY <1>6, <2>1, <3>1 DEF AllCovered
    <3> QED
      BY <1>0, <1>1, <2>1, <3>2, CoverKept
  <2>2. CASE i \notin DOMAIN q
    <3>1. i = Len(q) + 1 /\ r[i] = c /\ t \in Types /\ t \in c.types
      BY <1>0, <1>2, <1>6, <2>2
    <3>2. CASE t \in c.foreign
      BY <3>1, <3>2 DEF Covered
    <3>3. CASE KnownType(studio, t)
      <4>1. CASE \A j \in DOMAIN r : ~Due(r, t, j)
        <5>1. worker[t] = studio[t]
          BY <1>5, <3>1, <4>1
        <5> QED
          BY <3>3, <5>1 DEF Covered, KnownType
      <4>2. CASE \E j \in DOMAIN r : Due(r, t, j)
        <5>1. PICK j \in DOMAIN r : Due(r, t, j)
          BY <4>2
        <5>2. j < i
          BY <1>2, <1>4, <3>1, <5>1
        <5> QED
          BY <5>1, <5>2 DEF Covered
      <4> QED
        BY <4>1, <4>2
    <3> QED
      BY <3>1, <3>2, <3>3 DEF Strangers
  <2> QED
    BY <2>1, <2>2
<1>7. InStep(r, studio, worker)
  BY <1>5 DEF InStep
<1>8. AllCovered(r, worker, hex)
  BY <1>6 DEF AllCovered
<1> QED
  BY <1>1, <1>7, <1>8

LEMMA TailsOfCalls ==
    ASSUME NEW q \in Seq(Calls), q # <<>>
    PROVE  /\ Tail(q) \in Seq(Calls) /\ Len(q) \in Nat \ {0}
           /\ DOMAIN q = 1..Len(q) /\ DOMAIN Tail(q) = 1..(Len(q) - 1)
           /\ \A i \in DOMAIN Tail(q) : Tail(q)[i] = q[i + 1]
           /\ Head(q) = q[1] /\ q[1] \in Calls
  OBVIOUS

(* The worker takes a manifest.                                                *)
LEMMA RegistrationTaken ==
    ASSUME NEW q \in Seq(Calls), q # <<>>, NEW studio \in Parts, NEW worker \in Parts, NEW hex,
           NEW m, m = q[1].manifest, q[1].call = "registerManifest",
           InStep(q, studio, worker), AllCovered(q, worker, hex)
    PROVE  /\ Registering(worker, m) \in Parts
           /\ InStep(Tail(q), studio, Registering(worker, m))
           /\ AllCovered(Tail(q), Registering(worker, m), hex)
<1>1. PICK p : p = Tail(q)
  OBVIOUS
<1>2. /\ Len(q) \in Nat \ {0} /\ DOMAIN q = 1..Len(q) /\ DOMAIN p = 1..(Len(q) - 1)
      /\ \A i \in DOMAIN p : p[i] = q[i + 1]
      /\ p \in Seq(Calls) /\ q[1] \in Calls
  BY <1>1, TailsOfCalls
<1>3. PICK after : after = Registering(worker, m)
  OBVIOUS
<1>4. m \in Shareable
  BY <1>2 DEF Calls, Registrations, Loads
<1>5. /\ after \in Parts /\ m # NoManifest
      /\ \A t \in Types : after[t] = IF t = m.id THEN m ELSE worker[t]
  <2>1. m \in GoodParts /\ m.id \notin HandCoded /\ m.id \in Types /\ m # NoManifest
    BY <1>4, PartLibraryAssumption DEF Shareable, ValidDrafts, GoodParts, Types
  <2>2. after = [worker EXCEPT ![m.id] = m]
    BY <1>3, <2>1 DEF Registering
  <2> QED
    BY <2>1, <2>2 DEF Parts
<1>6. \A t, i : i \in DOMAIN p => i + 1 \in DOMAIN q /\ (Due(p, t, i) <=> Due(q, t, i + 1))
  BY <1>2 DEF Due
<1>7. \A t : Due(q, t, 1) <=> m.id = t
  BY DEF Due
<1>8. \A j \in DOMAIN q : j # 1 => j - 1 \in DOMAIN p /\ (j - 1) + 1 = j
  BY <1>2
<1>9. ASSUME NEW t \in Types
      PROVE  /\ (\A i \in DOMAIN p : ~Due(p, t, i)) => after[t] = studio[t]
             /\ \A i \in DOMAIN p :
                    Due(p, t, i) /\ (\A j \in DOMAIN p : j > i => ~Due(p, t, j)) => p[i].manifest = studio[t]
  <2>1. /\ (\A i \in DOMAIN q : ~Due(q, t, i)) => worker[t] = studio[t]
        /\ \A i \in DOMAIN q :
              Due(q, t, i) /\ (\A j \in DOMAIN q : j > i => ~Due(q, t, j)) => q[i].manifest = studio[t]
    BY DEF InStep
  <2>2. ASSUME \A i \in DOMAIN p : ~Due(p, t, i)
        PROVE  after[t] = studio[t]
    <3>1. \A j \in DOMAIN q : j # 1 => ~Due(q, t, j)
      BY <1>6, <1>8, <2>2
    <3>2. CASE m.id = t
      <4>1. 1 \in DOMAIN q /\ Due(q, t, 1) /\ \A j \in DOMAIN q : j > 1 => ~Due(q, t, j)
        BY <1>2, <1>7, <3>1, <3>2
      <4> QED
        BY <1>5, <2>1, <3>2, <4>1
    <3>3. CASE m.id # t
      <4>1. \A j \in DOMAIN q : ~Due(q, t, j)
        BY <1>7, <3>1, <3>3
      <4> QED
        BY <1>5, <2>1, <3>3, <4>1
    <3> QED
      BY <3>2, <3>3
  <2>3. ASSUME NEW i \in DOMAIN p, Due(p, t, i), \A j \in DOMAIN p : j > i => ~Due(p, t, j)
        PROVE  p[i].manifest = studio[t]
    <3>1. i + 1 \in DOMAIN q /\ Due(q, t, i + 1) /\ p[i] = q[i + 1]
      BY <1>2, <1>6, <2>3
    <3>2. ASSUME NEW j \in DOMAIN q, j > i + 1
          PROVE  ~Due(q, t, j)
      <4>1. j - 1 \in DOMAIN p /\ j - 1 > i /\ (j - 1) + 1 = j
        BY <1>2, <3>2
      <4> QED
        BY <1>6, <2>3, <4>1
    <3> QED
      BY <2>1, <3>1, <3>2
  <2> QED
    BY <2>2, <2>3
<1>10. ASSUME NEW i \in DOMAIN p, p[i].call # "registerManifest", NEW t \in p[i].types
       PROVE  Covered(p, after, hex, i, t)
  <2>1. i + 1 \in DOMAIN q /\ p[i] = q[i + 1] /\ i \in Int
    BY <1>2
  <2>2. t \in Types
    <3>1. p[i] \in Calls
      BY <1>2
    <3>2. p[i].types \in PlacedTypes
      BY <1>10, <3>1 DEF Calls, Registrations, Loads
    <3> QED
      BY <3>2 DEF PlacedTypes
  <2>3. Covered(q, worker, hex, i + 1, t)
    BY <1>10, <2>1 DEF AllCovered
  <2>4. KnownType(worker, t) \/ m.id = t => KnownType(after, t)
    BY <1>5, <2>2 DEF KnownType
  <2>5. CASE t \in q[i + 1].foreign \/ KnownType(worker, t)
    BY <2>1, <2>4, <2>5 DEF Covered
  <2>6. CASE \E j \in DOMAIN q : j < i + 1 /\ Due(q, t, j)
    <3>1. PICK j \in DOMAIN q : j < i + 1 /\ Due(q, t, j)
      BY <2>6
    <3>2. CASE j = 1
      BY <1>7, <2>4, <3>1, <3>2 DEF Covered
    <3>3. CASE j # 1
      <4>1. j - 1 \in DOMAIN p /\ j - 1 < i /\ (j - 1) + 1 = j
        BY <1>2, <3>1, <3>3
      <4>2. Due(p, t, j - 1)
        BY <1>6, <3>1, <4>1
      <4> QED
        BY <4>1, <4>2 DEF Covered
    <3> QED
      BY <3>2, <3>3
  <2>7. CASE ~hex /\ q[i + 1].call = "loadProject" /\ \A j \in DOMAIN q : j < i + 1 => q[j].call # "load"
    <3>1. \A j \in DOMAIN p : j < i => j + 1 \in DOMAIN q /\ j + 1 < i + 1 /\ p[j] = q[j + 1]
      BY <1>2, <2>1
    <3> QED
      BY <2>1, <2>7, <3>1 DEF Covered
  <2> QED
    BY <2>3, <2>5, <2>6, <2>7 DEF Covered
<1>11. InStep(p, studio, after)
  BY <1>9 DEF InStep
<1>12. AllCovered(p, after, hex)
  BY <1>10 DEF AllCovered
<1> QED
  BY <1>1, <1>3, <1>5, <1>11, <1>12

(* The worker takes a circuit.                                                 *)
LEMMA CircuitTaken ==
    ASSUME NEW q \in Seq(Calls), q # <<>>, NEW studio \in Parts, NEW worker \in Parts, NEW hex \in BOOLEAN,
           q[1].call # "registerManifest", NEW after \in BOOLEAN, after = (hex \/ q[1].call = "load"),
           InStep(q, studio, worker), AllCovered(q, worker, hex)
    PROVE  /\ InStep(Tail(q), studio, worker)
           /\ AllCovered(Tail(q), worker, after)
           /\ after => Strangers(worker, q[1].types) \subseteq q[1].foreign
<1>1. PICK p : p = Tail(q)
  OBVIOUS
<1>2. /\ Len(q) \in Nat \ {0} /\ DOMAIN q = 1..Len(q) /\ DOMAIN p = 1..(Len(q) - 1)
      /\ \A i \in DOMAIN p : p[i] = q[i + 1]
      /\ p \in Seq(Calls) /\ q[1] \in Calls
  BY <1>1, TailsOfCalls
<1>3. \A t, i : i \in DOMAIN p => i + 1 \in DOMAIN q /\ (Due(p, t, i) <=> Due(q, t, i + 1))
  BY <1>2 DEF Due
<1>4. \A t : ~Due(q, t, 1)
  BY DEF Due
<1>5. \A j \in DOMAIN q : j # 1 => j - 1 \in DOMAIN p /\ (j - 1) + 1 = j
  BY <1>2
<1>6. ASSUME NEW t \in Types
      PROVE  /\ (\A i \in DOMAIN p : ~Due(p, t, i)) => worker[t] = studio[t]
             /\ \A i \in DOMAIN p :
                    Due(p, t, i) /\ (\A j \in DOMAIN p : j > i => ~Due(p, t, j)) => p[i].manifest = studio[t]
  <2>1. /\ (\A i \in DOMAIN q : ~Due(q, t, i)) => worker[t] = studio[t]
        /\ \A i \in DOMAIN q :
              Due(q, t, i) /\ (\A j \in DOMAIN q : j > i => ~Due(q, t, j)) => q[i].manifest = studio[t]
    BY DEF InStep
  <2>2. ASSUME \A i \in DOMAIN p : ~Due(p, t, i)
        PROVE  worker[t] = studio[t]
    <3>1. \A j \in DOMAIN q : ~Due(q, t, j)
      BY <1>3, <1>4, <1>5, <2>2
    <3> QED
      BY <2>1, <3>1
  <2>3. ASSUME NEW i \in DOMAIN p, Due(p, t, i), \A j \in DOMAIN p : j > i => ~Due(p, t, j)
        PROVE  p[i].manifest = studio[t]
    <3>1. i + 1 \in DOMAIN q /\ Due(q, t, i + 1) /\ p[i] = q[i + 1]
      BY <1>2, <1>3, <2>3
    <3>2. ASSUME NEW j \in DOMAIN q, j > i + 1
          PROVE  ~Due(q, t, j)
      <4>1. j - 1 \in DOMAIN p /\ j - 1 > i /\ (j - 1) + 1 = j
        BY <1>2, <3>2
      <4> QED
        BY <1>3, <2>3, <4>1
    <3> QED
      BY <2>1, <3>1, <3>2
  <2> QED
    BY <2>2, <2>3
<1>7. ASSUME NEW i \in DOMAIN p, p[i].call # "registerManifest", NEW t \in p[i].types
      PROVE  Covered(p, worker, after, i, t)
  <2>1. i + 1 \in DOMAIN q /\ p[i] = q[i + 1] /\ i \in Int /\ i >= 1
    BY <1>2
  <2>2. Covered(q, worker, hex, i + 1, t)
    BY <1>7, <2>1 DEF AllCovered
  <2>3. CASE t \in q[i + 1].foreign \/ KnownType(worker, t)
    BY <2>1, <2>3 DEF Covered
  <2>4. CASE \E j \in DOMAIN q : j < i + 1 /\ Due(q, t, j)
    <3>1. PICK j \in DOMAIN q : j < i + 1 /\ Due(q, t, j)
      BY <2>4
    <3>2. j # 1
      BY <1>4, <3>1
    <3>3. j - 1 \in DOMAIN p /\ j - 1 < i /\ (j - 1) + 1 = j
      BY <1>2, <3>1, <3>2
    <3>4. Due(p, t, j - 1)
      BY <1>3, <3>1, <3>3
    <3> QED
      BY <3>3, <3>4 DEF Covered
  <2>5. CASE ~hex /\ q[i + 1].call = "loadProject" /\ \A j \in DOMAIN q : j < i + 1 => q[j].call # "load"
    <3>1. \A j \in DOMAIN p : j < i => j + 1 \in DOMAIN q /\ j + 1 < i + 1 /\ p[j] = q[j + 1]
      BY <1>2, <2>1
    <3>2. ~after
      <4>1. 1 \in DOMAIN q /\ 1 < i + 1
        BY <1>2, <2>1
      <4> QED
        BY <2>5, <4>1
    <3> QED
      BY <2>1, <2>5, <3>1, <3>2 DEF Covered
  <2> QED
    BY <2>2, <2>3, <2>4, <2>5 DEF Covered
<1>8. ASSUME after, NEW t \in Strangers(worker, q[1].types)
      PROVE  t \in q[1].foreign
  <2>1. t \in q[1].types /\ ~KnownType(worker, t)
    BY DEF Strangers
  <2>2. 1 \in DOMAIN q /\ \A j \in DOMAIN q : ~(j < 1)
    BY <1>2
  <2>3. Covered(q, worker, hex, 1, t)
    BY <2>1, <2>2 DEF AllCovered
  <2>4. ~(~hex /\ q[1].call = "loadProject")
    BY <1>8
  <2> QED
    BY <2>1, <2>2, <2>3, <2>4 DEF Covered
<1>9. InStep(p, studio, worker)
  BY <1>6 DEF InStep
<1>10. AllCovered(p, worker, after)
  BY <1>7 DEF AllCovered
<1> QED
  BY <1>1, <1>8, <1>9, <1>10

LEMMA SetsInOrder ==
    ASSUME NEW S, IsFiniteSet(S)
    PROVE  /\ SetToSeq(S) \in Seq(S)
           /\ \A s \in S : \E i \in DOMAIN SetToSeq(S) : SetToSeq(S)[i] = s
<1> DEFINE n == Cardinality(S)
<1>1. n \in Nat /\ ExistsBijection(1..n, S)
  BY FS_CardinalityType
<1> HIDE DEF n
<1>2. \E g \in [1..n -> S] : IsInjective(g)
  BY <1>1 DEF ExistsBijection, Bijection, Injection, IsInjective
<1>3. PICK f : f = SetToSeq(S)
  OBVIOUS
<1>4. f \in [1..n -> S] /\ IsInjective(f)
  BY <1>2, <1>3 DEF SetToSeq, n
<1>5. f \in Injection(1..n, S)
  BY <1>4 DEF Injection, IsInjective
<1>6. Cardinality(1..n) = Cardinality(S)
  BY <1>1, FS_Interval DEF n
<1>7. f \in Surjection(1..n, S)
  BY <1>5, <1>6, FS_Injection
<1>8. \A s \in S : \E i \in 1..n : f[i] = s
  BY <1>7 DEF Surjection
<1>9. f \in Seq(S) /\ DOMAIN f = 1..n
  BY <1>1, <1>4
<1> QED
  BY <1>3, <1>8, <1>9

Asked(m) == [call |-> "registerManifest", manifest |-> m]

(* The page starts again: the circuit first, then the library.                 *)
LEMMA Restarted ==
    ASSUME NEW library, library \subseteq Shareable, IsFiniteSet(library),
           \A m, o \in library : m.id = o.id => m = o,
           NEW c, c \in Loads, c.call = "loadProject",
           NEW q, q = <<c>> \o SetToSeq({[call |-> "registerManifest", manifest |-> m] : m \in library})
    PROVE  /\ q \in Seq(Calls) /\ Installed \in Parts /\ Restored(Installed, library) \in Parts
           /\ InStep(q, Restored(Installed, library), Installed)
           /\ AllCovered(q, Installed, FALSE)
<1> DEFINE wanted == {Asked(m) : m \in library}
<1>1. PICK rest : rest = SetToSeq(wanted)
  OBVIOUS
<1>2. rest \in Seq(wanted) /\ \A w \in wanted : \E i \in DOMAIN rest : rest[i] = w
  <2>1. IsFiniteSet(wanted)
    <3> DEFINE f == [m \in library |-> Asked(m)]
    <3>1. f \in Surjection(library, wanted)
      BY DEF Surjection
    <3> QED
      BY <3>1, FS_Surjection
  <2> HIDE DEF wanted
  <2> QED
    BY <1>1, <2>1, SetsInOrder
<1>3. \A w \in wanted : w \in Calls /\ w.call = "registerManifest" /\ w.manifest \in library
  BY DEF Asked, Calls, Registrations
<1>4. q = <<c>> \o rest
  BY <1>1 DEF Asked
<1>5. c \in Calls
  BY DEF Calls
<1>6. /\ q \in Seq(Calls) /\ Len(rest) \in Nat /\ DOMAIN rest = 1..Len(rest) /\ DOMAIN q = 1..(Len(rest) + 1)
      /\ q[1] = c
      /\ \A i \in DOMAIN rest : q[i + 1] = rest[i] /\ rest[i] \in wanted
  <2>1. rest \in Seq(Calls)
    <3>1. wanted \subseteq Calls
      BY <1>3
    <3> HIDE DEF wanted
    <3> QED
      BY <1>2, <3>1
  <2>2. Len(rest) \in Nat /\ DOMAIN rest = 1..Len(rest)
    BY <2>1
  <2>3. \A i \in DOMAIN rest : rest[i] \in wanted
    <3> HIDE DEF wanted
    <3> QED
      BY <1>2
  <2>4. q \in Seq(Calls) /\ DOMAIN q = 1..(Len(rest) + 1) /\ q[1] = c /\ \A i \in DOMAIN rest : q[i + 1] = rest[i]
    <3>0. PICK first : first = <<c>>
      OBVIOUS
    <3>1. first \in Seq(Calls) /\ Len(first) = 1 /\ first[1] = c
      <4>1. first \in Seq(Calls)
        BY <1>5, <3>0
      <4>2. Len(first) = 1 /\ first[1] = c
        BY <3>0
      <4> QED
        BY <4>1, <4>2
    <3>2. /\ q \in Seq(Calls) /\ Len(q) = 1 + Len(rest)
          /\ \A i \in 1..(1 + Len(rest)) : q[i] = IF i <= 1 THEN first[i] ELSE rest[i - 1]
      <4>1. q = first \o rest
        BY <1>4, <3>0
      <4>2. /\ first \o rest \in Seq(Calls) /\ Len(first \o rest) = Len(first) + Len(rest)
            /\ \A i \in 1..(Len(first) + Len(rest)) :
                  (first \o rest)[i] = IF i <= Len(first) THEN first[i] ELSE rest[i - Len(first)]
        BY <2>1, <3>1, ConcatProperties
      <4> QED
        BY <3>1, <4>1, <4>2
    <3>3. DOMAIN q = 1..(Len(rest) + 1)
      BY <2>2, <3>2
    <3>4. q[1] = c
      BY <2>2, <3>1, <3>2
    <3>5. ASSUME NEW i \in DOMAIN rest
          PROVE  q[i + 1] = rest[i]
      <4>1. i + 1 \in 1..(1 + Len(rest)) /\ ~(i + 1 <= 1) /\ (i + 1) - 1 = i
        BY <2>2
      <4> QED
        BY <3>2, <4>1
    <3> QED
      BY <3>2, <3>3, <3>4, <3>5
  <2> QED
    BY <2>2, <2>3, <2>4
<1> HIDE DEF wanted
<1>7. \A i \in DOMAIN q : i # 1 => /\ q[i].call = "registerManifest" /\ q[i].manifest \in library
  <2>1. \A i \in DOMAIN q : i # 1 => i - 1 \in DOMAIN rest /\ (i - 1) + 1 = i
    BY <1>6
  <2>2. \A i \in DOMAIN q : i # 1 => q[i] \in wanted
    BY <1>6, <2>1
  <2> QED
    BY <1>3, <2>2
<1>8. \A m \in library : \E i \in DOMAIN q : i # 1 /\ q[i] = Asked(m)
  <2>1. ASSUME NEW m \in library
        PROVE  \E i \in DOMAIN q : i # 1 /\ q[i] = Asked(m)
    <3>1. Asked(m) \in wanted
      BY DEF wanted
    <3>2. PICK i \in DOMAIN rest : rest[i] = Asked(m)
      BY <1>2, <3>1
    <3>3. i + 1 \in DOMAIN q /\ i + 1 # 1 /\ q[i + 1] = Asked(m)
      BY <1>6, <3>2
    <3> QED
      BY <3>3
  <2> QED
    BY <2>1
<1>9. ~(q[1].call = "registerManifest")
  BY <1>6
<1>10. Installed \in Parts
  <2>1. \A m \in Shipped : m \in GoodParts
    BY PartLibraryAssumption DEF GoodParts
  <2>2. ASSUME NEW t \in Types
        PROVE  Installed[t] \in GoodParts \cup {NoManifest}
    <3>1. CASE \E m \in Shipped : m.id = t
      <4>1. Installed[t] = CHOOSE m \in Shipped : m.id = t
        BY <3>1 DEF Installed
      <4>2. Installed[t] \in Shipped
        BY <3>1, <4>1
      <4> QED
        BY <2>1, <4>2
    <3>2. CASE ~\E m \in Shipped : m.id = t
      BY <3>2 DEF Installed
    <3> QED
      BY <3>1, <3>2
  <2>3. Installed = [t \in Types |-> Installed[t]]
    BY DEF Installed
  <2> QED
    BY <2>2, <2>3 DEF Parts
<1>11. PICK after : after = Restored(Installed, library)
  OBVIOUS
<1>12. ASSUME NEW t \in Types
       PROVE  /\ \A m \in library : m.id = t => after[t] = m
              /\ (~\E m \in library : m.id = t) => after[t] = Installed[t]
  <2>1. after[t] = IF t \notin HandCoded /\ \E m \in library : m.id = t
                   THEN CHOOSE m \in library : m.id = t ELSE Installed[t]
    BY <1>11 DEF Restored
  <2>2. CASE \E m \in library : m.id = t
    <3>1. PICK m \in library : m.id = t
      BY <2>2
    <3>2. t \notin HandCoded
      BY <3>1 DEF Shareable
    <3>3. (CHOOSE o \in library : o.id = t) \in library /\ (CHOOSE o \in library : o.id = t).id = t
      BY <3>1
    <3>4. after[t] = m
      BY <2>1, <2>2, <3>1, <3>2, <3>3
    <3> QED
      BY <3>1, <3>4
  <2>3. CASE ~\E m \in library : m.id = t
    BY <2>1, <2>3
  <2> QED
    BY <2>2, <2>3
<1>13. after \in Parts
  <2>1. \A t \in Types : after[t] \in GoodParts \cup {NoManifest}
    <3>1. \A m \in library : m \in GoodParts
      BY DEF Shareable, ValidDrafts, GoodParts
    <3> QED
      BY <1>10, <1>12, <3>1 DEF Parts
  <2>2. after = [t \in Types |-> after[t]]
    BY <1>11 DEF Restored
  <2> QED
    BY <2>1, <2>2 DEF Parts
<1>14. ASSUME NEW t \in Types
       PROVE  /\ (\A i \in DOMAIN q : ~Due(q, t, i)) => Installed[t] = after[t]
              /\ \A i \in DOMAIN q :
                    Due(q, t, i) /\ (\A j \in DOMAIN q : j > i => ~Due(q, t, j)) => q[i].manifest = after[t]
  <2>1. ASSUME NEW m \in library, m.id = t
        PROVE  \E i \in DOMAIN q : Due(q, t, i)
    <3>1. PICK i \in DOMAIN q : q[i] = Asked(m)
      BY <1>8
    <3>2. Asked(m).call = "registerManifest" /\ Asked(m).manifest = m
      BY DEF Asked
    <3> QED
      BY <2>1, <3>1, <3>2 DEF Due
  <2>2. \A i \in DOMAIN q : Due(q, t, i) => q[i].manifest \in library /\ q[i].manifest.id = t
    BY <1>7, <1>9 DEF Due
  <2> QED
    BY <1>12, <2>1, <2>2
<1>15. ASSUME NEW i \in DOMAIN q, q[i].call # "registerManifest", NEW t \in q[i].types
       PROVE  Covered(q, Installed, FALSE, i, t)
  <2>0. i = 1 /\ q[i].call = "loadProject"
    BY <1>6, <1>7, <1>15
  <2>1. \A j \in DOMAIN q : ~(j < i)
    BY <1>6, <2>0
  <2> QED
    BY <2>0, <2>1 DEF Covered
<1>16. InStep(q, after, Installed)
  BY <1>14 DEF InStep
<1>17. AllCovered(q, Installed, FALSE)
  BY <1>15 DEF AllCovered
<1> QED
  BY <1>6, <1>10, <1>11, <1>13, <1>16, <1>17

LEMMA GoodIsSound ==
    GoodParts \subseteq SoundParts
<1>1. ASSUME NEW m \in GoodParts
      PROVE  m \in SoundParts
  <2>1. m \in Shipped \cup Drafts /\ Valid(m) /\ IsManifest(m)
    BY PartLibraryAssumption DEF GoodParts
  <2>2. StandsOnItsPins(m) /\ LegsReachTheHoles(m)
    BY <2>1, ValidStands, LegsReach
  <2> QED
    BY <2>1, <2>2 DEF SoundParts
<1> QED
  BY <1>1

LEMMA LibraryInitially ==
    LibraryInit => LibraryInv
<1> SUFFICES ASSUME LibraryInit
             PROVE  LibraryInv
  OBVIOUS
<1>1. Installed \in Parts
  <2>1. \A m \in Shipped : m \in GoodParts
    BY PartLibraryAssumption DEF GoodParts
  <2>2. ASSUME NEW t \in Types
        PROVE  Installed[t] \in GoodParts \cup {NoManifest}
    <3>1. CASE \E m \in Shipped : m.id = t
      <4>1. Installed[t] = CHOOSE m \in Shipped : m.id = t
        BY <3>1 DEF Installed
      <4> QED
        BY <2>1, <3>1, <4>1
    <3>2. CASE ~\E m \in Shipped : m.id = t
      BY <3>2 DEF Installed
    <3> QED
      BY <3>1, <3>2
  <2>3. Installed = [t \in Types |-> Installed[t]]
    BY DEF Installed
  <2> QED
    BY <2>2, <2>3 DEF Parts
<1>2. LibraryTypeOK
  <2>1. extraction \in [stage : {"idle", "asking", "ok", "refused", "thrown"}, attempt : Nat, retry : Nat,
                       found : ValidDrafts \cup {NoManifest}]
    BY DEF LibraryInit, NotAsked
  <2>2. registered \in [studio : Parts, worker : Parts]
    BY <1>1 DEF LibraryInit
  <2>3. IsFiniteSet(stored)
    BY FS_EmptySet DEF LibraryInit
  <2>4. told \in Seq(Calls)
    BY DEF LibraryInit
  <2>5. placed \in PlacedTypes
    BY DEF LibraryInit, PlacedTypes
  <2> QED
    BY <2>1, <2>2, <2>3, <2>4, <2>5 DEF LibraryTypeOK, LibraryInit
<1>3. BudgetInv
  BY DEF LibraryInit, NotAsked, BudgetInv
<1>4. UnderWayInv
  <2>1. DOMAIN told = {} /\ registered.worker = registered.studio
    BY DEF LibraryInit
  <2> QED
    BY <2>1 DEF UnderWayInv, InStep, AllCovered
<1>5. BoardInv
  BY DEF LibraryInit, BoardInv
<1> QED
  BY <1>2, <1>3, <1>4, <1>5 DEF LibraryInv

(* What an extraction and its dialog do stays in the service and the dialog.    *)
LEMMA AloofStep ==
    ASSUME LibraryInv, UNCHANGED <<partsVars, workerVars>>,
           extraction' \in [stage : {"idle", "asking", "ok", "refused", "thrown"}, attempt : Nat, retry : Nat,
                            found : ValidDrafts \cup {NoManifest}],
           preview' \in ValidDrafts \cup {NoManifest},
           BudgetInv'
    PROVE  LibraryInv'
<1> USE DEF partsVars, workerVars
<1>1. LibraryTypeOK'
  BY DEF LibraryInv, LibraryTypeOK
<1>2. UnderWayInv'
  BY DEF LibraryInv, UnderWayInv
<1>3. BoardInv'
  BY DEF LibraryInv, BoardInv
<1> QED
  BY <1>1, <1>2, <1>3 DEF LibraryInv

LEMMA OneMoreAnswer ==
    ASSUME NEW a \in Nat, NEW r \in Nat
    PROVE  (a + 1) * (r + 1) = a * (r + 1) + r + 1
  OBVIOUS

LEMMA ExtractionStep ==
    ASSUME LibraryInv, Ask \/ Transient \/ Rejected \/ Answered \/ Shown \/ EditDialog
    PROVE  LibraryInv'
<1> USE DEF LibraryInv, LibraryTypeOK
<1>0. /\ MaxAttempts \in Nat \ {0} /\ MaxRetries \in Nat
      /\ extraction.attempt \in Nat /\ extraction.retry \in Nat /\ extraction.found \in ValidDrafts \cup {NoManifest}
      /\ BudgetInv /\ answers \in Nat /\ calls \in Nat
  BY PartLibraryAssumption DEF BudgetInv
<1>1. CASE Ask
  <2>1. /\ extraction' = [NotAsked EXCEPT !.stage = "asking", !.attempt = 1]
        /\ answers' = 0 /\ calls' = 0 /\ preview' = NoManifest /\ UNCHANGED <<partsVars, workerVars>>
    BY <1>1 DEF Ask
  <2>2. extraction' = [stage |-> "asking", attempt |-> 1, retry |-> 0, found |-> NoManifest]
    BY <2>1 DEF NotAsked
  <2>3. answers' * (MaxRetries + 1) = 0
    <3>1. 0 * (MaxRetries + 1) = 0
      BY <1>0
    <3> QED
      BY <2>1, <3>1
  <2>4. BudgetInv'
    <3>1. extraction'.stage = "asking" /\ extraction'.attempt = 1 /\ extraction'.retry = 0
      BY <2>2
    <3>2. calls' <= answers' * (MaxRetries + 1) + extraction'.retry
      <4>1. PICK most : most = answers' * (MaxRetries + 1)
        OBVIOUS
      <4>2. 0 <= most + 0
        BY <2>3, <4>1
      <4> QED
        BY <2>1, <3>1, <4>1, <4>2
    <3> QED
      BY <1>0, <2>1, <3>1, <3>2 DEF BudgetInv
  <2> QED
    BY <2>1, <2>2, <2>4, AloofStep
<1>2. CASE Transient
  <2>1. /\ extraction.stage = "asking" /\ calls' = calls + 1 /\ answers' = answers /\ preview' = preview
        /\ UNCHANGED <<partsVars, workerVars>>
    BY <1>2 DEF Transient, dialogVars
  <2>2. CASE extraction.retry < MaxRetries
    <3>1. extraction' = [extraction EXCEPT !.retry = @ + 1]
      BY <1>2, <2>2 DEF Transient
    <3>2. /\ extraction'.stage = "asking" /\ extraction'.attempt = extraction.attempt
          /\ extraction'.retry = extraction.retry + 1
      BY <2>1, <3>1
    <3>3. PICK most \in Int : most = answers * (MaxRetries + 1)
      BY <1>0
    <3>4. BudgetInv'
      BY <1>0, <2>1, <2>2, <3>2, <3>3 DEF BudgetInv
    <3> QED
      BY <2>1, <3>1, <3>4, AloofStep
  <2>3. CASE ~(extraction.retry < MaxRetries)
    <3>1. extraction' = [extraction EXCEPT !.stage = "thrown"]
      BY <1>2, <2>3 DEF Transient
    <3>2. BudgetInv'
      BY <1>0, <2>1, <3>1 DEF BudgetInv
    <3> QED
      BY <2>1, <3>1, <3>2, AloofStep
  <2> QED
    BY <2>2, <2>3
<1>3. CASE Rejected
  <2>1. /\ extraction' = [extraction EXCEPT !.stage = "thrown"] /\ calls' = calls + 1 /\ answers' = answers
        /\ preview' = preview /\ UNCHANGED <<partsVars, workerVars>>
    BY <1>3 DEF Rejected, dialogVars
  <2>2. BudgetInv'
    BY <1>0, <2>1 DEF BudgetInv
  <2> QED
    BY <2>1, <2>2, AloofStep
<1>4. CASE Answered
  <2>1. /\ extraction.stage = "asking" /\ calls' = calls + 1 /\ answers' = answers + 1 /\ preview' = preview
        /\ UNCHANGED <<partsVars, workerVars>>
    BY <1>4 DEF Answered, dialogVars
  <2>2. CASE extraction' = Repaired(extraction) /\ extraction.attempt < MaxAttempts
    <3>1. extraction' = [extraction EXCEPT !.attempt = @ + 1, !.retry = 0]
      BY <2>2 DEF Repaired
    <3>2. extraction'.stage = "asking" /\ extraction'.attempt = extraction.attempt + 1 /\ extraction'.retry = 0
      BY <2>1, <3>1
    <3>3. calls' <= answers' * (MaxRetries + 1) + 0
      <4>1. PICK most \in Int : most = answers * (MaxRetries + 1)
        BY <1>0
      <4>2. PICK more \in Int : more = (answers + 1) * (MaxRetries + 1)
        BY <1>0
      <4>3. more = most + MaxRetries + 1
        BY <1>0, <4>1, <4>2, OneMoreAnswer
      <4>4. calls <= most + extraction.retry /\ extraction.retry <= MaxRetries
        BY <1>0, <2>1, <4>1 DEF BudgetInv
      <4>5. calls + 1 <= more + 0
        BY <1>0, <4>3, <4>4
      <4> QED
        BY <2>1, <4>2, <4>5
    <3>4. extraction.attempt = answers + 1
      BY <1>0, <2>1 DEF BudgetInv
    <3>5. BudgetInv'
      BY <1>0, <2>1, <2>2, <3>2, <3>3, <3>4 DEF BudgetInv
    <3>6. extraction' \in [stage : {"idle", "asking", "ok", "refused", "thrown"}, attempt : Nat, retry : Nat,
                           found : ValidDrafts \cup {NoManifest}]
      <4>1. extraction.attempt + 1 \in Nat
        BY <1>0
      <4>2. extraction' = [stage |-> extraction.stage, attempt |-> extraction.attempt + 1, retry |-> 0,
                           found |-> extraction.found]
        BY <3>1
      <4> QED
        BY <1>0, <4>1, <4>2
    <3> QED
      BY <2>1, <3>5, <3>6, AloofStep
  <2>3. CASE extraction' = Repaired(extraction) /\ ~(extraction.attempt < MaxAttempts)
    <3>1. extraction' = [extraction EXCEPT !.stage = "refused"]
      BY <2>3 DEF Repaired
    <3>2. answers' = MaxAttempts
      BY <1>0, <2>1, <2>3 DEF BudgetInv
    <3>3. BudgetInv'
      BY <1>0, <2>1, <3>1, <3>2 DEF BudgetInv
    <3> QED
      BY <2>1, <3>1, <3>3, AloofStep
  <2>4. CASE \E m \in ValidDrafts : extraction' = [extraction EXCEPT !.stage = "ok", !.found = m]
    <3>1. PICK m \in ValidDrafts : extraction' = [extraction EXCEPT !.stage = "ok", !.found = m]
      BY <2>4
    <3>2. BudgetInv'
      BY <1>0, <2>1, <3>1 DEF BudgetInv
    <3> QED
      BY <2>1, <3>1, <3>2, AloofStep
  <2> QED
    BY <1>4, <2>2, <2>3, <2>4 DEF Answered
<1>5. CASE Shown
  <2>1. /\ extraction' = NotAsked /\ answers' = 0 /\ calls' = 0 /\ preview' \in {preview, extraction.found}
        /\ UNCHANGED <<partsVars, workerVars>>
    BY <1>5 DEF Shown
  <2>2. BudgetInv'
    BY <2>1 DEF BudgetInv, NotAsked
  <2> QED
    BY <1>0, <2>1, <2>2, AloofStep DEF NotAsked
<1>6. CASE EditDialog
  <2>1. /\ extraction' = extraction /\ answers' = answers /\ calls' = calls /\ preview' = NoManifest
        /\ UNCHANGED <<partsVars, workerVars>>
    BY <1>6 DEF EditDialog, costs
  <2>2. BudgetInv'
    BY <1>0, <2>1 DEF BudgetInv
  <2> QED
    BY <2>1, <2>2, AloofStep
<1> QED
  BY <1>1, <1>2, <1>3, <1>4, <1>5, <1>6

LEMMA CircuitStep ==
    ASSUME LibraryInv, NEW call \in {"load", "loadProject"}, placed' \in PlacedTypes,
           told' = Append(told, Loading(call)),
           UNCHANGED <<extraction, dialogVars, registered, stored, workerVars, answers, calls>>
    PROVE  LibraryInv'
<1> USE DEF LibraryInv, LibraryTypeOK, dialogVars, workerVars
<1>1. PICK c : c = Loading(call)
  OBVIOUS
<1>2. /\ c.call = call /\ c.types = placed' /\ c.foreign = Strangers(registered.studio, placed')
      /\ c \in Loads
  <2>1. c = [call |-> call, types |-> placed', foreign |-> Strangers(registered.studio, placed')]
    BY <1>1 DEF Loading
  <2>2. Strangers(registered.studio, placed') \subseteq Types
    BY DEF Strangers, PlacedTypes
  <2> QED
    BY <2>1, <2>2 DEF Loads
<1>3. PICK studio \in Parts : studio = registered.studio
  OBVIOUS
<1>4. PICK worker \in Parts : worker = registered.worker
  OBVIOUS
<1>5. PICK q \in Seq(Calls) : q = told
  OBVIOUS
<1>6. InStep(q, studio, worker) /\ AllCovered(q, worker, firmware) /\ c.foreign = Strangers(studio, c.types)
  BY <1>2, <1>3, <1>4, <1>5 DEF UnderWayInv
<1>7. InStep(Append(q, c), studio, worker) /\ AllCovered(Append(q, c), worker, firmware)
  BY <1>2, <1>6, CircuitSent
<1>8. told' = Append(q, c)
  BY <1>1, <1>5
<1>9. UnderWayInv'
  BY <1>3, <1>4, <1>7, <1>8 DEF UnderWayInv
<1>10. told' \in Seq(Calls)
  BY <1>2, <1>5, <1>8, Appended DEF Calls
<1>11. LibraryTypeOK'
  BY <1>10
<1>12. BudgetInv' /\ BoardInv'
  BY DEF BudgetInv, BoardInv
<1> QED
  BY <1>9, <1>11, <1>12

LEMMA SendingStep ==
    ASSUME LibraryInv, PlacePart \/ OpenProject \/ FlashFirmware
    PROVE  LibraryInv'
<1>0. placed \in PlacedTypes
  BY DEF LibraryInv, LibraryTypeOK
<1>1. CASE PlacePart
  <2>1. placed' \in PlacedTypes
    BY <1>0, <1>1 DEF PlacePart, PlacedTypes
  <2>2. told' = Append(told, Loading("loadProject"))
    BY <1>1 DEF PlacePart
  <2>3. UNCHANGED <<extraction, dialogVars, registered, stored, workerVars, answers, calls>>
    BY <1>1 DEF PlacePart, costs
  <2> QED
    BY <2>1, <2>2, <2>3, CircuitStep
<1>2. CASE OpenProject
  <2>1. placed' \in PlacedTypes
    BY <1>2 DEF OpenProject, PlacedTypes
  <2>2. told' = Append(told, Loading("loadProject"))
    BY <1>2 DEF OpenProject
  <2>3. UNCHANGED <<extraction, dialogVars, registered, stored, workerVars, answers, calls>>
    BY <1>2 DEF OpenProject, costs
  <2> QED
    BY <2>1, <2>2, <2>3, CircuitStep
<1>3. CASE FlashFirmware
  <2>1. placed' \in PlacedTypes
    BY <1>0, <1>3 DEF FlashFirmware
  <2>2. told' = Append(told, Loading("load"))
    BY <1>3 DEF FlashFirmware
  <2>3. UNCHANGED <<extraction, dialogVars, registered, stored, workerVars, answers, calls>>
    BY <1>3 DEF FlashFirmware, costs
  <2> QED
    BY <2>1, <2>2, <2>3, CircuitStep
<1> QED
  BY <1>1, <1>2, <1>3

LEMMA AddManifestStep ==
    ASSUME LibraryInv, AddManifest
    PROVE  LibraryInv'
<1> USE DEF LibraryInv, LibraryTypeOK, workerVars
<1>0. /\ preview \in ValidDrafts
      /\ UNCHANGED <<extraction, busy, preview, placed, reloads, workerVars, answers, calls>>
  BY DEF AddManifest, costs
<1>1. BudgetInv' /\ BoardInv'
  BY <1>0 DEF BudgetInv, BoardInv
<1>2. CASE preview.id \in HandCoded
  <2>1. UNCHANGED <<registered, stored, told>>
    BY <1>2 DEF AddManifest
  <2>2. LibraryTypeOK' /\ UnderWayInv'
    BY <1>0, <2>1 DEF UnderWayInv
  <2> QED
    BY <1>1, <2>2
<1>3. CASE preview.id \notin HandCoded
  <2>1. PICK m \in Shareable : m = preview
    BY <1>0, <1>3 DEF Shareable
  <2>2. PICK c : c = [call |-> "registerManifest", manifest |-> m]
    OBVIOUS
  <2>3. PICK studio \in Parts : studio = registered.studio
    OBVIOUS
  <2>4. PICK worker \in Parts : worker = registered.worker
    OBVIOUS
  <2>5. PICK q \in Seq(Calls) : q = told
    OBVIOUS
  <2>6. /\ registered' = [registered EXCEPT !.studio = Registering(studio, m)]
        /\ told' = Append(q, c)
        /\ stored' = {o \in stored : o.id # m.id} \cup {m} \/ stored' = stored
    BY <1>3, <2>1, <2>2, <2>3, <2>5 DEF AddManifest
  <2>7. /\ c \in Calls /\ Registering(studio, m) \in Parts
        /\ InStep(Append(q, c), Registering(studio, m), worker)
        /\ AllCovered(Append(q, c), worker, firmware)
    <3>1. InStep(q, studio, worker) /\ AllCovered(q, worker, firmware)
      BY <2>3, <2>4, <2>5 DEF UnderWayInv
    <3> QED
      BY <2>2, <3>1, RegistrationSent
  <2>8. /\ registered' \in [studio : Parts, worker : Parts]
        /\ registered'.studio = Registering(studio, m) /\ registered'.worker = worker
    BY <2>4, <2>6, <2>7
  <2>9. UnderWayInv'
    BY <1>0, <2>6, <2>7, <2>8 DEF UnderWayInv
  <2>10. told' \in Seq(Calls)
    BY <2>6, <2>7, Appended
  <2>11. stored' \subseteq Shareable /\ IsFiniteSet(stored') /\ \A o, p \in stored' : o.id = p.id => o = p
    <3>1. CASE stored' = stored
      BY <3>1
    <3>2. CASE stored' = {o \in stored : o.id # m.id} \cup {m}
      <4>1. IsFiniteSet({o \in stored : o.id # m.id})
        BY FS_Subset
      <4>2. IsFiniteSet(stored')
        BY <3>2, <4>1, FS_AddElement
      <4> QED
        BY <3>2, <4>2
    <3> QED
      BY <2>6, <3>1, <3>2
  <2>12. LibraryTypeOK'
    BY <1>0, <2>8, <2>10, <2>11
  <2> QED
    BY <1>1, <2>9, <2>12
<1> QED
  BY <1>2, <1>3

LEMMA ReloadStep ==
    ASSUME LibraryInv, Reload
    PROVE  LibraryInv'
<1> USE DEF LibraryInv, LibraryTypeOK
<1>1. /\ extraction' = NotAsked /\ preview' = NoManifest /\ answers' = 0 /\ calls' = 0
      /\ UNCHANGED <<stored, placed>> /\ firmware' = FALSE /\ onBoard' = {} /\ unknown' = {} /\ foreign' = {}
      /\ registered' = [studio |-> Restored(Installed, stored), worker |-> Installed]
      /\ told' = <<Loading("loadProject")>>
                 \o SetToSeq({[call |-> "registerManifest", manifest |-> m] : m \in stored})
  BY DEF Reload
<1>2. PICK c : c = Loading("loadProject")
  OBVIOUS
<1>3. c \in Loads /\ c.call = "loadProject"
  <2>1. c = [call |-> "loadProject", types |-> placed, foreign |-> Strangers(registered'.studio, placed)]
    BY <1>1, <1>2 DEF Loading
  <2>2. Strangers(registered'.studio, placed) \subseteq Types
    BY DEF Strangers, PlacedTypes
  <2> QED
    BY <2>1, <2>2 DEF Loads
<1>4. PICK q : q = <<c>> \o SetToSeq({[call |-> "registerManifest", manifest |-> m] : m \in stored})
  OBVIOUS
<1>5. told' = q
  BY <1>1, <1>2, <1>4
<1>6. /\ q \in Seq(Calls) /\ Installed \in Parts /\ Restored(Installed, stored) \in Parts
      /\ InStep(q, Restored(Installed, stored), Installed)
      /\ AllCovered(q, Installed, FALSE)
  BY <1>3, <1>4, Restarted
<1>7. UnderWayInv'
  BY <1>1, <1>5, <1>6 DEF UnderWayInv
<1>8. registered' \in [studio : Parts, worker : Parts]
  BY <1>1, <1>6
<1>9. extraction' \in [stage : {"idle", "asking", "ok", "refused", "thrown"}, attempt : Nat, retry : Nat,
                       found : ValidDrafts \cup {NoManifest}]
  BY <1>1 DEF NotAsked
<1>10. LibraryTypeOK'
  BY <1>1, <1>5, <1>6, <1>8, <1>9
<1>11. BudgetInv'
  BY <1>1 DEF BudgetInv, NotAsked
<1>12. BoardInv'
  BY <1>1 DEF BoardInv
<1> QED
  BY <1>7, <1>10, <1>11, <1>12

LEMMA TakeStep ==
    ASSUME LibraryInv, Take
    PROVE  LibraryInv'
<1> USE DEF LibraryInv, LibraryTypeOK
<1>0. /\ told # <<>> /\ told' = Tail(told)
      /\ UNCHANGED <<extraction, busy, preview, failed, stored, placed, reloads, answers, calls, asks>>
  BY DEF Take, dialogVars, costs
<1>1. PICK q \in Seq(Calls) : q = told
  OBVIOUS
<1>2. PICK next : next = Head(told)
  OBVIOUS
<1>3. next = q[1] /\ next \in Calls /\ q # <<>> /\ told' \in Seq(Calls) /\ told' = Tail(q)
  BY <1>0, <1>1, <1>2, TailsOfCalls
<1>4. PICK studio \in Parts : studio = registered.studio
  OBVIOUS
<1>5. PICK worker \in Parts : worker = registered.worker
  OBVIOUS
<1>6. InStep(q, studio, worker) /\ AllCovered(q, worker, firmware)
  BY <1>1, <1>4, <1>5 DEF UnderWayInv
<1>7. BudgetInv'
  BY <1>0 DEF BudgetInv
<1>8. CASE next.call = "registerManifest"
  <2>1. PICK m : m = next.manifest
    OBVIOUS
  <2>2. /\ registered' = [registered EXCEPT !.worker = Registering(worker, m)]
        /\ UNCHANGED <<firmware, onBoard, unknown, foreign>>
    BY <1>2, <1>5, <1>8, <2>1 DEF Take, workerVars
  <2>3. /\ Registering(worker, m) \in Parts
        /\ InStep(Tail(q), studio, Registering(worker, m))
        /\ AllCovered(Tail(q), Registering(worker, m), firmware)
    BY <1>3, <1>6, <1>8, <2>1, RegistrationTaken
  <2>4. /\ registered' \in [studio : Parts, worker : Parts]
        /\ registered'.studio = studio /\ registered'.worker = Registering(worker, m)
    BY <1>4, <2>2, <2>3
  <2>5. UnderWayInv'
    BY <1>3, <2>2, <2>3, <2>4 DEF UnderWayInv
  <2>6. LibraryTypeOK'
    BY <1>0, <1>3, <2>2, <2>4
  <2>7. BoardInv'
    BY <2>2 DEF BoardInv
  <2> QED
    BY <1>7, <2>5, <2>6, <2>7
<1>9. CASE next.call # "registerManifest"
  <2>1. /\ firmware' = (firmware \/ next.call = "load") /\ registered' = registered
        /\ firmware' =>
              /\ onBoard' = {worker[t] : t \in {t \in next.types \ HandCoded : KnownType(worker, t)}}
              /\ unknown' = Strangers(worker, next.types) /\ foreign' = next.foreign
        /\ ~firmware' => UNCHANGED <<onBoard, unknown, foreign>>
    BY <1>2, <1>5, <1>9 DEF Take
  <2>2. firmware' \in BOOLEAN
    BY <2>1
  <2>3. /\ InStep(Tail(q), studio, worker)
        /\ AllCovered(Tail(q), worker, firmware')
        /\ firmware' => Strangers(worker, q[1].types) \subseteq q[1].foreign
    <3>1. PICK hex \in BOOLEAN : hex = firmware
      OBVIOUS
    <3>2. PICK after \in BOOLEAN : after = firmware'
      BY <2>2
    <3>3. after = (hex \/ q[1].call = "load")
      BY <1>3, <2>1, <3>1, <3>2
    <3>4. /\ InStep(Tail(q), studio, worker)
          /\ AllCovered(Tail(q), worker, after)
          /\ after => Strangers(worker, q[1].types) \subseteq q[1].foreign
      BY <1>3, <1>6, <1>9, <3>1, <3>3, CircuitTaken
    <3> QED
      BY <3>2, <3>4
  <2>4. UnderWayInv'
    BY <1>3, <1>4, <1>5, <2>1, <2>3 DEF UnderWayInv
  <2>5. LibraryTypeOK'
    BY <1>0, <1>3, <2>1, <2>2
  <2>6. BoardInv'
    <3>1. CASE ~firmware'
      BY <2>1, <3>1 DEF BoardInv
    <3>2. CASE firmware'
      <4>1. unknown' \subseteq foreign'
        BY <1>3, <2>1, <2>3, <3>2
      <4>2. ASSUME NEW t \in next.types \ HandCoded, KnownType(worker, t)
            PROVE  worker[t] \in SoundParts
        <5>1. t \in Types
          BY <1>3, <1>9 DEF Calls, Registrations, Loads, PlacedTypes
        <5>2. worker[t] \in GoodParts
          BY <4>2, <5>1 DEF Parts, KnownType
        <5> QED
          BY <5>2, GoodIsSound
      <4>3. onBoard' \subseteq SoundParts
        BY <2>1, <3>2, <4>2
      <4> QED
        BY <4>1, <4>3 DEF BoardInv
    <3> QED
      BY <3>1, <3>2
  <2> QED
    BY <1>7, <2>4, <2>5, <2>6
<1> QED
  BY <1>8, <1>9

LEMMA LibraryStep ==
    LibraryInv /\ [LibraryNext]_libraryVars => LibraryInv'
<1> SUFFICES ASSUME LibraryInv, [LibraryNext]_libraryVars
             PROVE  LibraryInv'
  OBVIOUS
<1>1. CASE UNCHANGED libraryVars
  BY <1>1 DEF libraryVars, LibraryInv, LibraryTypeOK, BudgetInv, UnderWayInv, BoardInv
<1>2. CASE LibraryNext
  BY <1>2, ExtractionStep, SendingStep, AddManifestStep, ReloadStep, TakeStep DEF LibraryNext
<1> QED
  BY <1>1, <1>2

(* What the board is built of came through the validator, so that it stands on *)
(* its own pins and reaches the holes; the worker calls nothing unknown that   *)
(* the canvas knew when it sent the circuit, and once it has caught up knows   *)
(* what the studio does, also after a reload; and the answers and the retries   *)
(* of an extraction are budgeted apart: for any drafts a model may come up     *)
(* with, any catalogue, any budgets and any number of calls under way          *)
(* (extract.ts, library.ts, registry.ts, worker.ts, build.ts).                 *)
THEOREM LibraryStaysSound == LibrarySpec => []LibraryIsSound
<1>1. LibraryInv => LibraryIsSound
  <2> SUFFICES ASSUME LibraryInv
               PROVE  LibraryIsSound
    OBVIOUS
  <2>1. ASSUME told = <<>>
        PROVE  registered.worker = registered.studio
    <3>1. DOMAIN told = {}
      BY <2>1
    <3>2. \A t \in Types : registered.worker[t] = registered.studio[t]
      BY <3>1 DEF LibraryInv, UnderWayInv, InStep
    <3>3. registered.worker \in Parts /\ registered.studio \in Parts
      BY DEF LibraryInv, LibraryTypeOK
    <3> QED
      BY <3>2, <3>3 DEF Parts
  <2>2. PartsAreSound
    BY <2>1 DEF LibraryInv, BoardInv, PartsAreSound
  <2>3. BudgetsAreSeparate
    <3>1. ASSUME extraction.stage = "asking"
          PROVE  answers < MaxAttempts /\ calls <= answers * (MaxRetries + 1) + MaxRetries
      <4>1. answers \in Nat /\ calls \in Nat /\ extraction.retry \in Nat /\ MaxRetries \in Nat /\ MaxAttempts \in Nat
        BY PartLibraryAssumption DEF LibraryInv, LibraryTypeOK, BudgetInv
      <4>2. PICK most \in Int : most = answers * (MaxRetries + 1)
        BY <4>1
      <4>3. /\ answers + 1 <= MaxAttempts /\ extraction.retry <= MaxRetries
            /\ calls <= most + extraction.retry
        BY <3>1, <4>2 DEF LibraryInv, BudgetInv
      <4>4. calls <= most + MaxRetries
        BY <4>1, <4>2, <4>3
      <4>5. answers < MaxAttempts
        BY <4>1, <4>3
      <4> QED
        BY <4>2, <4>4, <4>5
    <3> QED
      BY <3>1 DEF LibraryInv, BudgetInv, BudgetsAreSeparate
  <2> QED
    BY <2>2, <2>3 DEF LibraryIsSound
<1> QED
  BY <1>1, LibraryInitially, LibraryStep, PTL DEF LibrarySpec

-------------------------------------------------------------------------------
(* What the page lets in from outside is vetted: a program is the file that    *)
(* the compiler sent, a part that is built passed the validator, and neither is *)
(* taken in half (hex.ts, library.ts, manifest-validate.ts).                   *)
THEOREM InputsStayVetted == LibrarySpec /\ HexSpec => []InputsAreVetted
<1>1. LibraryIsSound /\ ImageIsAsWritten => InputsAreVetted
  BY DEF InputsAreVetted
<1> QED
  BY <1>1, LibraryStaysSound, ProgramsAreLoadedWhole, PTL
===============================================================================
