----------------------------- MODULE CanvasGestures ----------------------------
(* The pointer and the keys on the canvas (apps/studio/src/canvas/             *)
(* Workspace.tsx): clicks, rubber bands, drags of a part, of a group and of    *)
(* the canvas itself, each of several events between which others come.  What  *)
(* they do to the document is Editor's; here it is which parts are selected,   *)
(* which move, and what the next event finds.  Events arrive as Konva sends    *)
(* them: a release over what was pressed, or over the empty stage, is followed *)
(* by a click there, unless something was dragged.                             *)
EXTENDS Naturals, FiniteSets

CONSTANTS
    Bodies,     \* the parts that may be on the canvas
    Leads       \* terminals

ASSUME GesturesAssumption ==
    /\ Bodies \cap Leads = {}
    /\ {"stage", "none", "select", "place"} \cap (Bodies \cup Leads) = {}

VARIABLES
    onCanvas,           \* the parts there are
    picked,             \* selectedIds
    mode,               \* "select", "place", or the lead a wire starts from
    marquee,            \* "none", or a band: "wobble" while it is smaller than a hole
    bandJustEnded, panning,
    groupDrag,          \* the part whose drag the others are drawn following
    pressed,            \* where the button went down, "none" when it is up
    dragged,            \* what Konva drags
    click,              \* the click that is about to follow
    swept               \* what the last band caught, until the user does something else

gestureVars == <<onCanvas, picked, mode, marquee, bandJustEnded, panning, groupDrag, pressed, dragged, click, swept>>
pointer == <<pressed, dragged, click>>
drawn   == <<onCanvas, mode, panning>>

EmptyStage == "stage"
Unswept    == {"nothing"}

GesturesInit ==
    /\ onCanvas = Bodies /\ picked = {} /\ mode = "select"
    /\ marquee = "none" /\ bandJustEnded = FALSE /\ panning = FALSE /\ groupDrag = "none"
    /\ pressed = "none" /\ dragged = "none" /\ click = "none"
    /\ swept = Unswept

Ready == click = "none"         \* the events of one release are handled together
-------------------------------------------------------------------------------
(* The button goes down: on the stage it begins a band, if the pointer is for  *)
(* selecting.                                                                  *)
ButtonDown(where) ==
    /\ Ready /\ pressed = "none" /\ pressed' = where
    /\ marquee' = IF where = EmptyStage /\ ~panning /\ mode = "select" THEN "wobble" ELSE marquee
    /\ swept' = Unswept
    /\ UNCHANGED <<drawn, picked, bandJustEnded, groupDrag, dragged, click>>

(* The pointer moves with it down: a band grows, or shrinks; a part begins to  *)
(* be dragged, and is selected if it was not; the stage is, with Space.        *)
Stretch ==
    /\ Ready /\ marquee # "none" /\ marquee' \in {"wobble", "band"}
    /\ UNCHANGED <<drawn, picked, bandJustEnded, groupDrag, pointer, swept>>
DragStart(p) ==
    /\ Ready /\ pressed = p /\ dragged = "none" /\ p \in onCanvas
    /\ dragged' = p
    /\ picked' = IF p \in picked THEN picked ELSE {p}
    /\ UNCHANGED <<drawn, marquee, bandJustEnded, groupDrag, pressed, click, swept>>
PanStart ==
    /\ Ready /\ pressed = EmptyStage /\ dragged = "none" /\ panning /\ marquee = "none"
    /\ dragged' = EmptyStage
    /\ UNCHANGED <<drawn, picked, marquee, bandJustEnded, groupDrag, pressed, click, swept>>
DragMove ==
    /\ Ready /\ dragged \in picked /\ Cardinality(picked) >= 2
    /\ groupDrag' = dragged
    /\ UNCHANGED <<drawn, picked, marquee, bandJustEnded, pointer, swept>>

(* handleStageMouseUp, over whatever the release is, and when the pointer      *)
(* leaves: a band that is large enough selects all it touches, or adds it.     *)
(* Mutant: the band does not tell the click that follows.                      *)
ResolveBandSilently(caught, additive) ==
    /\ marquee' = "none"
    /\ IF marquee = "band"
       THEN /\ picked' = IF additive THEN picked \cup caught ELSE caught
            /\ swept' = picked'
       ELSE UNCHANGED <<picked, swept>>
    /\ UNCHANGED bandJustEnded

ResolveBand(caught, additive) ==
    /\ marquee' = "none"
    /\ IF marquee = "band"
       THEN /\ picked' = IF additive THEN picked \cup caught ELSE caught
            /\ swept' = picked'
            /\ bandJustEnded' = TRUE
       ELSE UNCHANGED <<picked, swept, bandJustEnded>>

(* The button comes up over something, or outside.                             *)
ButtonUp(over) ==
    /\ Ready /\ pressed # "none" /\ pressed' = "none"
    /\ \E caught \in SUBSET onCanvas, additive \in BOOLEAN : ResolveBand(caught, additive)
    /\ dragged' = "none"
    /\ click' = IF dragged = "none" /\ over \in {pressed, EmptyStage} THEN over ELSE "none"
    /\ groupDrag' = IF dragged \in Bodies THEN "none" ELSE groupDrag
    /\ UNCHANGED <<onCanvas, mode, panning>>
ButtonUpOutside ==
    /\ Ready /\ pressed # "none" /\ marquee = "none" /\ pressed' = "none" /\ dragged' = "none"
    /\ groupDrag' = IF dragged \in Bodies THEN "none" ELSE groupDrag
    /\ UNCHANGED <<onCanvas, picked, mode, marquee, bandJustEnded, panning, click, swept>>
Leave ==
    /\ Ready /\ marquee # "none"
    /\ \E caught \in SUBSET onCanvas, additive \in BOOLEAN : ResolveBand(caught, additive)
    /\ UNCHANGED <<drawn, groupDrag, pointer>>
-------------------------------------------------------------------------------
(* The click: on the stage it ends a wire, places a part, or clears the        *)
(* selection unless a band has just made it.                                   *)
ClickStage ==
    /\ click = EmptyStage /\ click' = "none"
    /\ IF mode # "select"
       THEN /\ mode' = "select"
            /\ IF mode = "place"
               THEN \E p \in Bodies : onCanvas' = onCanvas \cup {p}
               ELSE UNCHANGED onCanvas
            /\ UNCHANGED <<picked, bandJustEnded, swept>>
       ELSE /\ IF bandJustEnded THEN bandJustEnded' = FALSE /\ UNCHANGED <<picked, swept>>
               ELSE picked' = {} /\ UNCHANGED <<bandJustEnded, swept>>
            /\ UNCHANGED <<mode, onCanvas>>
    /\ UNCHANGED <<marquee, panning, groupDrag, pressed, dragged>>

ClickPart(p) ==
    /\ click = p /\ click' = "none"
    /\ picked' \in {{p}, IF p \in picked THEN picked \ {p} ELSE picked \cup {p}}
    /\ UNCHANGED <<drawn, marquee, bandJustEnded, groupDrag, pressed, dragged, swept>>

ClickLead(l) ==
    /\ click = l /\ click' = "none"
    /\ mode' = IF mode \in Leads THEN "select" ELSE l
    /\ UNCHANGED <<onCanvas, picked, marquee, bandJustEnded, panning, groupDrag, pressed, dragged, swept>>

(* A right click keeps a selection it is inside of.                            *)
ContextMenu(p) ==
    /\ Ready /\ p \in onCanvas
    /\ picked' = IF p \in picked THEN picked ELSE {p}
    /\ swept' = Unswept
    /\ UNCHANGED <<drawn, marquee, bandJustEnded, groupDrag, pointer>>

(* Another panel: a part is picked up to be placed.                            *)
PickUpPart ==
    /\ Ready /\ pressed = "none" /\ mode' = "place" /\ swept' = Unswept
    /\ UNCHANGED <<onCanvas, picked, marquee, bandJustEnded, panning, groupDrag, pointer>>
-------------------------------------------------------------------------------
(* Keys, with no text field focused, whatever the pointer is doing.            *)
Escape ==
    /\ Ready
    /\ IF mode # "select" THEN mode' = "select" /\ UNCHANGED picked
       ELSE picked' = {} /\ UNCHANGED mode
    /\ marquee' = "none" /\ swept' = Unswept
    /\ UNCHANGED <<onCanvas, bandJustEnded, panning, groupDrag, pointer>>

(* What is dragged while it is removed is let go of, and its handler finds it  *)
(* gone.                                                                       *)
Delete ==
    /\ Ready /\ picked # {}
    /\ onCanvas' = onCanvas \ picked /\ picked' = {} /\ swept' = Unswept
    /\ IF dragged \in picked THEN dragged' = "none" /\ groupDrag' = "none" ELSE UNCHANGED <<dragged, groupDrag>>
    /\ UNCHANGED <<mode, marquee, bandJustEnded, panning, pressed, click>>

SpaceDown ==
    /\ Ready /\ panning' = TRUE
    /\ UNCHANGED <<onCanvas, picked, mode, marquee, bandJustEnded, groupDrag, pointer, swept>>
SpaceUp ==      \* or the window loses the focus: the stage can no longer be dragged
    /\ Ready /\ panning' = FALSE
    /\ dragged' = IF dragged = EmptyStage THEN "none" ELSE dragged
    /\ UNCHANGED <<onCanvas, picked, mode, marquee, bandJustEnded, groupDrag, pressed, click, swept>>

GesturesNext ==
    \/ \E where \in onCanvas \cup Leads \cup {EmptyStage} : ButtonDown(where) \/ ButtonUp(where)
    \/ \E p \in Bodies : DragStart(p) \/ ClickPart(p) \/ ContextMenu(p)
    \/ \E l \in Leads : ClickLead(l)
    \/ Stretch \/ PanStart \/ DragMove \/ ButtonUpOutside \/ Leave \/ ClickStage \/ PickUpPart
    \/ Escape \/ Delete \/ SpaceDown \/ SpaceUp

GesturesSpec == GesturesInit /\ [][GesturesNext]_gestureVars
-------------------------------------------------------------------------------
(* What a band selected stays selected: the click that ends the same gesture   *)
(* does not take it away.                                                      *)
BandIsKept == swept # Unswept => picked = swept

(* A band is drawn only while the button that began it on the empty stage is   *)
(* held, and nothing is dragged at the same time.                              *)
BandIsHeld == marquee # "none" => pressed = EmptyStage /\ dragged = "none"

(* The canvas moves only with Space held.                                      *)
PansWithSpace == dragged = EmptyStage => panning

(* Parts are drawn following another only while that one is dragged, and only  *)
(* parts that are there are selected or dragged.                               *)
FollowsTheHand ==
    /\ groupDrag # "none" => dragged = groupDrag
    /\ picked \subseteq onCanvas /\ dragged \in onCanvas \cup {"none", EmptyStage}

PointerIsObeyed == BandIsKept /\ BandIsHeld /\ PansWithSpace /\ FollowsTheHand
===============================================================================
