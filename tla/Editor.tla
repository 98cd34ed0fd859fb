-------------------------------- MODULE Editor --------------------------------
(* The studio's document (apps/studio/src/store.ts): the project, its undo    *)
(* stack, the canvas gestures and panels that edit it, and the plans the      *)
(* assistant proposes and carries out step by step (agent/plan.ts,            *)
(* agent/run.ts, panels/Assistant.tsx).                                       *)
(*                                                                            *)
(* A part is its id; a wire is the set of the one or two parts it touches; a  *)
(* sketch is a version of its text, and everything about where parts are and  *)
(* how they are set is one version `look'. Wire ids, and the numbers they     *)
(* take from the counter, are left out.                                       *)
EXTENDS Integers, SequencesExt, FiniteSetsExt

CONSTANTS
    MaxId,          \* the ids that may be handed out
    HistoryLimit,   \* HISTORY_LIMIT (store.ts)
    MaxEdits,       \* bound: how many changes are made
    MaxDocs,        \* bound: how many documents are opened
    Plans           \* the plans the assistant may answer with

Ids == 1 .. MaxId

(* Every id a part can have: those that are handed out, and those that the    *)
(* second part of such an id is given when its document is read.              *)
Numbers == 1 .. 2 * MaxId

(* What a plan is made of (agent/types.ts).                                   *)
Actions ==
    [kind : {"addPart", "removePart", "setProp"}, id : Ids]
        \cup [kind : {"addWire"}, id : Ids, wire : SUBSET Ids]
        \cup [kind : {"removeWire"}, wire : SUBSET Ids] \cup [kind : {"setSketch"}]

ASSUME EditorAssumption ==
    /\ MaxId \in Nat \ {0}
    /\ HistoryLimit \in Nat \ {0}
    /\ MaxEdits \in Nat /\ MaxDocs \in Nat
    /\ Plans \subseteq Seq(Actions)

VARIABLES
    work,       \* [past, project, future] of the store
    selected,   \* selectedIds
    mode,       \* what a click on the canvas means
    counter,    \* the counter behind nextId
    link,       \* cloudProjectId: the account's project this one is, or 0
    plan,       \* the assistant's plan: its phase, what it was checked against
    edits, docs,  \* how many changes and documents there have been
    strayed     \* a click or a plan step acted on a document it was not meant for

editorVars == <<work, selected, mode, counter, link, plan, edits, docs, strayed>>

(* A document as a file, the library or the account holds it.                 *)
EmptyProject(d) ==
    [doc |-> d, parts |-> {}, twins |-> {}, wires |-> {}, text |-> 0, look |-> 0]

LibraryProject(d) == [EmptyProject(d) EXCEPT !.parts = {1, 2}, !.wires = {{1, 2}}]

(* parseProject: every id is claimed once, and the second part of an id is    *)
(* renamed and left unconnected.                                              *)
UniqueIds(p) ==
    [p EXCEPT !.parts = @ \cup {i + MaxId : i \in p.twins}, !.twins = {}]

-------------------------------------------------------------------------------
(* The mutations of the document.                                             *)

(* A part placed under an id that is taken is a second part of that id.       *)
WithPart(p, i) ==
    [p EXCEPT !.parts = @ \cup {i}, !.twins = @ \cup ({i} \cap p.parts)]

WithoutParts(p, gone) ==
    [p EXCEPT !.parts = @ \ gone, !.twins = @ \ gone,
              !.wires = {w \in @ : w \cap gone = {}}]

WithWire(p, w) == [p EXCEPT !.wires = @ \cup {w}]
WithoutWire(p, w) == [p EXCEPT !.wires = @ \ {w}]
Rearranged(p) == [p EXCEPT !.look = 1 - @]
Typed(p) == [p EXCEPT !.text = 1 - @]

(* withHistory: the state that was is remembered up to the limit, and what    *)
(* had been undone is dropped.                                                *)
Newest(s) ==
    IF Len(s) > HistoryLimit THEN SubSeq(s, Len(s) - HistoryLimit + 1, Len(s)) ELSE s

Edited(h, p) ==
    [past |-> Newest(Append(h.past, h.project)), project |-> p, future |-> <<>>]

(* Several wires are cut in one gesture, each with an entry of its own.       *)
Unplugged(h, cut) ==
    LET order == SetToSeq(cut)
        after(n) == [h.project EXCEPT !.wires = @ \ {order[i] : i \in 1 .. n}]
    IN  [past |-> Newest(h.past \o [n \in 1 .. Len(order) |-> after(n - 1)]),
         project |-> after(Len(order)), future |-> <<>>]

(* nextId, n times: the numbers after the counter the project does not use.   *)
(* Mutant: the counter alone, without a look at the project.                  *)
NextIdsUnchecked(n) == {i \in Ids : counter < i /\ i <= counter + n}

NextIds(n) ==
    LET free == {i \in Ids : counter < i /\ i \notin work.project.parts}
    IN  {i \in free : Cardinality({j \in free : j <= i}) <= n}

-------------------------------------------------------------------------------
NoPlan == [phase |-> "none"]
Idle == [kind |-> "select"]

EditorInit ==
    /\ work = [past |-> <<>>, project |-> EmptyProject(1), future |-> <<>>]
    /\ selected = {} /\ mode = Idle /\ counter = 0 /\ link = 0
    /\ plan = NoPlan /\ edits = 0 /\ docs = 1 /\ strayed = FALSE

project == work.project

Commit(h) == work' = h /\ edits < MaxEdits /\ edits' = edits + 1
Change(p) == Commit(Edited(work, p))

(* loadProject: another document, without history and not yet the account's.  *)
(* What was selected and what the canvas was doing stay as they were.         *)
(* Mutant: the link to the account's project survives.                        *)
LoadProjectLinked(p, l) ==
    /\ work' = [past |-> <<>>, project |-> p, future |-> <<>>]
    /\ link' = (IF l = 0 THEN link ELSE l)

LoadProject(p, l) ==
    /\ work' = [past |-> <<>>, project |-> p, future |-> <<>>]
    /\ link' = l

-------------------------------------------------------------------------------
(* The canvas: what a click means depends on the mode.                        *)

(* A part of the palette is picked up, to be placed by the next click.        *)
PickUp ==
    /\ mode' = [kind |-> "place"]
    /\ UNCHANGED <<work, selected, counter, link, plan, edits, docs, strayed>>

(* handleTerminalClick: a terminal is the start of a wire, or its end. Where  *)
(* it started is remembered as it was, whatever happened to that part since.  *)
StartWire(i) ==
    /\ mode.kind # "wire"
    /\ mode' = [kind |-> "wire", from |-> i]
    /\ UNCHANGED <<work, selected, counter, link, plan, edits, docs, strayed>>

EndWire(i) ==
    /\ mode.kind = "wire"
    /\ mode' = Idle
    /\ Change(WithWire(project, {mode.from, i}))
    /\ strayed' = (strayed \/ mode.from \notin project.parts)
    /\ UNCHANGED <<selected, counter, link, plan, docs>>

(* A click on the empty canvas ends a wire or a selection; Escape leaves the  *)
(* mode first, and the same terminal twice is no wire.                        *)
ClearCanvas ==
    /\ \/ mode # Idle /\ mode' = Idle /\ UNCHANGED selected
       \/ mode = Idle /\ selected' = {} /\ UNCHANGED mode
    /\ UNCHANGED <<work, counter, link, plan, edits, docs, strayed>>

Place ==
    /\ mode.kind = "place"
    /\ \E i \in NextIds(1) :
         /\ counter' = i
         /\ Change(WithPart(project, i))
    /\ mode' = Idle
    /\ UNCHANGED <<selected, link, plan, docs, strayed>>

(* handleDragEnd: a part that is dropped moves, and the legs that land over a *)
(* hole are wired to it, each with an entry of its own.                       *)
Drop(i, hole) ==
    /\ LET moved == Edited(work, Rearranged(project))
           w == {i, hole}
       IN  \/ Commit(moved)
           \/ /\ i # hole /\ \A v \in project.wires : i \notin v
              /\ Commit(Edited(moved, WithWire(moved.project, w)))
    /\ UNCHANGED <<selected, mode, counter, link, plan, docs, strayed>>

(* Turning, moving, nudging, arranging and setting parts: the drawing changes *)
(* and nothing the wires depend on.                                           *)
Rearrange ==
    /\ project.parts # {}
    /\ Change(Rearranged(project))
    /\ UNCHANGED <<selected, mode, counter, link, plan, docs, strayed>>

(* setSelection, toggleSelected, selectAll.                                   *)
Select ==
    /\ \/ selected' \in SUBSET project.parts
       \/ \E i \in project.parts : selected' = (selected \cup {i}) \ (selected \cap {i})
    /\ UNCHANGED <<work, mode, counter, link, plan, edits, docs, strayed>>

(* removePart, by its menu or its panel, and removeSelection.                 *)
RemoveParts(gone) ==
    /\ Change(WithoutParts(project, gone))
    /\ selected' = {}
    /\ UNCHANGED <<mode, counter, link, plan, docs, strayed>>

(* duplicateSelection, and the paste that duplicates those of the copied      *)
(* parts that are still there: new ids for the copies, and copies of the      *)
(* wires between them.                                                        *)
CopiedWire(w, renamed) ==
    IF w \subseteq DOMAIN renamed THEN {{renamed[i] : i \in w}} ELSE {}

Duplicate(chosen) ==
    LET originals == chosen \cap project.parts
        new == NextIds(Cardinality(originals) + Cardinality(originals \cap project.twins))
    IN  /\ chosen # {}
        /\ Cardinality(new) >= Cardinality(originals)
        /\ \E copy \in {f \in [originals -> new] : IsInjective(f)} :
             Change([project EXCEPT
                 !.parts = @ \cup new,
                 !.twins = @ \cup (new \cap project.parts),
                 !.wires = @ \cup UNION {CopiedWire(w, copy) : w \in project.wires}])
        /\ counter' = Max(new \cup {counter})
        /\ selected' = new
        /\ UNCHANGED <<mode, link, plan, docs, strayed>>

(* Unplugging cuts every wire of a part, or those that leave the selection,   *)
(* one removeWire after another.                                              *)
Unplug(cut) ==
    /\ cut # {}
    /\ Commit(Unplugged(work, cut))
    /\ UNCHANGED <<selected, mode, counter, link, plan, docs, strayed>>

Touching(i) == {w \in project.wires : i \in w}
Leaving(chosen) ==
    {w \in project.wires : w \cap chosen # {} /\ ~(w \subseteq chosen)}

(* setSketch bypasses the undo stack: the text changes in place.              *)
Type ==
    /\ Commit([work EXCEPT !.project = Typed(@)])
    /\ UNCHANGED <<selected, mode, counter, link, plan, docs, strayed>>

(* Mutant: what is undone is not kept to be redone.                           *)
UndoneForGood(h) ==
    [past |-> Front(h.past), project |-> Last(h.past), future |-> h.future]

Undone(h) ==
    [past |-> Front(h.past), project |-> Last(h.past),
     future |-> <<h.project>> \o h.future]

Redone(h) ==
    [past |-> Newest(Append(h.past, h.project)), project |-> Head(h.future),
     future |-> Tail(h.future)]

Undo ==
    /\ work.past # <<>>
    /\ Commit(Undone(work)) /\ selected' = {}
    /\ UNCHANGED <<mode, counter, link, plan, docs, strayed>>

Redo ==
    /\ work.future # <<>>
    /\ Commit(Redone(work)) /\ selected' = {}
    /\ UNCHANGED <<mode, counter, link, plan, docs, strayed>>

(* New project, a project of the library, or one read from a file.            *)
Open ==
    /\ docs < MaxDocs /\ docs' = docs + 1
    /\ \E p \in {EmptyProject(docs + 1), LibraryProject(docs + 1)} : LoadProject(p, 0)
    /\ UNCHANGED <<selected, mode, counter, plan, edits, strayed>>

-------------------------------------------------------------------------------
(* The assistant's plans.                                                     *)

(* run.ts apply: one action, by the same mutations a click makes.             *)
Applied(p, a) ==
    CASE a.kind = "addPart" -> WithPart(p, a.id)
      [] a.kind = "removePart" -> WithoutParts(p, {a.id})
      [] a.kind = "addWire" -> WithWire(p, a.wire)
      [] a.kind = "removeWire" -> WithoutWire(p, a.wire)
      [] a.kind = "setProp" -> Rearranged(p)
      [] a.kind = "setSketch" -> Typed(p)

(* The parts and the wires there are after those of the actions in ran. A     *)
(* wire the plan adds has no id yet, so a later step cannot name it.          *)
PartsAfter(actions, ran, parts) ==
    LET adds(j, i) == actions[j].kind = "addPart" /\ actions[j].id = i
        removes(j, i) == actions[j].kind = "removePart" /\ actions[j].id = i
    IN  {i \in Numbers :
            \/ i \in parts /\ \A j \in ran : ~removes(j, i)
            \/ \E j \in ran : adds(j, i) /\ \A k \in ran : k > j => ~removes(k, i)}

WiresAfter(actions, ran, wires) ==
    {w \in wires : \A j \in ran : /\ actions[j].kind = "removePart" => actions[j].id \notin w
                                  /\ actions[j].kind = "removeWire" => actions[j].wire # w}

(* checkPlan: an action is run only if what it names is there when its turn   *)
(* comes.                                                                     *)
Passes(a, parts, wires) ==
    CASE a.kind = "addPart" -> a.id \notin parts
      [] a.kind \in {"removePart", "setProp"} -> a.id \in parts
      [] a.kind = "addWire" -> a.wire \subseteq parts
      [] a.kind = "removeWire" -> a.wire \in wires
      [] a.kind = "setSketch" -> TRUE

Runnable(run, actions, p) ==
    \A i \in DOMAIN actions :
        LET ran == {j \in run : j < i}
        IN  i \in run <=> Passes(actions[i], PartsAfter(actions, ran, p.parts),
                                            WiresAfter(actions, ran, p.wires))

Running == {"running", "unattended"}

PlanOnly == <<work, selected, mode, counter, link, edits, docs, strayed>>

(* send: the question goes out with the project as it is on screen.           *)
Ask ==
    /\ plan = NoPlan
    /\ plan' = [phase |-> "asked", base |-> project]
    /\ UNCHANGED PlanOnly

(* The answer's plan is checked against the project that was sent.            *)
Propose(actions) ==
    /\ plan.phase = "asked"
    /\ \E run \in SUBSET DOMAIN actions :
         /\ Runnable(run, actions, plan.base)
         /\ plan' = [phase |-> "proposed", base |-> plan.base, actions |-> actions, run |-> run]
    /\ UNCHANGED PlanOnly

(* apply: the project on screen now is kept for `Undo', and the steps begin.  *)
StartPlan ==
    /\ plan.phase = "proposed"
    /\ plan' = [phase |-> "running", base |-> plan.base, before |-> project,
                expect |-> plan.base, todo |-> plan.run,
                actions |-> plan.actions, run |-> plan.run]
    /\ UNCHANGED PlanOnly

(* Where the project stands as the check foresaw it.                          *)
SameCircuit(p, q) == p.parts = q.parts /\ p.twins = q.twins /\ p.wires = q.wires

(* runPlan's next step, after its pause: on whatever the project is by now.   *)
PlanStep ==
    /\ plan.phase \in Running
    /\ \E i \in plan.todo :
         /\ \A j \in plan.todo : i <= j
         /\ LET a == plan.actions[i]
            IN  /\ IF a.kind = "setSketch"
                   THEN Commit([work EXCEPT !.project = Applied(@, a)])
                   ELSE Change(Applied(project, a))
                /\ plan' = [plan EXCEPT !.todo = @ \ {i}, !.expect = Applied(@, a)]
                /\ selected' = (CASE a.kind = "removePart" -> {}
                                  [] a.kind \in {"addPart", "setProp", "addWire"} -> {a.id}
                                  [] OTHER -> selected)
    /\ strayed' = (strayed \/ ~SameCircuit(project, plan.expect))
    /\ UNCHANGED <<mode, counter, link, docs>>

PlanDone ==
    /\ plan.phase \in Running /\ plan.todo = {}
    /\ plan' = (IF plan.phase = "running" THEN [plan EXCEPT !.phase = "applied"]
                                          ELSE NoPlan)
    /\ UNCHANGED PlanOnly

(* undo: the document of before the plan is loaded as a fresh one, and the    *)
(* plan is back to being proposed.                                            *)
UndoPlan ==
    /\ plan.phase = "applied"
    /\ edits < MaxEdits /\ edits' = edits + 1
    /\ LoadProject(plan.before, 0)
    /\ plan' = [phase |-> "proposed", base |-> plan.base,
                actions |-> plan.actions, run |-> plan.run]
    /\ UNCHANGED <<selected, mode, counter, docs, strayed>>

(* The plan is discarded, or its panel closed: one that runs goes on, with    *)
(* nobody left to undo it.                                                    *)
Dropped ==
    IF plan.phase \in Running THEN [plan EXCEPT !.phase = "unattended"] ELSE NoPlan

DropPlan ==
    /\ plan' = Dropped
    /\ UNCHANGED PlanOnly

-------------------------------------------------------------------------------
Gesture ==
    \/ PickUp \/ ClearCanvas \/ Place \/ Rearrange \/ Select
    \/ \E i \in project.parts :
         \/ StartWire(i) \/ EndWire(i)
         \/ RemoveParts({i}) \/ Unplug(Touching(i))
         \/ \E hole \in project.parts : Drop(i, hole)
    \/ selected # {} /\ RemoveParts(selected)
    \/ Unplug(Leaving(selected))
    \/ \E chosen \in {selected} \cup SUBSET project.parts : Duplicate(chosen)
    \/ Type \/ Undo \/ Redo \/ Open

Planning ==
    \/ Ask \/ (\E p \in Plans : Propose(p))
    \/ StartPlan \/ UndoPlan \/ DropPlan

(* The steps of a plan come by themselves, whatever is on screen.             *)
Carrying == PlanStep \/ PlanDone

EditorNext == Gesture \/ Planning \/ Carrying

EditorSpec == EditorInit /\ [][EditorNext]_editorVars
===============================================================================
