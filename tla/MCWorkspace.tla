------------------------------ MODULE MCWorkspace ------------------------------
(* The workspace one concern at a time: `focus' says which of its actions a   *)
(* behaviour is made of, so that each is explored deeper than all of them     *)
(* together could be.                                                         *)
EXTENDS Workspace

VARIABLE focus

MCPlans ==
    LET add(i) == [kind |-> "addPart", id |-> i]
        remove(i) == [kind |-> "removePart", id |-> i]
        wire(i, j) == [kind |-> "addWire", id |-> i, wire |-> {i, j}]
        cut(i, j) == [kind |-> "removeWire", wire |-> {i, j}]
    IN  {<<remove(1), wire(1, 2)>>, <<add(3), wire(3, 1)>>, <<add(1), cut(1, 2)>>,
         <<[kind |-> "setProp", id |-> 2], [kind |-> "setSketch"]>>}

Budget(f) == CASE f = "history" -> 6 [] f = "wires" -> 3 [] f = "plans" -> 3
               [] f = "account" -> 1 [] f = "autosave" -> 2

MCInit ==
    /\ focus \in {"history", "wires", "plans", "account", "autosave"}
    /\ Init
    
MCNext ==
    /\ UNCHANGED focus
    /\ \/ /\ focus = "history" /\ Editing
          /\ plan' = NoPlan /\ mode' = Idle /\ selected' = {} /\ counter' = 0
       \/ /\ focus = "wires" /\ (Editing \/ Reload)
          /\ plan' = NoPlan
          /\ Cardinality(selected') <= 1 \/ counter' # counter
       \/ /\ focus = "plans" /\ Editing
          /\ mode' = Idle /\ Cardinality(selected') <= 1
       \/ /\ focus = "account" /\ (Account \/ Reload \/ Editing)
          /\ plan' = NoPlan /\ mode' = Idle /\ selected' = {} /\ counter' = 0
          /\ asked' + edits' <= MaxCalls
       \/ /\ focus = "autosave" /\ (Saving \/ Editing)
          /\ mode' = Idle /\ selected' = {} /\ counter' = 0
    /\ edits' <= Budget(focus)

MCSpec == MCInit /\ [][MCNext]_<<vars, focus>>
===============================================================================
