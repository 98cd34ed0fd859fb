------------------------------ MODULE ScopePanel -------------------------------
(* The scope panel and the worker it asks (panels/Scope.tsx, the queries of    *)
(* sim/useSimulation.ts): a refresh is three questions, one after the other is *)
(* answered, and many refreshes may be under way; beside them the list of      *)
(* channels, which is asked for when the clock goes to zero and leaves it.     *)
(* What is plotted is Capture's.                                               *)
EXTENDS Naturals, Sequences, SequencesExt

CONSTANTS
    ChannelsOf,     \* of each circuit in turn, the channels it records
    Selections,     \* what may be selected
    MaxRefreshes    \* bound: refreshes of the panel

ASSUME PanelAssumption ==
    /\ ChannelsOf # <<>> /\ MaxRefreshes \in Nat
    /\ \A wanted \in Selections : wanted \subseteq UNION Range(ChannelsOf)

VARIABLES
    there,      \* the worker can be asked
    circuit,    \* the circuit it runs,
    going,      \* that it runs,
    ticked,     \* and has since the circuit was built
    zero,       \* the panel's: its clock is at zero, as of the last snapshot
    choice,     \* what is selected, and whether it is to be decoded
    flight,     \* what is asked of the worker, in order
    back,       \* and what is answered
    offered,    \* the circuit whose channels are offered; 0 before there is one
    plotted,    \* the channels that are plotted,
    asOf,       \* history: and the circuit they are of
    chip,       \* decoded bytes are shown
    listing,    \* how often the list was asked for
    unseen,     \* history: no snapshot had the clock at zero since the rebuild
    refreshes

panelVars == <<there, circuit, going, ticked, zero, choice, flight, back, offered, plotted, asOf, chip,
               listing, unseen, refreshes>>

Decoding(of) == of.decode /\ "D1" \in of.selected

(* query: of a worker that is not there the answer is that there is nothing.   *)
Question(want, of) == [want |-> want, of |-> of]
Nothing(want, of)  == [want |-> want, of |-> of, found |-> {}, by |-> 0]

Asking(want, of) ==
    IF there THEN flight' = Append(flight, Question(want, of)) /\ UNCHANGED back
    ELSE back' = Append(back, Nothing(want, of)) /\ UNCHANGED flight

AskingAgain(want, of) ==
    IF there THEN flight' = Append(flight, Question(want, of)) /\ back' = Tail(back)
    ELSE back' = Append(Tail(back), Nothing(want, of)) /\ UNCHANGED flight

PanelInit ==
    /\ there \in BOOLEAN /\ circuit = 1 /\ going = FALSE /\ ticked = FALSE /\ zero = TRUE
    /\ choice = [selected |-> {"D1"}, decode |-> FALSE]
    /\ flight = <<>> /\ back = <<>>
    /\ offered = 0 /\ plotted = {} /\ asOf = 0 /\ chip = FALSE
    /\ listing = 0 /\ unseen = TRUE /\ refreshes = 0

(* The effect of [sim, simTime === 0]: the one before it is cancelled.         *)
List == listing' = listing + 1 /\ Asking("channels", [number |-> listing + 1])

(* The effect of [refresh, running], and its timer.                            *)
Refresh(of) ==
    /\ refreshes < MaxRefreshes /\ refreshes' = refreshes + 1
    /\ Asking("span", of)

(* The panel is opened: both effects run, the list first.                      *)
OpenPanel ==
    /\ listing = 0 /\ listing' = 1 /\ refreshes' = refreshes + 1
    /\ LET of == [number |-> 1]
       IN  IF there
           THEN /\ flight' = flight \o <<Question("channels", of), Question("span", choice)>>
                /\ UNCHANGED back
           ELSE /\ back' = back \o <<Nothing("channels", of), Nothing("span", choice)>>
                /\ UNCHANGED flight
    /\ UNCHANGED <<there, circuit, going, ticked, zero, choice, offered, plotted, asOf, chip, unseen>>

Choose(to) ==
    /\ listing > 0 /\ choice # to /\ choice' = to /\ Refresh(to)
    /\ UNCHANGED <<there, circuit, going, ticked, zero, offered, plotted, asOf, chip, listing, unseen>>

Timer ==
    /\ listing > 0 /\ going /\ Refresh(choice)
    /\ UNCHANGED <<there, circuit, going, ticked, zero, choice, offered, plotted, asOf, chip, listing, unseen>>

StartOrPause ==
    /\ there /\ listing > 0 /\ going' = ~going /\ Refresh(choice)
    /\ UNCHANGED <<there, circuit, ticked, zero, choice, offered, plotted, asOf, chip, listing, unseen>>
-------------------------------------------------------------------------------
(* The worker, which answers in order.                                         *)
WorkerIsUp ==
    /\ ~there /\ there' = TRUE
    /\ UNCHANGED <<circuit, going, ticked, zero, choice, flight, back, offered, plotted, asOf, chip, listing,
                   unseen, refreshes>>

TickPanel ==
    /\ going /\ ~ticked /\ ticked' = TRUE
    /\ UNCHANGED <<there, circuit, going, zero, choice, flight, back, offered, plotted, asOf, chip, listing,
                   unseen, refreshes>>

(* loadProject: a circuit of its own, from its own beginning.                  *)
LoadCircuit ==
    /\ there /\ circuit < Len(ChannelsOf) /\ circuit' = circuit + 1
    /\ ticked' = FALSE /\ unseen' = TRUE
    /\ UNCHANGED <<there, going, zero, choice, flight, back, offered, plotted, asOf, chip, listing, refreshes>>

(* A snapshot; the list is asked for again when the clock is at zero and was   *)
(* not, or the other way round.                                                *)
SnapshotPanel ==
    /\ there /\ listing > 0 /\ zero = ticked /\ zero' = ~ticked
    /\ List /\ unseen' = FALSE
    /\ UNCHANGED <<there, circuit, going, ticked, choice, offered, plotted, asOf, chip, refreshes>>

AnswerPanel ==
    LET ask   == Head(flight)
        found == CASE ask.want = "traces" -> ask.of.selected \cap ChannelsOf[circuit]
                   [] OTHER -> ChannelsOf[circuit]
    IN  /\ flight # <<>> /\ flight' = Tail(flight)
        /\ back' = Append(back, [want |-> ask.want, of |-> ask.of, found |-> found, by |-> circuit])
        /\ UNCHANGED <<there, circuit, going, ticked, zero, choice, offered, plotted, asOf, chip, listing, unseen,
                       refreshes>>

(* What comes back: the span is followed by the traces, and they by the bytes  *)
(* if they are to be decoded, all of the choice there was when it began.       *)
Hear ==
    LET heard == Head(back)
    IN  /\ back # <<>>
        /\ \/ /\ heard.want = "channels" /\ back' = Tail(back)
              /\ offered' = IF heard.of.number = listing THEN heard.by ELSE offered
              /\ UNCHANGED <<flight, plotted, asOf, chip>>
           \/ /\ heard.want = "span" /\ AskingAgain("traces", heard.of)
              /\ UNCHANGED <<offered, plotted, asOf, chip>>
           \/ /\ heard.want = "traces" /\ plotted' = heard.found /\ asOf' = heard.by
              /\ IF Decoding(heard.of) THEN AskingAgain("frames", heard.of) /\ UNCHANGED chip
                 ELSE back' = Tail(back) /\ chip' = FALSE /\ UNCHANGED flight
              /\ UNCHANGED offered
           \/ /\ heard.want = "frames" /\ back' = Tail(back)
              /\ chip' \in {FALSE, "D1" \in heard.found}
              /\ UNCHANGED <<flight, offered, plotted, asOf>>
        /\ UNCHANGED <<there, circuit, going, ticked, zero, choice, listing, unseen, refreshes>>

PanelNext ==
    \/ OpenPanel \/ Timer \/ StartOrPause \/ WorkerIsUp \/ TickPanel \/ LoadCircuit \/ SnapshotPanel
    \/ AnswerPanel \/ Hear
    \/ \E to \in [selected : Selections, decode : BOOLEAN] : Choose(to)

PanelSpec == PanelInit /\ [][PanelNext]_panelVars
-------------------------------------------------------------------------------
PanelAtRest == flight = <<>> /\ back = <<>>

(* Once nothing is on its way, what is plotted is what is selected by then, of *)
(* the channels the circuit had that was asked last.                           *)
SelectedIsDrawn ==
    PanelAtRest /\ refreshes > 0 => plotted = IF asOf = 0 THEN {} ELSE choice.selected \cap ChannelsOf[asOf]

(* And the channels that are offered are those of the circuit that runs, from  *)
(* the moment a snapshot has shown the panel that it is another one.           *)
ListIsOfTheCircuit == PanelAtRest /\ listing > 0 /\ there => offered \in {0, circuit} \/ unseen

PanelSettles == SelectedIsDrawn /\ ListIsOfTheCircuit
===============================================================================
