------------------------------ MODULE Simulation ------------------------------
(* The simulator behind the canvas: the worker (apps/studio/src/sim/worker.ts) *)
(* with its board (sim-core/src/sched/board.ts), the messages the page sends   *)
(* it in order, the snapshots the page polls (sim/useSimulation.ts), and the   *)
(* compile that may take longer than the next edit (MenuBar.tsx, build).       *)
(*                                                                            *)
(* A circuit is a fingerprint of the project's parts and wires; the firmware   *)
(* is a few instruction words run round and round; voltages are left out.      *)
(* So is setPartProp, which the page never calls: a property that was changed  *)
(* reaches the worker as an edit of the project.                               *)
EXTENDS Integers, Sequences, FiniteSets

CONSTANTS
    Circuits,       \* the circuits there are
    Metered,        \* those with a meter whose fuse can go
    Words,          \* instruction words in flash, from 0
    MaxInbox,       \* bound: messages under way to the worker
    MaxBuilds,      \* bound: how many compiles are asked for
    MaxClicks       \* bound: edits and clicks of the toolbar

ASSUME SimulationAssumption ==
    /\ Metered \subseteq Circuits /\ Circuits # {}
    /\ Words \in Nat \ {0}
    /\ MaxInbox \in Nat /\ MaxBuilds \in Nat /\ MaxClicks \in Nat

VARIABLES
    canvas,     \* the circuit on the canvas
    given,       \* lastFingerprint: the circuit the worker was last given
    late,       \* a compile answered for another circuit, and no edit came since
    hex,        \* whether the page has firmware that compiled
    builds,     \* the compiles under way, each with the circuit it was asked for
    inbox,      \* what the page has said and the worker has not heard
    worker,     \* project, hex, running, blownFuses
    board,      \* the board that was built, or none
    timers,     \* ticks scheduled
    seen,       \* a snapshot has shown the blown fuse, and no reset came since
    clicks, asked

page == <<canvas, given, late, hex, builds, clicks, asked>>
simVars == <<page, inbox, worker, board, timers, seen>>

None == 0
NoBoard == [built |-> FALSE]
Flash == 0 .. Words - 1

(* SimApi: what the page can say, by what the worker has to be told with it.   *)
Circuitry == {"load", "loadProject"}
Firmware == {"sound", "garbled"}    \* what loadHex reads, and what it throws on
Orders == {"start", "pause", "reset", "step", "stepTime", "snapshot"}
Messages ==
    [kind : {"load"}, circuit : Circuits, hex : Firmware] \cup
    [kind : {"loadProject"}, circuit : Circuits] \cup [kind : Orders] \cup
    [kind : {"setBreakpoint", "clearBreakpoint"}, word : Flash]

(* buildCircuit, with the fuses that went before already gone.                 *)
(* Mutant: a board is built with fuses of its own.                             *)
NewBoardRepaired(circuit, breakpoints, blown) ==
    [built |-> TRUE, circuit |-> circuit, pc |-> 0, stopped |-> FALSE,
     breakpoints |-> breakpoints, fuse |-> FALSE]

NewBoard(circuit, breakpoints, blown) ==
    [built |-> TRUE, circuit |-> circuit, pc |-> 0, stopped |-> FALSE,
     breakpoints |-> breakpoints, fuse |-> blown /\ circuit \in Metered]

(* Every state runFor may leave: it stops at the first breakpoint it comes to, *)
(* after at least one instruction, or where its time is up.                    *)
Reached(b, n) == (b.pc + n) % Words

Stretches(b) ==
    {n \in 1 .. Words : \A j \in 1 .. n - 1 : Reached(b, j) \notin b.breakpoints}
Fuses(b) == IF b.circuit \in Metered THEN {b.fuse, TRUE} ELSE {b.fuse}

RanTo(b, n, f) ==
    [b EXCEPT !.pc = Reached(b, n), !.fuse = f, !.stopped = Reached(b, n) \in b.breakpoints]

Ran(b) == {RanTo(b, n, f) : n \in Stretches(b), f \in Fuses(b)}

(* stepInstruction: one instruction, breakpoint or not.                        *)
Stepped(b) == [b EXCEPT !.pc = Reached(b, 1), !.stopped = FALSE]

SimInit ==
    /\ canvas \in Circuits /\ given = canvas /\ late = FALSE
    /\ hex = FALSE /\ builds = {}
    /\ inbox = <<[kind |-> "loadProject", circuit |-> canvas]>>
    /\ worker = [project |-> None, hex |-> "none", running |-> FALSE, blown |-> FALSE]
    /\ board = NoBoard /\ timers = 0
    /\ seen = FALSE /\ clicks = 0 /\ asked = 0

-------------------------------------------------------------------------------
(* The page.                                                                   *)

Say(m) == Len(inbox) < MaxInbox /\ inbox' = Append(inbox, m)
Click == clicks < MaxClicks /\ clicks' = clicks + 1

(* The effect of useSimulation, after the render of an edited project: a       *)
(* circuit that is not the one last given to the worker is given to it.        *)
(* Mutant: only where there is firmware to run.                                *)
KeepInStepToRun ==
    /\ late' = FALSE
    /\ IF hex /\ given # canvas'
       THEN /\ Say([kind |-> "loadProject", circuit |-> canvas'])
            /\ given' = canvas'
       ELSE UNCHANGED <<inbox, given>>

KeepInStep ==
    /\ late' = FALSE
    /\ IF given # canvas'
       THEN /\ Say([kind |-> "loadProject", circuit |-> canvas'])
            /\ given' = canvas'
       ELSE UNCHANGED <<inbox, given>>

(* Any edit of the project; typing in the sketch leaves the circuit alone.     *)
Edit ==
    /\ Click
    /\ canvas' \in Circuits
    /\ KeepInStep
    /\ UNCHANGED <<hex, builds, asked, worker, board, timers, seen>>

(* build: the sketch goes to the compiler with the project as it is now, and   *)
(* the firmware there was is forgotten by the page.                            *)
Build ==
    /\ asked < MaxBuilds /\ asked' = asked + 1
    /\ \E run \in BOOLEAN :
         builds' = builds \cup {[id |-> asked, circuit |-> canvas, run |-> run]}
    /\ hex' = FALSE
    /\ UNCHANGED <<canvas, given, late, clicks, inbox, worker, board, timers, seen>>

(* The compiler answers: what it compiled is loaded with the circuit it was    *)
(* asked for, and that is the fingerprint remembered.  The page does not look  *)
(* into the image, which may be damaged.                                       *)
BuildAnswered(b) ==
    /\ builds' = builds \ {b}
    /\ \/ /\ hex' = TRUE
          /\ Len(inbox) + 1 < MaxInbox
          /\ \E image \in Firmware :
                inbox' = inbox \o <<[kind |-> "load", circuit |-> b.circuit, hex |-> image]>>
                               \o (IF b.run THEN <<[kind |-> "start"]>> ELSE <<>>)
          /\ given' = b.circuit /\ late' = (b.circuit # canvas)
       \/ hex' = FALSE /\ UNCHANGED <<inbox, given, late>>
    /\ UNCHANGED <<canvas, clicks, asked, worker, board, timers, seen>>

(* The toolbar, for which there must be firmware, and the listing's gutter.    *)
Command ==
    /\ hex /\ Click
    /\ \/ \E kind \in {"start", "pause", "reset", "step", "stepTime"} : Say([kind |-> kind])
       \/ \E w \in Flash, kind \in {"setBreakpoint", "clearBreakpoint"} :
            Say([kind |-> kind, word |-> w])
    /\ UNCHANGED <<canvas, given, late, hex, builds, asked, worker, board, timers, seen>>

(* The poll asks for one snapshot at a time.                                   *)
Poll ==
    /\ \A i \in DOMAIN inbox : inbox[i].kind # "snapshot"
    /\ Say([kind |-> "snapshot"])
    /\ UNCHANGED <<page, worker, board, timers, seen>>

-------------------------------------------------------------------------------
(* The worker: one message at a time, ticks in between.                        *)

Heard(kind) == inbox # <<>> /\ Head(inbox).kind = kind /\ inbox' = Tail(inbox)

(* rebuild: a fresh board, with the breakpoints of the one before; none where  *)
(* there is no firmware.  Firmware that cannot be read throws before the board *)
(* that was there is replaced.                                                 *)
Rebuilt(project, blown) ==
    NewBoard(project, IF board.built THEN board.breakpoints ELSE {}, blown)

Rebuild(image, project, blown) ==
    CASE image = "sound"   -> Rebuilt(project, blown)
      [] image = "garbled" -> board
      [] image = "none"    -> NoBoard

(* pause clears the one timer it remembers.                                    *)
Cleared == IF timers = 0 THEN 0 ELSE timers - 1
Paused == worker' = [worker EXCEPT !.running = FALSE] /\ timers' = Cleared

Load ==
    /\ Heard("load")
    /\ worker' = [worker EXCEPT !.project = Head(inbox).circuit, !.hex = Head(inbox).hex]
    /\ board' = Rebuild(Head(inbox).hex, Head(inbox).circuit, worker.blown)
    /\ UNCHANGED <<page, timers, seen>>

(* loadProject: with firmware there, pause, rebuild and go on if it ran; what  *)
(* is thrown on the way leaves it paused.                                      *)
LoadProject ==
    /\ Heard("loadProject")
    /\ worker' = [worker EXCEPT !.project = Head(inbox).circuit, !.running = @ /\ worker.hex # "garbled"]
    /\ IF worker.hex = "none" THEN UNCHANGED <<board, timers>>
       ELSE /\ board' = Rebuild(worker.hex, Head(inbox).circuit, worker.blown)
            /\ timers' = (IF worker'.running THEN Cleared + 1 ELSE Cleared)
    /\ UNCHANGED <<page, seen>>

Start ==
    /\ Heard("start")
    /\ IF board.built /\ ~worker.running
       THEN /\ worker' = [worker EXCEPT !.running = TRUE]
            /\ timers' = timers + 1
       ELSE UNCHANGED <<worker, timers>>
    /\ UNCHANGED <<page, board, seen>>

Pause ==
    /\ Heard("pause")
    /\ Paused
    /\ UNCHANGED <<page, board, seen>>

StepInstruction ==
    /\ Heard("step")
    /\ Paused
    /\ board' = (IF board.built THEN Stepped(board) ELSE board)
    /\ UNCHANGED <<page, seen>>

StepTime ==
    /\ Heard("stepTime")
    /\ Paused
    /\ board' \in (IF board.built THEN Ran(board) ELSE {board})
    /\ UNCHANGED <<page, seen>>

(* reset: the one way to get a fuse back.                                      *)
Reset ==
    /\ Heard("reset")
    /\ worker' = [worker EXCEPT !.running = FALSE, !.blown = FALSE]
    /\ timers' = Cleared /\ seen' = FALSE
    /\ board' = Rebuild(worker.hex, worker.project, FALSE)
    /\ UNCHANGED page

Breakpoint ==
    /\ \/ Heard("setBreakpoint")
       \/ Heard("clearBreakpoint")
    /\ board' = (IF ~board.built THEN board
                 ELSE [board EXCEPT !.breakpoints =
                         IF Head(inbox).kind = "setBreakpoint" THEN @ \cup {Head(inbox).word}
                         ELSE @ \ {Head(inbox).word}])
    /\ UNCHANGED <<page, worker, timers, seen>>

(* snapshot: what the page sees, and the moment the worker takes note of a     *)
(* fuse.                                                                       *)
Snapshot ==
    /\ Heard("snapshot")
    /\ LET gone == board.built /\ board.fuse
       IN  /\ worker' = [worker EXCEPT !.blown = @ \/ gone]
           /\ seen' = (seen \/ gone)
    /\ UNCHANGED <<page, board, timers>>

(* tick: the board runs on for as long as the clock says, then the next tick   *)
(* is scheduled; a circuit that cannot be solved stops the simulation.         *)
Tick ==
    /\ timers > 0
    /\ \/ /\ board' \in (IF worker.running THEN Ran(board) ELSE {board})
          /\ timers' = (IF worker.running THEN timers ELSE timers - 1)
          /\ UNCHANGED worker
       \/ /\ worker.running
          /\ worker' = [worker EXCEPT !.running = FALSE]
          /\ timers' = timers - 1 /\ UNCHANGED board
    /\ UNCHANGED <<page, inbox, seen>>

Working ==
    \/ Load \/ LoadProject \/ Start \/ Pause \/ StepInstruction \/ StepTime
    \/ Reset \/ Breakpoint \/ Snapshot \/ Tick

SimNext == Edit \/ Build \/ (\E b \in builds : BuildAnswered(b)) \/ Command \/ Poll \/ Working

SimSpec == SimInit /\ [][SimNext]_simVars

-------------------------------------------------------------------------------
(* What is simulated is the circuit on the canvas, as soon as the worker has   *)
(* heard of it: after every edit, whatever was compiling or running then.  It  *)
(* is an older one only while a compile that answered late is the last the     *)
(* page heard of: the circuit that was compiled then runs until the next edit. *)
(* Firmware that could not be read leaves the board there was.                 *)
WorkerInStep ==
    \/ ~board.built \/ worker.hex = "garbled"
    \/ \E i \in DOMAIN inbox : inbox[i].kind \in Circuitry
    \/ board.circuit = canvas
    \/ late /\ board.circuit = given

(* A simulation that runs has one tick ahead of it and no other, and one that  *)
(* does not has none: two would run it at twice the speed, none would leave    *)
(* Start without effect.                                                       *)
RunningIsTicking ==
    /\ timers = (IF worker.running THEN 1 ELSE 0)
    /\ worker.running => board.built

(* A fuse that was shown to have gone stays gone until a reset, through every  *)
(* edit and every load that builds the board anew.                             *)
SeenFuseStaysBlown ==
    seen /\ board.built /\ board.circuit \in Metered => board.fuse

(* The worker simulates what it was given, once, while it is told to.          *)
WorkerObeys == WorkerInStep /\ RunningIsTicking
===============================================================================
