--------------------------- MODULE SimulationProofs ---------------------------
(* Proofs about the simulator behind the canvas, for any circuits, any length  *)
(* of firmware and any number of messages under way; about the exchange        *)
(* between its chip and its circuit, the parts that keep time, the solver and  *)
(* the fuse of a meter; about the nodes a drawing is made into, for any        *)
(* breadboard, any parts and any number of wires; and about both buses, for    *)
(* any devices and anything said to them.                                      *)
EXTENDS Simulation, BoardPins, PartBehavior, Solver, Meters, Netlist, Buses, FiniteSetTheorems,
        WellFoundedInduction, TLAPS

-------------------------------------------------------------------------------
BuiltBoards ==
    [built : {TRUE}, circuit : Circuits, pc : Flash, stopped : BOOLEAN,
     breakpoints : SUBSET Flash, fuse : BOOLEAN]

Workers ==
    [project : Circuits \cup {None}, hex : {"none"} \cup Firmware, running : BOOLEAN, blown : BOOLEAN]

SimTypeOK ==
    /\ canvas \in Circuits /\ given \in Circuits
    /\ builds \subseteq [id : Nat, circuit : Circuits, run : BOOLEAN]
    /\ asked \in Nat /\ late \in BOOLEAN
    /\ inbox \in Seq(Messages)
    /\ worker \in Workers
    /\ board \in BuiltBoards \cup {NoBoard}
    /\ seen \in BOOLEAN

(* The worker has a board as soon as it has firmware it can read, and it is    *)
(* the board of the last project it heard of.                                  *)
BoardIsTheProjects ==
    /\ worker.hex = "none" => ~board.built
    /\ worker.hex = "sound" => board.built /\ board.circuit = worker.project
    /\ worker.hex # "none" => worker.project \in Circuits

(* Whoever hears all of q, and knows p before it, ends up knowing g.           *)
EndsUpWith(q, p, g) ==
    /\ \A i \in 1 .. Len(q) :
         q[i].kind \in Circuitry /\ (\A j \in 1 .. Len(q) : j > i => q[j].kind \notin Circuitry)
         => q[i].circuit = g
    /\ (\A i \in 1 .. Len(q) : q[i].kind \notin Circuitry) => p = g

(* The messages arrive in order: once it has heard them all, the worker has    *)
(* the project the page believes it gave it.                                   *)
GivenIsUnderWay == EndsUpWith(inbox, worker.project, given)

(* Only a compile that answered late has given an older circuit than the one   *)
(* on the canvas.                                                              *)
LateIsCompiled == given # canvas => late

(* What has been seen the worker remembers, and its board goes by it.          *)
BlownIsRemembered ==
    /\ seen => worker.blown
    /\ worker.blown /\ board.built /\ board.circuit \in Metered => board.fuse

SimInv ==
    /\ SimTypeOK
    /\ BoardIsTheProjects
    /\ GivenIsUnderWay
    /\ LateIsCompiled
    /\ BlownIsRemembered
    /\ RunningIsTicking

-------------------------------------------------------------------------------
(* A word more at the end, and one taken from the front.                       *)

LEMMA GivenLast ==
    ASSUME NEW q \in Seq(Messages), NEW m \in Messages, m.kind \in Circuitry, NEW p
    PROVE  EndsUpWith(Append(q, m), p, m.circuit)
<1> DEFINE a == Append(q, m)
<1>1. Len(a) = Len(q) + 1 /\ a[Len(q) + 1] = m /\ Len(q) \in Nat
  OBVIOUS
<1>2. Len(q) + 1 \in 1 .. Len(a)
  BY <1>1
<1>3. ~ \A i \in 1 .. Len(a) : a[i].kind \notin Circuitry
  BY <1>1, <1>2
<1>4. ASSUME NEW i \in 1 .. Len(a), \A j \in 1 .. Len(a) : j > i => a[j].kind \notin Circuitry
      PROVE  a[i] = m
  <2>1. ~ Len(q) + 1 > i
    BY <1>1, <1>2, <1>4
  <2>2. i = Len(q) + 1
    BY <1>1, <2>1
  <2> QED
    BY <1>1, <2>2
<1> QED
  BY <1>3, <1>4 DEF EndsUpWith

LEMMA SaidLast ==
    ASSUME NEW q \in Seq(Messages), NEW m \in Messages, m.kind \notin Circuitry, NEW p, NEW g,
           EndsUpWith(q, p, g)
    PROVE  EndsUpWith(Append(q, m), p, g)
<1> DEFINE a == Append(q, m)
<1>1. Len(a) = Len(q) + 1 /\ a[Len(q) + 1] = m /\ Len(q) \in Nat
  OBVIOUS
<1>2. \A i \in 1 .. Len(q) : i \in 1 .. Len(a) /\ a[i] = q[i]
  OBVIOUS
<1>3. ASSUME NEW i \in 1 .. Len(a), a[i].kind \in Circuitry
      PROVE  i \in 1 .. Len(q) /\ a[i] = q[i]
  <2>1. i # Len(q) + 1
    BY <1>1, <1>3
  <2>2. i \in 1 .. Len(q)
    BY <1>1, <2>1
  <2> QED
    BY <1>2, <2>2
<1> HIDE DEF a
<1>4. ASSUME NEW i \in 1 .. Len(a), a[i].kind \in Circuitry,
             \A j \in 1 .. Len(a) : j > i => a[j].kind \notin Circuitry
      PROVE  a[i].circuit = g
  <2>1. i \in 1 .. Len(q) /\ a[i] = q[i]
    BY <1>3, <1>4
  <2>2. \A j \in 1 .. Len(q) : j > i => q[j].kind \notin Circuitry
    BY <1>2, <1>4
  <2> QED
    BY <1>4, <2>1, <2>2 DEF EndsUpWith
<1>5. ASSUME \A i \in 1 .. Len(a) : a[i].kind \notin Circuitry
      PROVE  p = g
  <2>1. \A i \in 1 .. Len(q) : q[i].kind \notin Circuitry
    BY <1>2, <1>5
  <2> QED
    BY <2>1 DEF EndsUpWith
<1>6. EndsUpWith(a, p, g)
  BY <1>4, <1>5 DEF EndsUpWith
<1> QED
  BY <1>6 DEF a

LEMMA HeardFirst ==
    ASSUME NEW q \in Seq(Messages), q # <<>>, NEW p, NEW g, EndsUpWith(q, p, g)
    PROVE  EndsUpWith(Tail(q), IF Head(q).kind \in Circuitry THEN Head(q).circuit ELSE p, g)
<1> DEFINE t == Tail(q)
<1>1. Len(q) \in Nat /\ Len(q) > 0 /\ Len(t) = Len(q) - 1 /\ Head(q) = q[1]
  OBVIOUS
<1>2. \A i \in 1 .. Len(t) : i + 1 \in 1 .. Len(q) /\ t[i] = q[i + 1]
  OBVIOUS
<1>3. \A j \in 1 .. Len(q) : j > 1 => j - 1 \in 1 .. Len(t) /\ q[j] = t[j - 1]
  BY <1>1, <1>2
<1>4. 1 \in 1 .. Len(q)
  BY <1>1
<1> HIDE DEF t
<1>5. ASSUME NEW i \in 1 .. Len(t), t[i].kind \in Circuitry,
             \A j \in 1 .. Len(t) : j > i => t[j].kind \notin Circuitry
      PROVE  t[i].circuit = g
  <2>1. i + 1 \in 1 .. Len(q) /\ t[i] = q[i + 1]
    BY <1>2
  <2>2. ASSUME NEW j \in 1 .. Len(q), j > i + 1
        PROVE  q[j].kind \notin Circuitry
    <3>1. j - 1 \in 1 .. Len(t) /\ q[j] = t[j - 1] /\ j - 1 > i
      BY <1>1, <1>3, <2>2
    <3> QED
      BY <1>5, <3>1
  <2> QED
    BY <1>5, <2>1, <2>2 DEF EndsUpWith
<1>6. ASSUME \A i \in 1 .. Len(t) : t[i].kind \notin Circuitry
      PROVE  (IF Head(q).kind \in Circuitry THEN Head(q).circuit ELSE p) = g
  <2>1. \A j \in 1 .. Len(q) : j > 1 => q[j].kind \notin Circuitry
    BY <1>3, <1>6
  <2>2. CASE q[1].kind \in Circuitry
    BY <1>1, <1>4, <2>1, <2>2 DEF EndsUpWith
  <2>3. CASE q[1].kind \notin Circuitry
    <3>1. \A j \in 1 .. Len(q) : q[j].kind \notin Circuitry
      BY <1>1, <2>1, <2>3
    <3> QED
      BY <1>1, <2>3, <3>1 DEF EndsUpWith
  <2> QED
    BY <2>2, <2>3
<1>7. EndsUpWith(t, IF Head(q).kind \in Circuitry THEN Head(q).circuit ELSE p, g)
  BY <1>5, <1>6 DEF EndsUpWith
<1> QED
  BY <1>7 DEF t

-------------------------------------------------------------------------------
(* The boards: built anew, run or stepped, they are boards of the same circuit *)
(* and no fuse mends.                                                          *)

LEMMA RebuiltIsABoard ==
    ASSUME SimTypeOK, NEW c \in Circuits, NEW gone \in BOOLEAN
    PROVE  /\ Rebuilt(c, gone) \in BuiltBoards
           /\ Rebuilt(c, gone).built
           /\ Rebuilt(c, gone).circuit = c
           /\ gone /\ c \in Metered => Rebuilt(c, gone).fuse
<1>1. 0 \in Flash
  BY SimulationAssumption DEF Flash
<1>2. (IF board.built THEN board.breakpoints ELSE {}) \in SUBSET Flash
  <2>1. CASE board \in BuiltBoards
    BY <2>1 DEF BuiltBoards
  <2>2. CASE board = NoBoard
    BY <2>2 DEF NoBoard
  <2> QED
    BY <2>1, <2>2 DEF SimTypeOK
<1>3. (gone /\ c \in Metered) \in BOOLEAN
  OBVIOUS
<1> QED
  BY <1>1, <1>2, <1>3 DEF Rebuilt, NewBoard, BuiltBoards

(* What a rebuild leaves: nothing without firmware, what there was where the   *)
(* firmware cannot be read, a fresh board of the project otherwise.            *)
LEMMA RebuildLeaves ==
    ASSUME SimTypeOK, NEW image \in {"none"} \cup Firmware, NEW c \in Circuits, NEW gone \in BOOLEAN,
           board' = Rebuild(image, c, gone)
    PROVE  /\ board' \in BuiltBoards \cup {NoBoard}
           /\ image = "none" => ~board'.built
           /\ image = "garbled" => board' = board
           /\ image = "sound" => /\ board'.built /\ board'.circuit = c
                                 /\ gone /\ c \in Metered => board'.fuse
<1>1. CASE image = "none"
  <2>1. board' = NoBoard
    BY <1>1 DEF Rebuild
  <2> QED
    BY <1>1, <2>1 DEF NoBoard
<1>2. CASE image = "garbled"
  <2>1. board' = board
    BY <1>2 DEF Rebuild
  <2> QED
    BY <1>2, <2>1 DEF SimTypeOK
<1>3. CASE image = "sound"
  <2>1. board' = Rebuilt(c, gone)
    BY <1>3 DEF Rebuild
  <2> QED
    BY <1>3, <2>1, RebuiltIsABoard
<1> QED
  BY <1>1, <1>2, <1>3 DEF Firmware

LEMMA RunIsABoard ==
    ASSUME NEW b \in BuiltBoards, NEW r \in Ran(b) \cup {Stepped(b)}
    PROVE  /\ r \in BuiltBoards
           /\ r.built /\ r.circuit = b.circuit
           /\ b.fuse => r.fuse
<1>1. \A n \in Nat : Reached(b, n) \in Flash
  BY SimulationAssumption DEF Reached, Flash, BuiltBoards
<1>2. CASE r = Stepped(b)
  BY <1>1, <1>2 DEF Stepped, BuiltBoards
<1>3. CASE r \in Ran(b)
  <2>1. PICK n \in Stretches(b), f \in Fuses(b) : r = RanTo(b, n, f)
    BY <1>3 DEF Ran
  <2>2. n \in 1 .. Words /\ f \in BOOLEAN /\ (b.fuse => f)
    BY DEF Stretches, Fuses, BuiltBoards
  <2>3. Reached(b, n) \in Flash
    BY <1>1, <2>2, SimulationAssumption
  <2>4. CASE Reached(b, n) \in b.breakpoints
    <3>1. (Reached(b, n) \in b.breakpoints) = TRUE
      BY <2>4
    <3>2. r = [b EXCEPT !.pc = Reached(b, n), !.fuse = f, !.stopped = TRUE]
      BY <2>1, <3>1, Zenon DEF RanTo
    <3> QED
      BY <2>2, <2>3, <3>2 DEF BuiltBoards
  <2>5. CASE Reached(b, n) \notin b.breakpoints
    <3>1. (Reached(b, n) \in b.breakpoints) = FALSE
      BY <2>5
    <3>2. r = [b EXCEPT !.pc = Reached(b, n), !.fuse = f, !.stopped = FALSE]
      BY <2>1, <3>1, Zenon DEF RanTo
    <3> QED
      BY <2>2, <2>3, <3>2 DEF BuiltBoards
  <2> QED
    BY <2>4, <2>5
<1> QED
  BY <1>2, <1>3

-------------------------------------------------------------------------------
(* The worker hears a message: what is left is again a row of messages, and    *)
(* what the worker will end up with has not changed.                           *)

LEMMA HeardIsAMessage ==
    ASSUME SimTypeOK, NEW k, Heard(k)
    PROVE  Head(inbox) \in Messages /\ Head(inbox).kind = k /\ inbox' \in Seq(Messages)
BY DEF Heard, SimTypeOK

LEMMA HeardCircuit ==
    ASSUME SimInv, NEW k \in Circuitry, Heard(k)
    PROVE  /\ Head(inbox).circuit \in Circuits
           /\ k = "load" => Head(inbox).hex \in Firmware
           /\ inbox' \in Seq(Messages)
           /\ EndsUpWith(inbox', Head(inbox).circuit, given)
<1>1. SimTypeOK /\ GivenIsUnderWay
  BY DEF SimInv
<1>2. Head(inbox) \in Messages /\ Head(inbox).kind = k /\ inbox' \in Seq(Messages)
  BY <1>1, HeardIsAMessage
<1>3. Head(inbox).circuit \in Circuits /\ (k = "load" => Head(inbox).hex \in Firmware)
  BY <1>2 DEF Messages, Orders, Circuitry
<1>4. inbox \in Seq(Messages) /\ inbox # <<>> /\ inbox' = Tail(inbox)
  BY <1>1 DEF Heard, SimTypeOK
<1> QED
  BY <1>1, <1>2, <1>3, <1>4, HeardFirst DEF GivenIsUnderWay

LEMMA HeardOther ==
    ASSUME SimInv, NEW k, k \notin Circuitry, Heard(k)
    PROVE  /\ inbox' \in Seq(Messages)
           /\ EndsUpWith(inbox', worker.project, given)
<1>1. SimTypeOK /\ GivenIsUnderWay
  BY DEF SimInv
<1>2. Head(inbox) \in Messages /\ Head(inbox).kind = k /\ inbox' \in Seq(Messages)
  BY <1>1, HeardIsAMessage
<1>4. inbox \in Seq(Messages) /\ inbox # <<>> /\ inbox' = Tail(inbox)
  BY <1>1 DEF Heard, SimTypeOK
<1> QED
  BY <1>1, <1>2, <1>4, HeardFirst DEF GivenIsUnderWay

(* What a step of the worker has to show for the invariant to hold after it.   *)
WorkerStaysSound ==
    /\ worker' \in Workers
    /\ board' \in BuiltBoards \cup {NoBoard}
    /\ seen' \in BOOLEAN
    /\ inbox' \in Seq(Messages)
    /\ BoardIsTheProjects' /\ GivenIsUnderWay' /\ BlownIsRemembered' /\ RunningIsTicking'

LEMMA WorkerSound ==
    ASSUME SimInv, UNCHANGED page, WorkerStaysSound
    PROVE  SimInv'
<1>1. SimTypeOK'
  BY DEF SimInv, SimTypeOK, WorkerStaysSound, page
<1>2. LateIsCompiled'
  BY DEF SimInv, LateIsCompiled, page
<1> QED
  BY <1>1, <1>2 DEF SimInv, WorkerStaysSound

LEMMA ClearedIsNone ==
    ASSUME RunningIsTicking
    PROVE  Cleared = 0 /\ (worker.running => timers = 1 /\ board.built) /\ (~worker.running => timers = 0)
BY DEF RunningIsTicking, Cleared

LEMMA LoadStep == SimInv /\ Load => SimInv'
<1> SUFFICES ASSUME SimInv, Load PROVE SimInv'
  OBVIOUS
<1> DEFINE c == Head(inbox).circuit
           image == Head(inbox).hex
<1>1. /\ c \in Circuits /\ image \in Firmware
      /\ inbox' \in Seq(Messages) /\ EndsUpWith(inbox', c, given)
  BY HeardCircuit DEF Load, Circuitry
<1>2. /\ worker' = [worker EXCEPT !.project = c, !.hex = image]
      /\ board' = Rebuild(image, c, worker.blown)
  BY DEF Load
<1>3. SimTypeOK /\ RunningIsTicking /\ BlownIsRemembered
  BY DEF SimInv
<1> HIDE DEF c, image
<1>4. worker.blown \in BOOLEAN /\ image \in {"none"} \cup Firmware /\ image \in {"sound", "garbled"}
  BY <1>1, <1>3 DEF SimTypeOK, Workers, Firmware
<1>5. /\ board' \in BuiltBoards \cup {NoBoard}
      /\ image = "garbled" => board' = board
      /\ image = "sound" => board'.built /\ board'.circuit = c /\ (worker.blown /\ c \in Metered => board'.fuse)
  BY <1>1, <1>2, <1>3, <1>4, RebuildLeaves
<1>6. /\ worker' \in Workers
      /\ worker'.project = c /\ worker'.hex = image
      /\ worker'.running = worker.running /\ worker'.blown = worker.blown
  BY <1>1, <1>2, <1>3, <1>4 DEF SimTypeOK, Workers
<1>7. UNCHANGED <<page, timers, seen>>
  BY DEF Load
<1>8. BoardIsTheProjects'
  BY <1>1, <1>4, <1>5, <1>6 DEF BoardIsTheProjects
<1>9. GivenIsUnderWay'
  BY <1>1, <1>6, <1>7 DEF GivenIsUnderWay, page
<1>10. BlownIsRemembered'
  BY <1>3, <1>4, <1>5, <1>6, <1>7 DEF BlownIsRemembered
<1>11. RunningIsTicking'
  BY <1>3, <1>4, <1>5, <1>6, <1>7 DEF RunningIsTicking
<1> QED
  BY <1>1, <1>3, <1>5, <1>6, <1>7, <1>8, <1>9, <1>10, <1>11, WorkerSound DEF WorkerStaysSound, SimTypeOK

LEMMA LoadProjectStep == SimInv /\ LoadProject => SimInv'
<1> SUFFICES ASSUME SimInv, LoadProject PROVE SimInv'
  OBVIOUS
<1> DEFINE c == Head(inbox).circuit
<1>1. c \in Circuits /\ inbox' \in Seq(Messages) /\ EndsUpWith(inbox', c, given)
  BY HeardCircuit DEF LoadProject, Circuitry
<1>2. worker' = [worker EXCEPT !.project = c, !.running = worker.running /\ worker.hex # "garbled"]
  BY DEF LoadProject
<1>3. SimTypeOK /\ RunningIsTicking /\ BlownIsRemembered /\ BoardIsTheProjects
  BY DEF SimInv
<1>4. worker.blown \in BOOLEAN /\ worker.hex \in {"none", "sound", "garbled"} /\ worker.hex \in {"none"} \cup Firmware
  BY <1>3 DEF SimTypeOK, Workers, Firmware
<1>5. UNCHANGED <<page, seen>>
  BY DEF LoadProject
<1>6. CASE worker.hex = "none"
  <2>1. UNCHANGED <<board, timers>>
    BY <1>6 DEF LoadProject
  <2> HIDE DEF c
  <2>2. worker' = [worker EXCEPT !.project = c]
    BY <1>2, <1>3, <1>6 DEF SimTypeOK, Workers
  <2>3. /\ worker' \in Workers
        /\ worker'.project = c /\ worker'.hex = worker.hex
        /\ worker'.running = worker.running /\ worker'.blown = worker.blown
    BY <1>1, <1>3, <2>2 DEF SimTypeOK, Workers
  <2>4. BoardIsTheProjects' /\ BlownIsRemembered' /\ RunningIsTicking'
    BY <1>3, <1>5, <1>6, <2>1, <2>3 DEF BoardIsTheProjects, BlownIsRemembered, RunningIsTicking
  <2>5. GivenIsUnderWay'
    BY <1>1, <1>5, <2>3 DEF GivenIsUnderWay, page
  <2> QED
    BY <1>1, <1>3, <1>5, <2>1, <2>3, <2>4, <2>5, WorkerSound DEF WorkerStaysSound, SimTypeOK
<1>7. CASE worker.hex # "none"
  <2>1. /\ board' = Rebuild(worker.hex, c, worker.blown)
        /\ timers' = IF worker'.running THEN Cleared + 1 ELSE Cleared
    BY <1>7 DEF LoadProject
  <2> HIDE DEF c
  <2>2. /\ board' \in BuiltBoards \cup {NoBoard}
        /\ worker.hex = "garbled" => board' = board
        /\ worker.hex = "sound" => board'.built /\ board'.circuit = c /\ (worker.blown /\ c \in Metered => board'.fuse)
    BY <1>1, <1>3, <1>4, <2>1, RebuildLeaves
  <2>3. PICK runs \in BOOLEAN : runs = (worker.running /\ worker.hex # "garbled")
    OBVIOUS
  <2>4. worker' = [worker EXCEPT !.project = c, !.running = runs]
    BY <1>2, <2>3, Zenon
  <2>5. /\ worker' \in Workers
        /\ worker'.project = c /\ worker'.hex = worker.hex
        /\ worker'.running = runs /\ worker'.blown = worker.blown
    BY <1>1, <1>3, <2>3, <2>4 DEF SimTypeOK, Workers
  <2>6. timers' = (IF runs THEN 1 ELSE 0) /\ (runs => worker.hex = "sound")
    <3>1. Cleared = 0
      BY <1>3, ClearedIsNone
    <3>2. timers' = IF runs THEN Cleared + 1 ELSE Cleared
      BY <2>1, <2>5
    <3>3. timers' = IF runs THEN 1 ELSE 0
      BY <3>1, <3>2
    <3>4. runs => worker.hex = "sound"
      BY <1>4, <1>7, <2>3
    <3> QED
      BY <3>3, <3>4
  <2>7. BoardIsTheProjects'
    BY <1>1, <1>4, <1>7, <2>2, <2>5 DEF BoardIsTheProjects
  <2>8. GivenIsUnderWay'
    BY <1>1, <1>5, <2>5 DEF GivenIsUnderWay, page
  <2>9. BlownIsRemembered'
    BY <1>3, <1>4, <1>5, <1>7, <2>2, <2>5 DEF BlownIsRemembered
  <2>10. RunningIsTicking'
    BY <2>2, <2>5, <2>6 DEF RunningIsTicking
  <2> QED
    BY <1>1, <1>3, <1>5, <2>2, <2>5, <2>7, <2>8, <2>9, <2>10, WorkerSound DEF WorkerStaysSound, SimTypeOK
<1> QED
  BY <1>6, <1>7

(* start, pause, and what only moves the board: the project stays what it is.  *)
LEMMA OtherWorkerSteps ==
    ASSUME SimInv, UNCHANGED <<page, seen>>,
           inbox' \in Seq(Messages), EndsUpWith(inbox', worker.project, given),
           NEW running \in BOOLEAN, worker' = [worker EXCEPT !.running = running],
           timers' = (IF running THEN 1 ELSE 0), running => board.built,
           board' = board \/ (board.built /\ board' \in Ran(board) \cup {Stepped(board)})
    PROVE  SimInv'
<1>1. SimTypeOK /\ BlownIsRemembered /\ BoardIsTheProjects
  BY DEF SimInv
<1>2. /\ worker' \in Workers
      /\ worker'.project = worker.project /\ worker'.hex = worker.hex
      /\ worker'.running = running /\ worker'.blown = worker.blown
  BY <1>1 DEF SimTypeOK, Workers
<1>3. /\ board' \in BuiltBoards \cup {NoBoard} /\ board'.built = board.built
      /\ board.built => board'.circuit = board.circuit /\ (board.fuse => board'.fuse)
  <2>1. CASE board' = board
    BY <1>1, <2>1 DEF SimTypeOK
  <2>2. CASE board.built /\ board' \in Ran(board) \cup {Stepped(board)}
    <3>1. board \in BuiltBoards
      BY <1>1, <2>2 DEF SimTypeOK, NoBoard
    <3>2. board' \in BuiltBoards /\ board'.built /\ board'.circuit = board.circuit /\ (board.fuse => board'.fuse)
      BY <2>2, <3>1, RunIsABoard
    <3>3. board.built = TRUE /\ board'.built = TRUE
      BY <3>1, <3>2 DEF BuiltBoards
    <3> QED
      BY <3>2, <3>3
  <2> QED
    BY <2>1, <2>2
<1>4. BoardIsTheProjects'
  BY <1>1, <1>2, <1>3 DEF BoardIsTheProjects
<1>5. GivenIsUnderWay'
  BY <1>2 DEF GivenIsUnderWay, page
<1>6. BlownIsRemembered'
  BY <1>1, <1>2, <1>3 DEF BlownIsRemembered
<1>7. RunningIsTicking'
  BY <1>2, <1>3 DEF RunningIsTicking
<1> QED
  BY <1>1, <1>2, <1>3, <1>4, <1>5, <1>6, <1>7, WorkerSound DEF WorkerStaysSound, SimTypeOK

LEMMA ToldStep == SimInv /\ (Start \/ Pause \/ StepInstruction \/ StepTime) => SimInv'
<1> SUFFICES ASSUME SimInv, Start \/ Pause \/ StepInstruction \/ StepTime PROVE SimInv'
  OBVIOUS
<1>1. SimTypeOK /\ RunningIsTicking
  BY DEF SimInv
<1>2. Cleared = 0 /\ (worker.running => timers = 1 /\ board.built) /\ (~worker.running => timers = 0)
  BY <1>1, ClearedIsNone
<1>3. inbox' \in Seq(Messages) /\ EndsUpWith(inbox', worker.project, given) /\ UNCHANGED <<page, seen>>
  <2>1. {"start", "pause", "step", "stepTime"} \cap Circuitry = {}
    BY DEF Circuitry
  <2>2. PICK k \in {"start", "pause", "step", "stepTime"} : Heard(k)
    BY DEF Start, Pause, StepInstruction, StepTime
  <2>3. UNCHANGED <<page, seen>>
    BY DEF Start, Pause, StepInstruction, StepTime
  <2> QED
    BY <2>1, <2>2, <2>3, HeardOther
<1>4. worker.running \in BOOLEAN /\ worker = [worker EXCEPT !.running = worker.running]
  BY <1>1 DEF SimTypeOK, Workers
<1>5. CASE Start
  <2>1. board' = board
    BY <1>5 DEF Start
  <2>2. CASE board.built /\ ~worker.running
    <3>1. worker' = [worker EXCEPT !.running = TRUE] /\ timers' = timers + 1
      BY <1>5, <2>2 DEF Start
    <3>2. timers' = 1
      BY <1>2, <2>2, <3>1
    <3> QED
      BY <1>3, <2>1, <2>2, <3>1, <3>2, OtherWorkerSteps
  <2>3. CASE ~(board.built /\ ~worker.running)
    <3>1. UNCHANGED <<worker, timers>>
      BY <1>5, <2>3 DEF Start
    <3>2. timers' = (IF worker.running THEN 1 ELSE 0) /\ (worker.running => board.built)
      BY <1>2, <3>1
    <3> QED
      BY <1>3, <1>4, <2>1, <3>1, <3>2, OtherWorkerSteps
  <2> QED
    BY <2>2, <2>3
<1>6. CASE Pause \/ StepInstruction \/ StepTime
  <2>1. worker' = [worker EXCEPT !.running = FALSE] /\ timers' = 0
    BY <1>2, <1>6 DEF Pause, StepInstruction, StepTime, Paused
  <2>2. board' = board \/ (board.built /\ board' \in Ran(board) \cup {Stepped(board)})
    BY <1>6 DEF Pause, StepInstruction, StepTime
  <2> QED
    BY <1>3, <2>1, <2>2, OtherWorkerSteps
<1> QED
  BY <1>5, <1>6

LEMMA ResetStep == SimInv /\ Reset => SimInv'
<1> SUFFICES ASSUME SimInv, Reset PROVE SimInv'
  OBVIOUS
<1>1. SimTypeOK /\ RunningIsTicking /\ BoardIsTheProjects
  BY DEF SimInv
<1>2. inbox' \in Seq(Messages) /\ EndsUpWith(inbox', worker.project, given)
  BY HeardOther DEF Reset, Circuitry
<1>3. UNCHANGED page /\ seen' = FALSE /\ timers' = 0
  BY <1>1, ClearedIsNone DEF Reset
<1>4. /\ worker' \in Workers
      /\ worker'.project = worker.project /\ worker'.hex = worker.hex
      /\ worker'.running = FALSE /\ worker'.blown = FALSE
  BY <1>1 DEF Reset, SimTypeOK, Workers
<1>5. board' = Rebuild(worker.hex, worker.project, FALSE)
  BY DEF Reset
<1>6. /\ board' \in BuiltBoards \cup {NoBoard}
      /\ BoardIsTheProjects'
  <2>1. CASE worker.hex = "none"
    <3>1. board' = NoBoard
      BY <1>5, <2>1 DEF Rebuild
    <3> QED
      BY <1>4, <2>1, <3>1 DEF BoardIsTheProjects, NoBoard
  <2>2. CASE worker.hex # "none"
    <3>1. worker.project \in Circuits /\ worker.hex \in {"none"} \cup Firmware
      BY <1>1, <2>2 DEF BoardIsTheProjects, SimTypeOK, Workers
    <3>2. /\ board' \in BuiltBoards \cup {NoBoard}
          /\ worker.hex = "sound" => board'.built /\ board'.circuit = worker.project
      BY <1>1, <1>5, <3>1, RebuildLeaves
    <3> QED
      BY <1>4, <2>2, <3>1, <3>2 DEF BoardIsTheProjects
  <2> QED
    BY <2>1, <2>2
<1>7. GivenIsUnderWay'
  BY <1>2, <1>3, <1>4 DEF GivenIsUnderWay, page
<1>8. BlownIsRemembered'
  BY <1>3, <1>4 DEF BlownIsRemembered
<1>9. RunningIsTicking'
  BY <1>3, <1>4 DEF RunningIsTicking
<1> QED
  BY <1>2, <1>3, <1>4, <1>6, <1>7, <1>8, <1>9, WorkerSound DEF WorkerStaysSound

LEMMA BreakpointStep == SimInv /\ Breakpoint => SimInv'
<1> SUFFICES ASSUME SimInv, Breakpoint PROVE SimInv'
  OBVIOUS
<1>1. SimTypeOK /\ RunningIsTicking /\ BoardIsTheProjects /\ BlownIsRemembered
  BY DEF SimInv
<1>2. PICK k \in {"setBreakpoint", "clearBreakpoint"} : Heard(k)
  BY DEF Breakpoint
<1>3. inbox' \in Seq(Messages) /\ EndsUpWith(inbox', worker.project, given)
  BY <1>2, HeardOther DEF Circuitry
<1>4. Head(inbox).word \in Flash
  <2>1. Head(inbox) \in Messages /\ Head(inbox).kind = k
    BY <1>1, <1>2, HeardIsAMessage
  <2> QED
    BY <2>1 DEF Messages, Orders, Circuitry
<1>5. UNCHANGED <<page, worker, timers, seen>>
  BY DEF Breakpoint
<1>6. /\ board' \in BuiltBoards \cup {NoBoard}
      /\ board'.built = board.built
      /\ board.built => board'.circuit = board.circuit /\ board'.fuse = board.fuse
  <2>1. CASE ~board.built
    BY <1>1, <2>1 DEF Breakpoint, SimTypeOK
  <2>2. CASE board.built
    <3>1. board \in BuiltBoards
      BY <1>1, <2>2 DEF SimTypeOK, NoBoard
    <3>2. CASE board' = [board EXCEPT !.breakpoints = @ \cup {Head(inbox).word}]
      BY <1>4, <3>1, <3>2 DEF BuiltBoards
    <3>3. CASE board' = [board EXCEPT !.breakpoints = @ \ {Head(inbox).word}]
      BY <3>1, <3>3 DEF BuiltBoards
    <3> QED
      BY <2>2, <3>2, <3>3 DEF Breakpoint
  <2> QED
    BY <2>1, <2>2
<1>7. BoardIsTheProjects'
  BY <1>1, <1>5, <1>6 DEF BoardIsTheProjects
<1>8. GivenIsUnderWay'
  BY <1>3, <1>5 DEF GivenIsUnderWay, page
<1>9. BlownIsRemembered'
  BY <1>1, <1>5, <1>6 DEF BlownIsRemembered
<1>10. RunningIsTicking'
  BY <1>1, <1>5, <1>6 DEF RunningIsTicking
<1> QED
  BY <1>1, <1>3, <1>5, <1>6, <1>7, <1>8, <1>9, <1>10, WorkerSound DEF WorkerStaysSound, SimTypeOK

LEMMA SnapshotStep == SimInv /\ Snapshot => SimInv'
<1> SUFFICES ASSUME SimInv, Snapshot PROVE SimInv'
  OBVIOUS
<1>1. SimTypeOK /\ RunningIsTicking /\ BoardIsTheProjects /\ BlownIsRemembered
  BY DEF SimInv
<1>2. inbox' \in Seq(Messages) /\ EndsUpWith(inbox', worker.project, given)
  BY HeardOther DEF Snapshot, Circuitry
<1>3. UNCHANGED <<page, board, timers>>
  BY DEF Snapshot
<1>4. PICK gone \in BOOLEAN : gone = (board.built /\ board.fuse)
  OBVIOUS
<1>5. worker' = [worker EXCEPT !.blown = (worker.blown \/ gone)] /\ seen' = (seen \/ gone)
  BY <1>4, Zenon DEF Snapshot
<1>6. PICK now \in BOOLEAN : now = (worker.blown \/ gone)
  OBVIOUS
<1>7. worker' = [worker EXCEPT !.blown = now]
  BY <1>5, <1>6, Zenon
<1>8. /\ worker' \in Workers
      /\ worker'.project = worker.project /\ worker'.hex = worker.hex
      /\ worker'.running = worker.running /\ worker'.blown = now
  BY <1>1, <1>7 DEF SimTypeOK, Workers
<1>9. seen' \in BOOLEAN /\ (seen' => now)
  BY <1>1, <1>5, <1>6 DEF SimTypeOK, BlownIsRemembered
<1>10. now /\ board.built /\ board.circuit \in Metered => board.fuse
  BY <1>1, <1>4, <1>6 DEF BlownIsRemembered
<1>11. BlownIsRemembered'
  BY <1>3, <1>8, <1>9, <1>10 DEF BlownIsRemembered
<1>12. BoardIsTheProjects' /\ GivenIsUnderWay' /\ RunningIsTicking'
  BY <1>1, <1>2, <1>3, <1>8 DEF BoardIsTheProjects, GivenIsUnderWay, RunningIsTicking, page
<1> QED
  BY <1>1, <1>2, <1>3, <1>8, <1>9, <1>11, <1>12, WorkerSound DEF WorkerStaysSound, SimTypeOK

LEMMA TickStep == SimInv /\ Tick => SimInv'
<1> SUFFICES ASSUME SimInv, Tick PROVE SimInv'
  OBVIOUS
<1>1. SimTypeOK /\ RunningIsTicking /\ GivenIsUnderWay
  BY DEF SimInv
<1>2. UNCHANGED <<page, inbox, seen>>
  BY DEF Tick
<1>3. inbox' \in Seq(Messages) /\ EndsUpWith(inbox', worker.project, given)
  BY <1>1, <1>2 DEF SimTypeOK, GivenIsUnderWay
<1>4. worker.running /\ timers = 1 /\ board.built
  BY <1>1 DEF Tick, RunningIsTicking
<1>5. CASE board' \in Ran(board) /\ timers' = timers /\ worker' = worker
  <2>1. worker' = [worker EXCEPT !.running = TRUE]
    <3>1. worker.running = TRUE /\ worker \in Workers
      BY <1>1, <1>4 DEF SimTypeOK, Workers
    <3> QED
      BY <1>5, <3>1 DEF Workers
  <2> QED
    BY <1>2, <1>3, <1>4, <1>5, <2>1, OtherWorkerSteps
<1>6. CASE worker' = [worker EXCEPT !.running = FALSE] /\ timers' = timers - 1 /\ board' = board
  <2>1. timers' = 0
    BY <1>4, <1>6
  <2> QED
    BY <1>2, <1>3, <1>6, <2>1, OtherWorkerSteps
<1> QED
  BY <1>4, <1>5, <1>6 DEF Tick

-------------------------------------------------------------------------------
(* The page speaks: the worker and its board are left alone.                   *)

LEMMA PageSound ==
    ASSUME SimInv, UNCHANGED <<worker, board, timers, seen>>,
           canvas' \in Circuits, given' \in Circuits, late' \in BOOLEAN, asked' \in Nat, inbox' \in Seq(Messages),
           builds' \subseteq [id : Nat, circuit : Circuits, run : BOOLEAN],
           GivenIsUnderWay', LateIsCompiled'
    PROVE  SimInv'
<1>1. SimTypeOK'
  BY DEF SimInv, SimTypeOK
<1>2. BoardIsTheProjects' /\ BlownIsRemembered' /\ RunningIsTicking'
  BY DEF SimInv, BoardIsTheProjects, BlownIsRemembered, RunningIsTicking
<1> QED
  BY <1>1, <1>2 DEF SimInv

LEMMA EditStep == SimInv /\ Edit => SimInv'
<1> SUFFICES ASSUME SimInv, Edit PROVE SimInv'
  OBVIOUS
<1>1. SimTypeOK /\ GivenIsUnderWay /\ LateIsCompiled
  BY DEF SimInv
<1>2. UNCHANGED <<hex, builds, asked, worker, board, timers, seen>> /\ canvas' \in Circuits
  BY DEF Edit
<1>3. given' = canvas' /\ late' = FALSE /\ inbox' \in Seq(Messages) /\ EndsUpWith(inbox', worker.project, given')
  <2>1. CASE given # canvas'
    <3> DEFINE m == [kind |-> "loadProject", circuit |-> canvas']
    <3>1. inbox' = Append(inbox, m) /\ given' = canvas' /\ late' = FALSE
      BY <2>1 DEF Edit, KeepInStep, Say
    <3>2. m \in Messages /\ m.kind \in Circuitry /\ m.circuit = canvas'
      BY <1>2 DEF Messages, Circuitry
    <3>3. inbox \in Seq(Messages)
      BY <1>1 DEF SimTypeOK
    <3> HIDE DEF m
    <3> QED
      BY <3>1, <3>2, <3>3, GivenLast
  <2>2. CASE given = canvas'
    <3>1. UNCHANGED <<inbox, given>> /\ late' = FALSE
      BY <2>2 DEF Edit, KeepInStep
    <3> QED
      BY <1>1, <2>2, <3>1 DEF SimTypeOK, GivenIsUnderWay
  <2> QED
    BY <2>1, <2>2
<1>4. LateIsCompiled' /\ GivenIsUnderWay'
  BY <1>1, <1>2, <1>3 DEF LateIsCompiled, GivenIsUnderWay
<1> QED
  BY <1>1, <1>2, <1>3, <1>4, PageSound DEF SimTypeOK

LEMMA BuildStep == SimInv /\ Build => SimInv'
<1> SUFFICES ASSUME SimInv, Build PROVE SimInv'
  OBVIOUS
<1>1. SimTypeOK /\ GivenIsUnderWay /\ LateIsCompiled
  BY DEF SimInv
<1>2. UNCHANGED <<canvas, given, late, clicks, inbox, worker, board, timers, seen>> /\ asked' = asked + 1
  BY DEF Build
<1>3. builds' \subseteq [id : Nat, circuit : Circuits, run : BOOLEAN]
  <2>1. PICK run \in BOOLEAN : builds' = builds \cup {[id |-> asked, circuit |-> canvas, run |-> run]}
    BY DEF Build
  <2>2. [id |-> asked, circuit |-> canvas, run |-> run] \in [id : Nat, circuit : Circuits, run : BOOLEAN]
    BY <1>1 DEF SimTypeOK
  <2> QED
    BY <1>1, <2>1, <2>2 DEF SimTypeOK
<1>4. LateIsCompiled' /\ GivenIsUnderWay'
  BY <1>1, <1>2 DEF LateIsCompiled, GivenIsUnderWay
<1> QED
  BY <1>1, <1>2, <1>3, <1>4, PageSound DEF SimTypeOK

LEMMA BuildAnsweredStep == SimInv /\ (\E b \in builds : BuildAnswered(b)) => SimInv'
<1> SUFFICES ASSUME SimInv, NEW b \in builds, BuildAnswered(b) PROVE SimInv'
  OBVIOUS
<1>1. SimTypeOK /\ GivenIsUnderWay /\ LateIsCompiled
  BY DEF SimInv
<1>2. UNCHANGED <<canvas, clicks, asked, worker, board, timers, seen>> /\ builds' = builds \ {b}
  BY DEF BuildAnswered
<1>3. b \in [id : Nat, circuit : Circuits, run : BOOLEAN]
  BY <1>1 DEF SimTypeOK
<1>4. given' \in Circuits /\ inbox' \in Seq(Messages) /\ EndsUpWith(inbox', worker.project, given')
  <2>1. CASE UNCHANGED <<inbox, given>>
    BY <1>1, <2>1 DEF SimTypeOK, GivenIsUnderWay
  <2>2. ASSUME given' = b.circuit, NEW image \in Firmware,
               inbox' = inbox \o <<[kind |-> "load", circuit |-> b.circuit, hex |-> image]>>
                              \o (IF b.run THEN <<[kind |-> "start"]>> ELSE <<>>)
        PROVE  given' \in Circuits /\ inbox' \in Seq(Messages) /\ EndsUpWith(inbox', worker.project, given')
    <3> DEFINE m == [kind |-> "load", circuit |-> b.circuit, hex |-> image]
               n == [kind |-> "start"]
               q == Append(inbox, m)
    <3>1. m \in Messages /\ m.kind \in Circuitry /\ m.circuit = given' /\ given' \in Circuits
      BY <1>3, <2>2 DEF Messages, Circuitry
    <3>2. n \in Messages /\ n.kind \notin Circuitry
      BY DEF Messages, Orders, Circuitry
    <3>3. inbox \in Seq(Messages)
      BY <1>1 DEF SimTypeOK
    <3>4. inbox' = q \o (IF b.run THEN <<n>> ELSE <<>>)
      <4>1. inbox \o <<m>> = q
        BY <3>1, <3>3
      <4> QED
        BY <2>2, <4>1
    <3> HIDE DEF m, n
    <3>5. q \in Seq(Messages)
      BY <3>1, <3>3
    <3>6. EndsUpWith(q, worker.project, given')
      BY <3>1, <3>3, GivenLast
    <3> HIDE DEF q
    <3>7. CASE b.run
      <4>1. inbox' = Append(q, n)
        BY <3>2, <3>4, <3>5, <3>7
      <4>2. Append(q, n) \in Seq(Messages)
        BY <3>2, <3>5
      <4> QED
        BY <3>1, <3>2, <3>5, <3>6, <4>1, <4>2, SaidLast
    <3>8. CASE ~b.run
      <4>1. inbox' = q
        BY <3>4, <3>5, <3>8
      <4> QED
        BY <3>1, <3>5, <3>6, <4>1
    <3> QED
      BY <3>7, <3>8
  <2> QED
    BY <2>1, <2>2 DEF BuildAnswered
<1>5. late' \in BOOLEAN /\ LateIsCompiled'
  <2>1. CASE UNCHANGED <<given, late>>
    BY <1>1, <1>2, <2>1 DEF SimTypeOK, LateIsCompiled
  <2>2. CASE given' = b.circuit /\ late' = (b.circuit # canvas)
    <3>1. CASE b.circuit = canvas
      BY <1>2, <2>2, <3>1 DEF LateIsCompiled
    <3>2. CASE b.circuit # canvas
      BY <1>2, <2>2, <3>2 DEF LateIsCompiled
    <3> QED
      BY <3>1, <3>2
  <2> QED
    BY <2>1, <2>2 DEF BuildAnswered
<1>6. GivenIsUnderWay'
  BY <1>2, <1>4 DEF GivenIsUnderWay
<1> QED
  BY <1>1, <1>2, <1>4, <1>5, <1>6, PageSound DEF SimTypeOK

LEMMA SaidStep == SimInv /\ (Command \/ Poll) => SimInv'
<1> SUFFICES ASSUME SimInv, Command \/ Poll PROVE SimInv'
  OBVIOUS
<1>1. SimTypeOK /\ GivenIsUnderWay /\ LateIsCompiled
  BY DEF SimInv
<1>2. UNCHANGED <<canvas, given, late, builds, asked, worker, board, timers, seen>>
  BY DEF Command, Poll, page
<1>3. PICK m \in Messages : m.kind \notin Circuitry /\ inbox' = Append(inbox, m)
  <2>1. ASSUME NEW kind \in Orders
        PROVE  [kind |-> kind] \in Messages /\ [kind |-> kind].kind \notin Circuitry
    BY <2>1 DEF Messages, Orders, Circuitry
  <2>2. ASSUME NEW kind \in {"setBreakpoint", "clearBreakpoint"}, NEW w \in Flash
        PROVE  [kind |-> kind, word |-> w] \in Messages /\ [kind |-> kind, word |-> w].kind \notin Circuitry
    BY <2>2 DEF Messages, Circuitry
  <2>3. CASE \E kind \in {"start", "pause", "reset", "step", "stepTime"} : Say([kind |-> kind])
    BY <2>1, <2>3 DEF Say, Orders
  <2>4. CASE \E w \in Flash, kind \in {"setBreakpoint", "clearBreakpoint"} : Say([kind |-> kind, word |-> w])
    BY <2>2, <2>4 DEF Say
  <2>5. CASE Say([kind |-> "snapshot"])
    BY <2>1, <2>5 DEF Say, Orders
  <2> QED
    BY <2>3, <2>4, <2>5 DEF Command, Poll
<1>4. inbox \in Seq(Messages)
  BY <1>1 DEF SimTypeOK
<1>5. inbox' \in Seq(Messages)
  BY <1>3, <1>4
<1>6. EndsUpWith(inbox', worker.project, given)
  BY <1>1, <1>3, <1>4, SaidLast DEF GivenIsUnderWay
<1>7. LateIsCompiled' /\ GivenIsUnderWay'
  BY <1>1, <1>2, <1>6 DEF LateIsCompiled, GivenIsUnderWay
<1> QED
  BY <1>1, <1>2, <1>5, <1>7, PageSound DEF SimTypeOK

-------------------------------------------------------------------------------

LEMMA SimInitially == SimInit => SimInv
<1> SUFFICES ASSUME SimInit PROVE SimInv
  OBVIOUS
<1> DEFINE m == [kind |-> "loadProject", circuit |-> canvas]
<1>1. inbox = <<m>> /\ m \in Messages /\ m.kind \in Circuitry /\ m.circuit = given
  BY DEF SimInit, Messages, Circuitry
<1> HIDE DEF m
<1>2. inbox \in Seq(Messages) /\ inbox = Append(<<>>, m) /\ <<>> \in Seq(Messages)
  BY <1>1
<1>3. GivenIsUnderWay
  BY <1>1, <1>2, GivenLast DEF GivenIsUnderWay
<1>4. worker \in Workers
  BY DEF SimInit, Workers
<1>5. SimTypeOK
  BY <1>2, <1>4 DEF SimInit, SimTypeOK
<1>6. BoardIsTheProjects /\ LateIsCompiled /\ BlownIsRemembered /\ RunningIsTicking
  BY DEF SimInit, NoBoard, BoardIsTheProjects, LateIsCompiled, BlownIsRemembered, RunningIsTicking
<1> QED
  BY <1>3, <1>5, <1>6 DEF SimInv

LEMMA SimStep == SimInv /\ [SimNext]_simVars => SimInv'
<1> SUFFICES ASSUME SimInv, [SimNext]_simVars PROVE SimInv'
  OBVIOUS
<1>1. CASE UNCHANGED simVars
  BY <1>1 DEF simVars, page, SimInv, SimTypeOK, BoardIsTheProjects, GivenIsUnderWay, LateIsCompiled,
              BlownIsRemembered, RunningIsTicking
<1>2. CASE Working
  BY <1>2, LoadStep, LoadProjectStep, ToldStep, ResetStep, BreakpointStep, SnapshotStep, TickStep DEF Working
<1>3. CASE Edit \/ Build \/ (\E b \in builds : BuildAnswered(b)) \/ Command \/ Poll
  BY <1>3, EditStep, BuildStep, BuildAnsweredStep, SaidStep
<1> QED
  BY <1>1, <1>2, <1>3 DEF SimNext

(* With nothing under way the worker has what the page gave it last, and the   *)
(* board is built from what the worker has.                                    *)
LEMMA SimInvInStep == SimInv => WorkerInStep
<1> SUFFICES ASSUME SimInv, board.built, worker.hex # "garbled",
                    \A i \in DOMAIN inbox : inbox[i].kind \notin Circuitry
             PROVE  board.circuit = canvas \/ (late /\ board.circuit = given)
  BY DEF WorkerInStep
<1>1. \A i \in 1 .. Len(inbox) : inbox[i].kind \notin Circuitry
  BY DEF SimInv, SimTypeOK
<1>2. worker.project = given
  BY <1>1 DEF SimInv, GivenIsUnderWay, EndsUpWith
<1>3. worker.hex = "sound"
  BY DEF SimInv, SimTypeOK, Workers, Firmware, BoardIsTheProjects
<1>4. board.circuit = given /\ (given # canvas => late)
  BY <1>2, <1>3 DEF SimInv, BoardIsTheProjects, LateIsCompiled
<1> QED
  BY <1>4

(* The worker simulates the circuit on the canvas, however edits, compiles and *)
(* toolbar clicks fall between each other (useSimulation.ts, worker.ts), until *)
(* a compile answers for a circuit that was edited meanwhile or with firmware  *)
(* that cannot be read; and a simulation that runs has exactly one tick ahead  *)
(* of it.                                                                      *)
THEOREM WorkerIsObedient == SimSpec => []WorkerObeys
<1>1. SimInv => WorkerObeys
  BY SimInvInStep DEF SimInv, WorkerObeys
<1> QED
  BY <1>1, SimInitially, SimStep, PTL DEF SimSpec

(* A fuse the page has shown as blown stays blown on every board built after   *)
(* it, until a reset (worker.ts, blownFuses and rebuild).                      *)
THEOREM FusesStayBlown == SimSpec => []SeenFuseStaysBlown
<1>1. SimInv => SeenFuseStaysBlown
  BY DEF SimInv, BlownIsRemembered, SeenFuseStaysBlown
<1> QED
  BY <1>1, SimInitially, SimStep, PTL DEF SimSpec

-------------------------------------------------------------------------------
(* The exchange between the chip and the circuit, for any pins, wirings,       *)
(* breakpoints and instructions.                                               *)

DriveStates == {"high", "low", "input", "input-pullup"}

PinsTypeOK ==
    /\ ddr \subseteq Headers /\ port \subseteq Headers /\ transmitting \in BOOLEAN
    /\ word \in 0 .. ProgramWords - 1 /\ ticks \in Nat
    /\ tie \in Wirings
    /\ drive \in [Headers -> DriveStates]
    /\ lastLevel \in [Headers -> {"low", "high"}]
    /\ reading \subseteq Headers
    /\ lastSolve \in Nat
    /\ calling \in BOOLEAN /\ first \in BOOLEAN /\ ignored \in BOOLEAN
    /\ goal \in Nat /\ checkpoint \in Nat
    /\ breakpointFlags \subseteq 0 .. ProgramWords - 1 /\ anyBreakpoints \in BOOLEAN

(* What the chip reads is what the last solve found, where that was a level.   *)
ReadAtTheSolve(states, time) ==
    \A h \in Headers :
        states[h] \in Inputs =>
            /\ (h \in reading) = (lastLevel[h] = "high")
            /\ ReadLevel(Voltage(states[h], tie[h], time)) # "indeterminate"
               => lastLevel[h] = ReadLevel(Voltage(states[h], tie[h], time))

Overloads(states, time) ==
    {f \in FaultsAt(states, SettledVolts(states, time)) :
        f[1] \in {"pin-over-current", "supply-over-current"}}

(* What the last solve left, for as long as nothing moves a pin.               *)
SolveStands ==
    /\ drive = States(ddr, port, transmitting)
    /\ ReadAtTheSolve(drive, lastSolve)
    /\ Overloads(drive, lastSolve) \subseteq noted

(* The next solve is less than an interval away.                               *)
SolveIsNear == lastSolve <= ticks /\ ticks < checkpoint /\ checkpoint <= lastSolve + Gap

(* A call that is past its first instruction is not under a breakpoint.        *)
BreakpointsAreWatched ==
    /\ ~ignored
    /\ breakpointFlags # {} => anyBreakpoints
    /\ calling /\ ~first => word \notin breakpointFlags

PinsInv ==
    /\ PinsTypeOK
    /\ calling => SolveStands /\ SolveIsNear
    /\ BreakpointsAreWatched

LEMMA SmallerOfTwo ==
    ASSUME NEW a \in Int, NEW b \in Int
    PROVE  Min({a, b}) \in {a, b} /\ Min({a, b}) <= a /\ Min({a, b}) <= b
<1>1. \E x \in {a, b} : \A y \in {a, b} : x <= y
  <2>1. CASE a <= b
    BY <2>1
  <2>2. CASE ~(a <= b)
    BY <2>2
  <2>3. QED
    BY <2>1, <2>2
<1>2. Min({a, b}) \in {a, b} /\ \A y \in {a, b} : Min({a, b}) <= y
  BY <1>1 DEF Min
<1>3. QED
  BY <1>2

LEMMA NextCheckpointIsAhead ==
    ASSUME NEW from \in Nat, NEW to \in Nat, from < to
    PROVE  /\ NextCheckpoint(from, to) \in Nat
           /\ from < NextCheckpoint(from, to) /\ NextCheckpoint(from, to) <= from + Gap
<1>1. Gap \in Nat /\ Gap > 0
  BY BoardAssumption
<1>2. from + Gap \in Int /\ to \in Int
  BY <1>1
<1>3. /\ Min({from + Gap, to}) \in {from + Gap, to}
      /\ Min({from + Gap, to}) <= from + Gap /\ Min({from + Gap, to}) <= to
  BY <1>2, SmallerOfTwo
<1>4. QED
  BY <1>1, <1>3 DEF NextCheckpoint

LEMMA NextCheckpointIsNat ==
    ASSUME NEW from \in Nat, NEW to \in Nat
    PROVE  NextCheckpoint(from, to) \in Nat
<1>1. Gap \in Nat
  BY BoardAssumption
<1>2. from + Gap \in Int /\ to \in Int
  BY <1>1
<1>3. Min({from + Gap, to}) \in {from + Gap, to}
  BY <1>2, SmallerOfTwo
<1>4. QED
  BY <1>1, <1>3 DEF NextCheckpoint

(* The registers give every pin a state.                                       *)
LEMMA StatesAreDrives ==
    ASSUME NEW d, NEW p, NEW t
    PROVE  States(d, p, t) \in [Headers -> DriveStates]
BY DEF States, PinState, PortState, DriveStates

(* What is driven passes what it passes whenever one looks: only an input      *)
(* waits for a capacitor.                                                      *)
LEMMA LoadIsSteady ==
    ASSUME NEW states \in [Headers -> DriveStates], tie \in Wirings, NEW s \in Nat, NEW t \in Nat
    PROVE  PinCurrents(states, SettledVolts(states, s)) = PinCurrents(states, SettledVolts(states, t))
<1>1. \A h \in Headers : Current(states[h], Voltage(states[h], tie[h], s))
                          = Current(states[h], Voltage(states[h], tie[h], t))
  <2> SUFFICES ASSUME NEW h \in Headers
               PROVE  Current(states[h], Voltage(states[h], tie[h], s))
                      = Current(states[h], Voltage(states[h], tie[h], t))
    OBVIOUS
  <2>1. CASE states[h] \in {"high", "low"}
    <3>1. Voltage(states[h], tie[h], s) = Voltage(states[h], tie[h], t)
      BY <2>1 DEF Voltage
    <3>2. QED
      BY <3>1
  <2>2. CASE states[h] \in {"input", "input-pullup"}
    BY <2>2 DEF Current
  <2>3. QED
    BY <2>1, <2>2 DEF DriveStates
<1>2. \A h \in Headers : /\ SettledVolts(states, s)[h] = Voltage(states[h], tie[h], s)
                         /\ SettledVolts(states, t)[h] = Voltage(states[h], tie[h], t)
  BY DEF SettledVolts
<1>3. QED
  BY <1>1, <1>2 DEF PinCurrents

LEMMA OverloadsAreSteady ==
    ASSUME NEW states \in [Headers -> DriveStates], tie \in Wirings, NEW s \in Nat, NEW t \in Nat
    PROVE  Overloads(states, s) = Overloads(states, t)
<1>1. PinCurrents(states, SettledVolts(states, s)) = PinCurrents(states, SettledVolts(states, t))
  BY LoadIsSteady
<1>2. \A volts : {f \in FaultsAt(states, volts) : f[1] \in {"pin-over-current", "supply-over-current"}}
        = {<<"pin-over-current", h>> : h \in {h \in Headers : PinCurrents(states, volts)[h] > 40}}
          \cup (IF SumFunction(PinCurrents(states, volts)) > 200 THEN {<<"supply-over-current", "VCC">>} ELSE {})
  BY DEF FaultsAt
<1>3. QED
  BY <1>1, <1>2 DEF Overloads

(* An exchange leaves what it promises until the next.                         *)
LEMMA SolveSettles ==
    ASSUME PinsTypeOK, ddr' \subseteq Headers, port' \subseteq Headers, transmitting' \in BOOLEAN,
           ticks' \in Nat, tie' = tie, SolveAnalog
    PROVE  /\ drive' \in [Headers -> DriveStates]
           /\ lastLevel' \in [Headers -> {"low", "high"}]
           /\ reading' \subseteq Headers /\ lastSolve' = ticks'
           /\ SolveStands'
<1> DEFINE states == States(ddr', port', transmitting')
           found(h) == ReadLevel(Voltage(states[h], tie[h], ticks'))
           heard == {h \in Headers : states[h] \in Inputs}
           rung == [h \in Headers |-> IF h \in heard /\ found(h) # "indeterminate"
                                       THEN found(h) ELSE lastLevel[h]]
<1>1. /\ drive' = states /\ lastLevel' = rung /\ lastSolve' = ticks'
      /\ reading' = {h \in heard : rung[h] = "high"} \cup (reading \ heard)
      /\ noted' = noted \cup FaultsAt(states, SettledVolts(states, ticks'))
  <2>1. \A h \in Headers : SettledVolts(states, ticks')[h] = Voltage(states[h], tie[h], ticks')
    BY DEF SettledVolts
  <2>2. rung = [h \in Headers |-> IF h \in heard /\ ReadLevel(SettledVolts(states, ticks')[h]) # "indeterminate"
                                   THEN ReadLevel(SettledVolts(states, ticks')[h]) ELSE lastLevel[h]]
    BY <2>1
  <2> HIDE DEF rung
  <2>3. QED
    BY <2>2 DEF SolveAnalog
<1>2. states \in [Headers -> DriveStates]
  BY StatesAreDrives
<1>3. \A h \in Headers : found(h) \in {"low", "high", "indeterminate"}
  BY DEF ReadLevel
<1>4. rung \in [Headers -> {"low", "high"}]
  <2> HIDE DEF found
  <2>1. QED
    BY <1>3 DEF PinsTypeOK
<1>5. reading' \subseteq Headers
  BY <1>1 DEF PinsTypeOK
<1>6. drive' = States(ddr, port, transmitting)'
  BY <1>1 DEF States, PinState, PortState
<1>7. ReadAtTheSolve(drive, lastSolve)'
  <2>1. \A h \in Headers : states[h] \in Inputs =>
            /\ (h \in reading') = (rung[h] = "high")
            /\ found(h) # "indeterminate" => rung[h] = found(h)
    <3> HIDE DEF found
    <3>1. QED
      BY <1>1
  <2>2. \A h \in Headers : found(h) = ReadLevel(Voltage(states[h], tie'[h], ticks'))
    OBVIOUS
  <2> HIDE DEF rung, found, states
  <2>3. QED
    BY <1>1, <2>1, <2>2 DEF ReadAtTheSolve
<1>8. (Overloads(drive, lastSolve) \subseteq noted)'
  <2>1. Overloads(drive, lastSolve)' = {f \in FaultsAt(states, SettledVolts(states, ticks')) :
                                          f[1] \in {"pin-over-current", "supply-over-current"}}
    BY <1>1 DEF Overloads, SettledVolts
  <2>2. QED
    BY <1>1, <2>1
<1>9. QED
  BY <1>1, <1>2, <1>4, <1>5, <1>6, <1>7, <1>8 DEF SolveStands

LEMMA PinsStart == PinsInit => PinsInv
<1> SUFFICES ASSUME PinsInit
             PROVE  PinsInv
  OBVIOUS
<1>1. ProgramWords \in Nat /\ ProgramWords > 0
  BY BoardAssumption
<1>2. PinsTypeOK
  <2>1. anyBreakpoints \in BOOLEAN
    BY DEF PinsInit, ChipInit
  <2>2. /\ drive \in [Headers -> DriveStates] /\ lastLevel \in [Headers -> {"low", "high"}]
        /\ breakpointFlags \subseteq 0 .. ProgramWords - 1 /\ tie \in Wirings
    BY DEF PinsInit, ChipInit, DriveStates
  <2>3. /\ ddr = {} /\ port = {} /\ transmitting = FALSE /\ word = 0 /\ ticks = 0
        /\ reading = {} /\ lastSolve = 0 /\ calling = FALSE /\ first = FALSE /\ ignored = FALSE
        /\ goal = 0 /\ checkpoint = 0
    BY DEF PinsInit, ChipInit
  <2>4. word \in 0 .. ProgramWords - 1 /\ {ticks, lastSolve, goal, checkpoint} \subseteq Nat
    BY <1>1, <2>3
  <2>5. transmitting \in BOOLEAN /\ calling \in BOOLEAN /\ first \in BOOLEAN /\ ignored \in BOOLEAN
    BY <2>3
  <2>6. ddr \subseteq Headers /\ port \subseteq Headers /\ reading \subseteq Headers
    BY <2>3
  <2>7. QED
    BY <2>1, <2>2, <2>4, <2>5, <2>6 DEF PinsTypeOK
<1>3. BreakpointsAreWatched
  BY DEF BreakpointsAreWatched, PinsInit, ChipInit
<1>4. QED
  BY <1>2, <1>3 DEF PinsInv, PinsInit, ChipInit

LEMMA InstructionsAreTyped ==
    ASSUME PinsTypeOK, PinInstruction
    PROVE  /\ ddr' \subseteq Headers /\ port' \subseteq Headers /\ transmitting' \in BOOLEAN
           /\ word' \in 0 .. ProgramWords - 1 /\ ticks' \in Nat /\ ticks' > ticks
<1>1. ticks' \in Nat /\ ticks' > ticks
  BY DEF PinInstruction, PinsTypeOK
<1>2. ddr' \subseteq Headers /\ port' \subseteq Headers
  BY DEF PinInstruction, WriteDdr, WritePort, PinsTypeOK
<1>3. transmitting' \in BOOLEAN
  BY DEF PinInstruction, WriteDdr, WritePort, PinsTypeOK
<1>4. QED
  BY <1>1, <1>2, <1>3 DEF PinInstruction

(* A pin that nobody reports has not moved.                                    *)
LEMMA NothingMovesUnnoticed ==
    ASSUME ~Dirtied
    PROVE  States(ddr, port, transmitting)' = States(ddr, port, transmitting)
<1>1. transmitting' = transmitting
  BY DEF Dirtied
<1>2. \A h \in Headers : PortState(h, ddr', port') = PortState(h, ddr, port)
  BY DEF Dirtied
<1>3. \A h \in Headers : PinState(h, ddr', port', transmitting') = PinState(h, ddr, port, transmitting)
  BY <1>1, <1>2 DEF PinState
<1>4. QED
  BY <1>3 DEF States

LEMMA BeginRunKeeps ==
    ASSUME PinsInv, BeginRun
    PROVE  PinsInv'
<1>1. /\ UNCHANGED <<ddr, port, transmitting, word, ticks, tie>>
      /\ UNCHANGED <<breakpointFlags, anyBreakpoints, ignored>>
      /\ calling' = TRUE /\ first' = TRUE
      /\ goal' = ticks + Chunk /\ checkpoint' = NextCheckpoint(ticks, ticks + Chunk)
      /\ SolveAnalog
  BY DEF BeginRun, chipRegs
<1>2. ticks \in Nat /\ ticks + Chunk \in Nat /\ ticks < ticks + Chunk
  BY BoardAssumption DEF PinsInv, PinsTypeOK
<1>3. /\ checkpoint' \in Nat /\ ticks < checkpoint' /\ checkpoint' <= ticks + Gap
  BY <1>1, <1>2, NextCheckpointIsAhead
<1>4. /\ drive' \in [Headers -> DriveStates]
      /\ lastLevel' \in [Headers -> {"low", "high"}]
      /\ reading' \subseteq Headers /\ lastSolve' = ticks'
      /\ SolveStands'
  BY <1>1, <1>2, SolveSettles DEF PinsInv, PinsTypeOK
<1>5. PinsTypeOK'
  BY <1>1, <1>2, <1>3, <1>4 DEF PinsInv, PinsTypeOK
<1>6. SolveIsNear'
  BY <1>1, <1>2, <1>3, <1>4 DEF SolveIsNear
<1>7. BreakpointsAreWatched'
  BY <1>1 DEF PinsInv, BreakpointsAreWatched
<1>8. QED
  BY <1>4, <1>5, <1>6, <1>7 DEF PinsInv

LEMMA ExecuteKeeps ==
    ASSUME PinsInv, Execute
    PROVE  PinsInv'
<1> DEFINE stops == anyBreakpoints /\ word' \in breakpointFlags
           ends  == ticks' >= checkpoint \/ Dirtied
<1>1. /\ UNCHANGED <<tie, goal, breakpointFlags, anyBreakpoints>>
      /\ calling /\ PinInstruction /\ first' = FALSE
      /\ ignored' = (ignored \/ (~first /\ word \in breakpointFlags))
      /\ calling' = (~stops /\ (ends => ticks' < goal))
      /\ IF stops \/ ends THEN SolveAnalog ELSE UNCHANGED solveState
      /\ checkpoint' = IF ~stops /\ ends THEN NextCheckpoint(ticks', goal) ELSE checkpoint
  BY DEF Execute
<1>2. /\ ddr' \subseteq Headers /\ port' \subseteq Headers /\ transmitting' \in BOOLEAN
      /\ word' \in 0 .. ProgramWords - 1 /\ ticks' \in Nat /\ ticks' > ticks
  BY <1>1, InstructionsAreTyped DEF PinsInv
<1>3. SolveStands /\ SolveIsNear
  BY <1>1 DEF PinsInv
<1>4. BreakpointsAreWatched'
  <2>1. ~ignored'
    BY <1>1 DEF PinsInv, BreakpointsAreWatched
  <2>2. calling' => word' \notin breakpointFlags
    BY <1>1 DEF PinsInv, BreakpointsAreWatched
  <2>3. QED
    BY <1>1, <2>1, <2>2 DEF PinsInv, BreakpointsAreWatched
<1> HIDE DEF stops, ends
<1>5. CASE stops \/ ends
  <2>1. /\ drive' \in [Headers -> DriveStates]
        /\ lastLevel' \in [Headers -> {"low", "high"}]
        /\ reading' \subseteq Headers /\ lastSolve' = ticks'
        /\ SolveStands'
    BY <1>1, <1>2, <1>5, SolveSettles DEF PinsInv
  <2>2. calling' => /\ checkpoint' \in Nat /\ ticks' < checkpoint'
                    /\ checkpoint' <= ticks' + Gap
    <3>1. calling' => checkpoint' = NextCheckpoint(ticks', goal) /\ ticks' < goal
      BY <1>1, <1>5
    <3>2. goal \in Nat
      BY DEF PinsInv, PinsTypeOK
    <3>3. QED
      BY <1>2, <3>1, <3>2, NextCheckpointIsAhead
  <2>3. SolveIsNear' \/ ~calling'
    BY <1>2, <2>1, <2>2 DEF SolveIsNear
  <2>4. checkpoint' \in Nat
    BY <1>1, <1>2, NextCheckpointIsNat DEF PinsInv, PinsTypeOK
  <2>5. calling' \in BOOLEAN /\ ignored' \in BOOLEAN
    BY <1>1
  <2>6. PinsTypeOK'
    BY <1>1, <1>2, <2>1, <2>4, <2>5 DEF PinsInv, PinsTypeOK
  <2>7. QED
    BY <1>4, <2>1, <2>3, <2>6 DEF PinsInv
<1>6. CASE ~(stops \/ ends)
  <2>1. UNCHANGED solveState /\ checkpoint' = checkpoint /\ ~Dirtied /\ ticks' < checkpoint
    BY <1>1, <1>2, <1>6 DEF ends, PinsInv, PinsTypeOK
  <2>2. States(ddr, port, transmitting)' = States(ddr, port, transmitting)
    BY <2>1, NothingMovesUnnoticed
  <2>3. SolveStands'
    <3>1. drive' = States(ddr, port, transmitting)'
      BY <1>3, <2>1, <2>2 DEF SolveStands, solveState
    <3>2. ReadAtTheSolve(drive, lastSolve)'
      BY <1>1, <1>3, <2>1 DEF SolveStands, solveState, ReadAtTheSolve
    <3>3. (Overloads(drive, lastSolve) \subseteq noted)'
      BY <1>1, <1>3, <2>1 DEF SolveStands, solveState, Overloads, SettledVolts
    <3>4. QED
      BY <3>1, <3>2, <3>3 DEF SolveStands
  <2>4. SolveIsNear'
    BY <1>2, <1>3, <2>1 DEF SolveIsNear, solveState, PinsInv, PinsTypeOK
  <2>5. calling' \in BOOLEAN /\ ignored' \in BOOLEAN
    BY <1>1
  <2>6. PinsTypeOK'
    BY <1>1, <1>2, <2>1, <2>5 DEF PinsInv, PinsTypeOK, solveState
  <2>7. QED
    BY <1>4, <2>3, <2>4, <2>6 DEF PinsInv
<1>7. QED
  BY <1>5, <1>6

LEMMA StepPinsKeeps ==
    ASSUME PinsInv, StepPins
    PROVE  PinsInv'
<1>1. /\ UNCHANGED <<tie, goal, checkpoint, breakpointFlags, anyBreakpoints, first, ignored>>
      /\ ~calling' /\ calling' \in BOOLEAN
      /\ PinInstruction /\ SolveAnalog
  BY DEF StepPins, PinsInv, PinsTypeOK
<1>2. /\ ddr' \subseteq Headers /\ port' \subseteq Headers /\ transmitting' \in BOOLEAN
      /\ word' \in 0 .. ProgramWords - 1 /\ ticks' \in Nat
  BY <1>1, InstructionsAreTyped DEF PinsInv
<1>3. /\ drive' \in [Headers -> DriveStates]
      /\ lastLevel' \in [Headers -> {"low", "high"}]
      /\ reading' \subseteq Headers /\ lastSolve' = ticks'
  BY <1>1, <1>2, SolveSettles DEF PinsInv
<1>4. PinsTypeOK'
  BY <1>1, <1>2, <1>3 DEF PinsInv, PinsTypeOK
<1>5. BreakpointsAreWatched'
  BY <1>1 DEF PinsInv, BreakpointsAreWatched
<1>6. QED
  BY <1>1, <1>4, <1>5 DEF PinsInv

LEMMA EditPinsKeeps ==
    ASSUME PinsInv, EditPins
    PROVE  PinsInv'
<1>1. /\ UNCHANGED <<ddr, port, transmitting, word, ticks, drive, lastLevel, reading, lastSolve>>
      /\ UNCHANGED <<calling, goal, checkpoint, first, ignored>> /\ ~calling
  BY DEF EditPins, chipRegs, solveState
<1>2. tie' \in Wirings
  BY DEF EditPins, PinsInv, PinsTypeOK
<1>3. /\ breakpointFlags' \subseteq 0 .. ProgramWords - 1 /\ anyBreakpoints' \in BOOLEAN
      /\ breakpointFlags' # {} => anyBreakpoints'
  <2>1. CASE UNCHANGED <<breakpointFlags, anyBreakpoints>>
    BY <2>1 DEF PinsInv, PinsTypeOK, BreakpointsAreWatched
  <2>2. CASE ClearBreakpoints
    BY <2>2 DEF ClearBreakpoints
  <2>3. ASSUME NEW a \in 0 .. 2 * ProgramWords, ClearBreakpoint(a)
        PROVE  /\ breakpointFlags' \subseteq 0 .. ProgramWords - 1 /\ anyBreakpoints' \in BOOLEAN
               /\ breakpointFlags' # {} => anyBreakpoints'
    BY <2>3 DEF ClearBreakpoint, PinsInv, PinsTypeOK
  <2>4. ASSUME NEW a \in 0 .. 2 * ProgramWords, SetBreakpoint(a)
        PROVE  /\ breakpointFlags' \subseteq 0 .. ProgramWords - 1 /\ anyBreakpoints' \in BOOLEAN
               /\ breakpointFlags' # {} => anyBreakpoints'
    <3> DEFINE w == a \div 2
    <3>1. w \in 0 .. ProgramWords - 1 => w < ProgramWords
      BY BoardAssumption
    <3>2. /\ breakpointFlags' = breakpointFlags \cup ({w} \cap 0 .. ProgramWords - 1)
          /\ anyBreakpoints' = (anyBreakpoints \/ w < ProgramWords)
      BY <2>4 DEF SetBreakpoint
    <3> HIDE DEF w
    <3>3. QED
      BY <3>1, <3>2 DEF PinsInv, PinsTypeOK, BreakpointsAreWatched
  <2>5. QED
    BY <2>1, <2>2, <2>3, <2>4 DEF EditPins
<1>4. QED
  BY <1>1, <1>2, <1>3 DEF PinsInv, PinsTypeOK, BreakpointsAreWatched

LEMMA PinsStep == PinsInv /\ [PinsNext]_pinVars => PinsInv'
<1> SUFFICES ASSUME PinsInv, [PinsNext]_pinVars
             PROVE  PinsInv'
  OBVIOUS
<1>1. CASE BeginRun
  BY <1>1, BeginRunKeeps
<1>2. CASE Execute
  BY <1>2, ExecuteKeeps
<1>3. CASE StepPins
  BY <1>3, StepPinsKeeps
<1>4. CASE EditPins
  BY <1>4, EditPinsKeeps
<1>5. CASE UNCHANGED pinVars
  <2>1. PinsTypeOK' /\ BreakpointsAreWatched'
    BY <1>5 DEF pinVars, PinsInv, PinsTypeOK, BreakpointsAreWatched
  <2>2. calling' => SolveStands' /\ SolveIsNear'
    BY <1>5 DEF pinVars, PinsInv, SolveStands, SolveIsNear, ReadAtTheSolve, Overloads, SettledVolts,
                States, PinState, PortState
  <2>3. QED
    BY <2>1, <2>2 DEF PinsInv
<1>6. QED
  BY <1>1, <1>2, <1>3, <1>4, <1>5 DEF PinsNext

(* Whatever the chip does to its pins and whatever is wired to them, the       *)
(* circuit was solved with what its registers say, what it reads was solved    *)
(* less than an interval ago, a driver into a short is reported, and no run    *)
(* goes past a breakpoint but the one it started on.                           *)
THEOREM PinsStayTheCircuits == PinsSpec => []PinsAreTheCircuits
<1>1. PinsInv => PinsAreTheCircuits
  <2> SUFFICES ASSUME PinsInv
               PROVE  PinsAreTheCircuits
    OBVIOUS
  <2>1. DrivenAsWritten
    BY DEF DrivenAsWritten, PinsInv, SolveStands
  <2>2. ReadsAreRecent
    <3> SUFFICES ASSUME calling
                 PROVE  ReadsAreRecent
      BY DEF ReadsAreRecent
    <3>1. /\ ticks \in Nat /\ lastSolve \in Nat /\ checkpoint \in Nat /\ Gap \in Nat
          /\ lastSolve <= ticks /\ ticks - lastSolve < Gap
      BY BoardAssumption DEF PinsInv, PinsTypeOK, SolveIsNear
    <3>2. lastSolve \in ticks - Gap + 1 .. ticks
      BY <3>1
    <3>3. ASSUME NEW h \in Headers, NEW volt \in {"low", "high"}, drive[h] \in Inputs,
                 \A t \in ticks - Gap + 1 .. ticks : ReadLevel(Voltage(drive[h], tie[h], t)) = volt
          PROVE  (volt = "high") = (h \in reading)
      <4>1. ReadLevel(Voltage(drive[h], tie[h], lastSolve)) = volt
        BY <3>2, <3>3
      <4>2. lastLevel[h] = volt /\ (h \in reading) = (lastLevel[h] = "high")
        BY <3>3, <4>1 DEF PinsInv, SolveStands, ReadAtTheSolve
      <4>3. QED
        BY <4>2
    <3>4. QED
      BY <3>1, <3>3 DEF ReadsAreRecent
  <2>3. OverCurrentIsNoted
    <3> SUFFICES ASSUME calling
                 PROVE  Overloads(States(ddr, port, transmitting), ticks) \subseteq noted
      BY DEF OverCurrentIsNoted, Overloads
    <3>1. Overloads(drive, ticks) = Overloads(drive, lastSolve)
      BY OverloadsAreSteady DEF PinsInv, PinsTypeOK
    <3>2. QED
      BY <3>1 DEF PinsInv, SolveStands
  <2>4. BreakpointsStop
    BY DEF BreakpointsStop, PinsInv, BreakpointsAreWatched
  <2>5. QED
    BY <2>1, <2>2, <2>3, <2>4 DEF PinsAreTheCircuits
<1>2. QED
  BY <1>1, PinsStart, PinsStep, PTL DEF PinsSpec

-------------------------------------------------------------------------------
(* The timed behaviours of a part, for any intervals, delays and readings.     *)

Times   == Nat \cup {NoTime}
Levels  == {Released, 0, 1, 2}
Windows == Times \X Times
Gadgets ==
    [out : Levels, window : Windows, since : Times, last : BOOLEAN,
     commanded : Times, actual : Nat, on : BOOLEAN, elapsed : Nat]

PartTypeOK ==
    /\ conduct \in {"analog-sensor", "threshold-switch", "pulse-echo", "pwm-actuator"}
    /\ mcuCycles \in Nat /\ until \in Nat /\ driving \in BOOLEAN /\ sensed \in Measured
    /\ gadget \in Gadgets /\ gadget.elapsed = mcuCycles
    /\ output \in Levels /\ roseAt \in Times
    /\ owing \in [owed : Nat, meant : Nat, off : Nat, rose : Times]
    /\ servo \in [at : Nat, from : Nat, to : Nat]

(* What the device has seen of the pin is what the sketch did to it.           *)
PinIsFollowed ==
    /\ gadget.last = driving
    /\ driving => roseAt \in Nat /\ roseAt <= mcuCycles /\ gadget.since = roseAt

(* The stages of an echo: none, one to come, one that is up but not yet on the *)
(* output, one on the output, and one that is over but still there.            *)
NoEcho(d, wire, o) == d.window = NoWindow /\ d.out \in {Released, 0} /\ wire = 0 /\ o.owed = 0

Owed(d, o) ==
    /\ d.window[1] \in Nat /\ d.window[2] \in Nat /\ o.owed = 1
    /\ o.meant = d.window[2] - d.window[1] /\ o.meant > Slack

EchoAhead(d, wire, now, o) ==
    Owed(d, o) /\ d.out = 0 /\ wire = 0 /\ now < d.window[1]
EchoRaised(d, wire, now, o) ==
    Owed(d, o) /\ d.out = 1 /\ wire = 0 /\ d.window[1] <= now /\ now <= d.window[1] + Longest - 1
EchoHeard(d, wire, now, o) ==
    /\ Owed(d, o) /\ d.out = 1 /\ wire = 1 /\ d.window[1] <= now /\ now < d.window[2]
    /\ o.rose \in Nat /\ d.window[1] <= o.rose /\ o.rose <= d.window[1] + Slack
EchoOver(d, wire, now, o) ==
    /\ d.window = NoWindow /\ d.out = 0 /\ wire = 1 /\ o.owed = 1 /\ o.rose \in Nat
    /\ \E end \in Nat : /\ end <= now /\ now <= end + Longest - 1
                        /\ end <= o.rose + o.meant /\ o.rose + o.meant <= end + Slack

EchoStands(d, wire, now, o) ==
    /\ o.off <= Slack
    /\ NoEcho(d, wire, o) \/ EchoAhead(d, wire, now, o) \/ EchoRaised(d, wire, now, o)
       \/ EchoHeard(d, wire, now, o) \/ EchoOver(d, wire, now, o)

(* The servo turns to its last order, and stands still before there is one.    *)
ServoStands ==
    /\ servo.at <= mcuCycles
    /\ gadget.actual = Toward(servo.from, servo.to, Slew * (mcuCycles - servo.at))
    /\ IF gadget.commanded = NoTime THEN servo.from = 0 /\ servo.to = 0 ELSE servo.to = gadget.commanded

PartInv ==
    /\ PartTypeOK
    /\ conduct \in {"pulse-echo", "pwm-actuator"} => PinIsFollowed
    /\ conduct = "pulse-echo" => EchoStands(gadget, output, mcuCycles, owing)
    /\ conduct = "pwm-actuator" => ServoStands

LEMMA SlackIsPositive == Slack \in Nat /\ Slack >= 1 /\ Slack = SolveInterval + 2 * (Longest - 1)
BY PartBehaviorAssumption DEF Slack

LEMMA WidthsAreLong ==
    ASSUME conduct = "pulse-echo", sensed \in Measured
    PROVE  Lesser(sensed, Timeout) \in Nat /\ Lesser(sensed, Timeout) > Slack
BY PartBehaviorAssumption, SlackIsPositive DEF Measured, Lesser

LEMMA FollowedFields ==
    ASSUME NEW d \in Gadgets, NEW high \in BOOLEAN, NEW now \in Nat
    PROVE  LET f == Followed(d, high, now)
           IN  /\ f \in Gadgets /\ f.last = high
               /\ f.since = IF high /\ ~d.last THEN now ELSE IF ~high /\ d.last THEN NoTime ELSE d.since
               /\ f.out = d.out /\ f.window = d.window /\ f.commanded = d.commanded
               /\ f.actual = d.actual /\ f.elapsed = d.elapsed
<1> DEFINE s == IF high /\ ~d.last THEN now ELSE IF ~high /\ d.last THEN NoTime ELSE d.since
<1>1. s \in Times
  BY DEF Times, Gadgets
<1>2. Followed(d, high, now) = [d EXCEPT !.last = high, !.since = s]
  BY DEF Followed, Gadgets
<1> HIDE DEF s
<1>3. LET f == Followed(d, high, now)
      IN  /\ f \in Gadgets /\ f.last = high /\ f.since = s
          /\ f.out = d.out /\ f.window = d.window /\ f.commanded = d.commanded
          /\ f.actual = d.actual /\ f.elapsed = d.elapsed
  BY <1>1, <1>2 DEF Gadgets
<1>4. QED
  BY <1>3 DEF s

(* The window a commit leaves pending, and the level that goes with it.        *)
Pending(w, now) == IF w = NoWindow \/ now >= w[2] THEN NoWindow ELSE w
LevelIn(w, now) == IF w = NoWindow \/ now >= w[2] THEN 0 ELSE IF now >= w[1] THEN 1 ELSE 0

LEMMA EchoFields ==
    ASSUME NEW d \in Gadgets, NEW now \in Nat
    PROVE  LET e == Echo(d, now)
           IN  /\ e \in Gadgets /\ e.last = d.last /\ e.since = d.since /\ e.elapsed = d.elapsed
               /\ e.window = Pending(d.window, now) /\ e.out = LevelIn(d.window, now)
<1>1. NoWindow \in Windows /\ {0, 1} \subseteq Levels
  BY DEF NoWindow, Windows, Times, Levels
<1> DEFINE w == Pending(d.window, now)
           o == LevelIn(d.window, now)
<1>2. w \in Windows /\ o \in Levels
  BY <1>1 DEF Pending, LevelIn, Gadgets
<1>3. Echo(d, now) = [d EXCEPT !.out = o, !.window = w]
  <2>1. CASE d.window = NoWindow
    BY <2>1 DEF Echo, Pending, LevelIn, Gadgets
  <2>2. CASE d.window # NoWindow /\ now >= d.window[2]
    BY <2>2 DEF Echo, Pending, LevelIn, Gadgets
  <2>3. CASE d.window # NoWindow /\ ~(now >= d.window[2])
    BY <2>3 DEF Echo, Pending, LevelIn, Gadgets
  <2>4. QED
    BY <2>1, <2>2, <2>3
<1> HIDE DEF w, o
<1>4. LET e == Echo(d, now)
      IN  /\ e \in Gadgets /\ e.last = d.last /\ e.since = d.since /\ e.elapsed = d.elapsed
          /\ e.window = w /\ e.out = o
  BY <1>2, <1>3 DEF Gadgets
<1>5. QED
  BY <1>4 DEF w, o

(* The window after a commit at `now' that found the pin `high'.               *)
Answered(d, high, now) == Triggered(d, FellAfter(d, high, now))
WindowAt(d, high, now) ==
    IF Answered(d, high, now) THEN <<now + Delay, now + Delay + Lesser(sensed, Timeout)>> ELSE d.window

LEMMA RangedFields ==
    ASSUME NEW d \in Gadgets, NEW high \in BOOLEAN, NEW now \in Nat, Lesser(sensed, Timeout) \in Nat
    PROVE  LET r == Ranged(d, high, now)
           IN  /\ r \in Gadgets /\ r.last = high /\ r.elapsed = d.elapsed
               /\ r.since = Followed(d, high, now).since
               /\ r.window = Pending(WindowAt(d, high, now), now)
               /\ r.out = LevelIn(WindowAt(d, high, now), now)
<1> DEFINE f == Followed(d, high, now)
           w == WindowAt(d, high, now)
           g == [f EXCEPT !.window = w]
<1>1. /\ f \in Gadgets /\ f.last = high /\ f.out = d.out /\ f.window = d.window /\ f.elapsed = d.elapsed
  BY FollowedFields
<1>2. w \in Windows
  BY PartBehaviorAssumption DEF WindowAt, Windows, Times, Gadgets
<1>3. Ranged(d, high, now) = Echo(g, now)
  <2>1. g = [f EXCEPT !.window = IF Triggered(d, FellAfter(d, high, now))
                                 THEN <<now + Delay, now + Delay + Lesser(sensed, Timeout)>> ELSE @]
    BY <1>1 DEF WindowAt, Answered, Gadgets
  <2>2. QED
    BY <2>1 DEF Ranged
<1> HIDE DEF f, w
<1>4. g \in Gadgets /\ g.window = w /\ g.last = f.last /\ g.since = f.since /\ g.elapsed = f.elapsed
  BY <1>1, <1>2 DEF Gadgets
<1> HIDE DEF g
<1>5. /\ Echo(g, now) \in Gadgets /\ Echo(g, now).last = g.last /\ Echo(g, now).since = g.since
      /\ Echo(g, now).elapsed = g.elapsed
      /\ Echo(g, now).window = Pending(g.window, now) /\ Echo(g, now).out = LevelIn(g.window, now)
  BY <1>4, EchoFields
<1>6. QED
  BY <1>1, <1>3, <1>4, <1>5 DEF f, w

LEMMA RangefinderUpdates ==
    ASSUME NEW d \in Gadgets, NEW high \in BOOLEAN, NEW dt \in Nat, conduct = "pulse-echo",
           Lesser(sensed, Timeout) \in Nat,
           NEW u, u = Updated(d, high, dt), NEW now, now = d.elapsed + dt
    PROVE  /\ u \in Gadgets /\ u.last = high /\ u.elapsed = now
           /\ u.since = Followed(d, high, now).since
           /\ u.window = Pending(WindowAt(d, high, now), now)
           /\ u.out = LevelIn(WindowAt(d, high, now), now)
<1> DEFINE r == Ranged(d, high, now)
<1>1. now \in Nat
  BY DEF Gadgets
<1>2. u = [r EXCEPT !.elapsed = now]
  BY DEF Updated
<1>3. /\ r \in Gadgets /\ r.last = high
      /\ r.since = Followed(d, high, now).since
      /\ r.window = Pending(WindowAt(d, high, now), now)
      /\ r.out = LevelIn(WindowAt(d, high, now), now)
  BY <1>1, RangedFields
<1> HIDE DEF r
<1>4. /\ u \in Gadgets /\ u.last = r.last /\ u.elapsed = now /\ u.since = r.since
      /\ u.window = r.window /\ u.out = r.out
  BY <1>1, <1>2, <1>3 DEF Gadgets
<1>5. QED
  BY <1>3, <1>4

LEMMA ServoUpdates ==
    ASSUME NEW d \in Gadgets, NEW high \in BOOLEAN, NEW dt \in Nat, conduct = "pwm-actuator",
           NEW u, u = Updated(d, high, dt), NEW now, now = d.elapsed + dt,
           NEW width, width = FellAfter(d, high, now)
    PROVE  /\ u \in Gadgets /\ u.last = high /\ u.elapsed = now
           /\ u.since = Followed(d, high, now).since
           /\ u.commanded = IF InWindow(width) THEN PositionAt(width) ELSE d.commanded
           /\ u.actual = IF u.commanded = NoTime THEN d.actual
                         ELSE Toward(d.actual, u.commanded, Slew * dt)
<1> DEFINE f == Followed(d, high, now)
           to == IF InWindow(width) THEN PositionAt(width) ELSE d.commanded
           turned == IF to = NoTime THEN d.actual ELSE Toward(d.actual, to, Slew * dt)
<1>1. now \in Nat /\ Slew * dt \in Nat
  BY PartBehaviorAssumption DEF Gadgets
<1>2. width \in Int
  BY <1>1 DEF FellAfter, NoTime, Gadgets, Times
<1>3. to \in Times
  <2>1. PositionAt(width) \in Nat
    BY <1>2 DEF PositionAt, Clamp, Lesser
  <2>2. QED
    BY <2>1 DEF Times, Gadgets
<1> HIDE DEF to
<1>4. turned \in Nat
  BY <1>1, <1>3 DEF Toward, Lesser, Times, Gadgets
<1>5. u = [[f EXCEPT !.commanded = to, !.actual = turned] EXCEPT !.elapsed = now]
  <2>1. f \in Gadgets /\ f.actual = d.actual
    BY <1>1, FollowedFields
  <2>2. Steered(d, high, now, dt) = [f EXCEPT !.commanded = to,
                                      !.actual = IF to = NoTime THEN @ ELSE Toward(@, to, Slew * dt)]
    BY DEF Steered, to
  <2>3. Steered(d, high, now, dt) = [f EXCEPT !.commanded = to, !.actual = turned]
    BY <2>1, <2>2
  <2>4. QED
    BY <2>3 DEF Updated
<1>6. f \in Gadgets /\ f.last = high
  BY <1>1, FollowedFields
<1> HIDE DEF f, turned
<1>7. /\ u \in Gadgets /\ u.last = f.last /\ u.elapsed = now /\ u.since = f.since
      /\ u.commanded = to /\ u.actual = turned
  BY <1>1, <1>3, <1>4, <1>5, <1>6 DEF Gadgets
<1>8. QED
  BY <1>6, <1>7 DEF f, to, turned

LEMMA OthersUpdate ==
    ASSUME NEW d \in Gadgets, NEW high, NEW dt \in Nat, conduct \in {"analog-sensor", "threshold-switch"},
           sensed \in Nat
    PROVE  Updated(d, high, dt) \in Gadgets /\ Updated(d, high, dt).elapsed = d.elapsed + dt
<1> DEFINE now == d.elapsed + dt
<1>1. now \in Nat
  BY DEF Gadgets
<1>2. CASE conduct = "analog-sensor"
  <2> DEFINE rung == Clamp(2 * sensed - 1, 0, TopRail)
  <2>1. rung \in Levels
    BY DEF Clamp, Lesser, TopRail, Levels
  <2>2. Updated(d, high, dt) = [[d EXCEPT !.out = rung] EXCEPT !.elapsed = now]
    BY <1>2 DEF Updated, Sensing
  <2> HIDE DEF rung, now
  <2>3. Updated(d, high, dt) \in Gadgets /\ Updated(d, high, dt).elapsed = now
    BY <1>1, <2>1, <2>2 DEF Gadgets
  <2>4. QED
    BY <2>3 DEF now
<1>3. CASE conduct = "threshold-switch"
  <2> DEFINE on == IF d.on THEN sensed >= SwitchAt - Hysteresis ELSE sensed > SwitchAt + Hysteresis
             rung == IF on THEN 0 ELSE 1
  <2>1. rung \in Levels
    BY DEF Levels
  <2>2. PICK b \in BOOLEAN : b = on
    <3>1. on = TRUE \/ on = FALSE
      <4>1. CASE d.on
        <5>1. CASE sensed >= SwitchAt - Hysteresis
          BY <4>1, <5>1
        <5>2. CASE ~(sensed >= SwitchAt - Hysteresis)
          BY <4>1, <5>2
        <5>3. QED
          BY <5>1, <5>2
      <4>2. CASE ~d.on
        <5>1. CASE sensed > SwitchAt + Hysteresis
          BY <4>2, <5>1
        <5>2. CASE ~(sensed > SwitchAt + Hysteresis)
          BY <4>2, <5>2
        <5>3. QED
          BY <5>1, <5>2
      <4>3. QED
        BY <4>1, <4>2
    <3> HIDE DEF on
    <3>2. QED
      BY <3>1
  <2>3. Updated(d, high, dt) = [[d EXCEPT !.on = on, !.out = rung] EXCEPT !.elapsed = now]
    BY <1>3 DEF Updated, Switched
  <2>4. Updated(d, high, dt) = [[d EXCEPT !.on = b, !.out = rung] EXCEPT !.elapsed = now]
    BY <2>2, <2>3
  <2> HIDE DEF rung, now, on
  <2>5. Updated(d, high, dt) \in Gadgets /\ Updated(d, high, dt).elapsed = now
    BY <1>1, <2>1, <2>4 DEF Gadgets
  <2>6. QED
    BY <2>5 DEF now
<1>4. QED
  BY <1>2, <1>3

-------------------------------------------------------------------------------
(* The rangefinder.  A solve puts on the output what the last commit drove:    *)
(* what was raised is heard, and what was over is counted.                     *)

Owings == [owed : Nat, meant : Nat, off : Nat, rose : Times]

EchoSeen(o, wire) ==
    /\ o \in Owings /\ wire \in {0, 1} /\ o.off <= Slack
    /\ \/ NoEcho(gadget, wire, o)
       \/ EchoAhead(gadget, wire, mcuCycles, o)
       \/ EchoHeard(gadget, wire, mcuCycles, o)

LEMMA SolveIsWatched ==
    ASSUME PartInv, conduct = "pulse-echo", output' = OnWire,
           NEW now \in Nat, mcuCycles <= now, now <= mcuCycles + SolveInterval + Longest - 1
    PROVE  EchoSeen(Watched(now), output')
<1> USE SlackIsPositive
<1>1. /\ gadget \in Gadgets /\ output \in Levels /\ owing \in Owings /\ mcuCycles \in Nat
      /\ EchoStands(gadget, output, mcuCycles, owing) /\ owing.off <= Slack
      /\ SolveInterval \in Nat /\ Longest \in Nat /\ Longest >= 1
  BY PartBehaviorAssumption DEF PartInv, PartTypeOK, EchoStands, Owings
<1>2. CASE NoEcho(gadget, output, owing)
  <2>1. output' = 0 /\ output = 0
    BY <1>2 DEF NoEcho, OnWire, Released
  <2>2. Watched(now) = owing
    BY <2>1 DEF Watched
  <2>3. NoEcho(gadget, output', owing)
    BY <1>2, <2>1 DEF NoEcho
  <2>4. QED
    BY <1>1, <2>1, <2>2, <2>3 DEF EchoSeen
<1>3. CASE EchoAhead(gadget, output, mcuCycles, owing)
  <2>1. output' = 0 /\ output = 0
    BY <1>3 DEF EchoAhead, OnWire, Released
  <2>2. Watched(now) = owing
    BY <2>1 DEF Watched
  <2>3. QED
    BY <1>1, <1>3, <2>1, <2>2 DEF EchoSeen
<1>4. CASE EchoRaised(gadget, output, mcuCycles, owing)
  <2>1. output' = 1 /\ output = 0
    BY <1>4 DEF EchoRaised, OnWire, Released
  <2>2. Watched(now) = [owing EXCEPT !.rose = now]
    BY <2>1 DEF Watched
  <2> DEFINE w == Watched(now)
  <2>3. w \in Owings /\ w.rose = now /\ w.owed = owing.owed /\ w.meant = owing.meant /\ w.off = owing.off
    BY <1>1, <2>2 DEF Owings, Times
  <2> HIDE DEF w
  <2>4. Owed(gadget, w)
    BY <1>4, <2>3 DEF EchoRaised, Owed
  <2>5. /\ gadget.out = 1 /\ gadget.window[1] \in Nat /\ gadget.window[2] \in Nat
        /\ gadget.window[1] <= mcuCycles /\ mcuCycles <= gadget.window[1] + Longest - 1
        /\ gadget.window[2] - gadget.window[1] > Slack
    BY <1>4 DEF EchoRaised, Owed
  <2>6. EchoHeard(gadget, output', mcuCycles, w)
    BY <1>1, <2>1, <2>3, <2>4, <2>5 DEF EchoHeard
  <2>7. QED
    BY <1>1, <2>1, <2>3, <2>6 DEF EchoSeen, w
<1>5. CASE EchoHeard(gadget, output, mcuCycles, owing)
  <2>1. output' = 1 /\ output = 1
    BY <1>5 DEF EchoHeard, OnWire, Released
  <2>2. Watched(now) = owing
    BY <2>1 DEF Watched
  <2>3. QED
    BY <1>1, <1>5, <2>1, <2>2 DEF EchoSeen
<1>6. CASE EchoOver(gadget, output, mcuCycles, owing)
  <2>1. output' = 0 /\ output = 1 /\ owing.owed = 1 /\ owing.rose \in Nat
    BY <1>6 DEF EchoOver, OnWire, Released
  <2> DEFINE off == Distance(now - owing.rose, owing.meant)
             w == Watched(now)
  <2>2. w = [owing EXCEPT !.off = off, !.owed = 0]
    <3>1. Watched(now) = [owing EXCEPT !.off = off, !.owed = owing.owed - 1]
      BY <1>1, <2>1 DEF Watched, Owings
    <3>2. owing.owed - 1 = 0
      BY <2>1
    <3>3. QED
      BY <3>1, <3>2
  <2>3. off \in Nat /\ off <= Slack
    <3>1. PICK end \in Nat : /\ end <= mcuCycles /\ mcuCycles <= end + Longest - 1
                             /\ end <= owing.rose + owing.meant /\ owing.rose + owing.meant <= end + Slack
      BY <1>6 DEF EchoOver
    <3>2. owing.meant \in Nat
      BY <1>1 DEF Owings
    <3>3. now <= end + Slack /\ end <= now
      BY <1>1, <3>1
    <3>4. QED
      BY <2>1, <3>1, <3>2, <3>3 DEF Distance
  <2> HIDE DEF off
  <2> HIDE DEF w
  <2>4. w \in Owings /\ w.off = off /\ w.owed = 0
    <3>1. owing \in Owings
      BY <1>1
    <3>2. QED
      BY <2>2, <2>3, <3>1 DEF Owings
  <2>5. NoEcho(gadget, output', w)
    BY <1>6, <2>1, <2>4 DEF EchoOver, NoEcho
  <2>6. QED
    BY <2>1, <2>3, <2>4, <2>5 DEF EchoSeen, w
<1>7. QED
  BY <1>1, <1>2, <1>3, <1>4, <1>5, <1>6 DEF EchoStands

LEMMA FrameKeepsTheEcho ==
    ASSUME PartInv, conduct = "pulse-echo", BeginFrame
    PROVE  owing' \in Owings /\ output' \in Levels /\ EchoStands(gadget, output', mcuCycles, owing')
<1>1. output' = OnWire /\ owing' = Watched(mcuCycles) /\ mcuCycles \in Nat
  BY DEF BeginFrame, PartInv, PartTypeOK
<1>2. EchoSeen(Watched(mcuCycles), output')
  BY <1>1, SolveIsWatched, PartBehaviorAssumption
<1>3. EchoSeen(owing', output')
  BY <1>1, <1>2
<1>4. QED
  BY <1>3 DEF EchoSeen, EchoStands, Levels

(* A solve of the rangefinder.                                                 *)
LEMMA RangefinderSolves ==
    ASSUME PartInv, conduct = "pulse-echo", NEW high \in BOOLEAN, NEW dt \in Nat,
           gadget' = Updated(gadget, high, dt), NEW now, gadget.elapsed + dt = now
    PROVE  /\ gadget' \in Gadgets /\ gadget'.last = high /\ gadget'.elapsed = now
           /\ gadget'.since = Followed(gadget, high, now).since
           /\ gadget'.window = Pending(WindowAt(gadget, high, now), now)
           /\ gadget'.out = LevelIn(WindowAt(gadget, high, now), now)
<1>1. gadget \in Gadgets /\ Lesser(sensed, Timeout) \in Nat
  BY WidthsAreLong DEF PartInv, PartTypeOK
<1>2. PICK u : u = gadget'
  OBVIOUS
<1>3. u = Updated(gadget, high, dt) /\ now = gadget.elapsed + dt
  BY <1>2
<1>4. /\ u \in Gadgets /\ u.last = high /\ u.elapsed = now
      /\ u.since = Followed(gadget, high, now).since
      /\ u.window = Pending(WindowAt(gadget, high, now), now)
      /\ u.out = LevelIn(WindowAt(gadget, high, now), now)
  BY <1>1, <1>3, RangefinderUpdates
<1>5. QED
  BY <1>2, <1>4

(* What a run to the next solve may overrun.                                   *)
LEMMA CheckpointIsNear ==
    ASSUME PartInv, mcuCycles < until
    PROVE  /\ Checkpoint0 \in Nat /\ Checkpoint0 <= mcuCycles + SolveInterval
           /\ NextEvent(mcuCycles) \in Nat /\ NextEvent(mcuCycles) > mcuCycles
              => Checkpoint0 <= NextEvent(mcuCycles)
<1> DEFINE event == NextEvent(mcuCycles)
<1>1. event \in Int
  BY DEF NextEvent, PartInv, PartTypeOK, Gadgets, Windows, Times, NoTime
<1>2. /\ mcuCycles \in Nat /\ until \in Nat /\ SolveInterval \in Nat
  BY PartBehaviorAssumption DEF PartInv, PartTypeOK
<1>3. Checkpoint0 = Lesser(Lesser(mcuCycles + SolveInterval, until), IF event > mcuCycles THEN event ELSE until)
  BY DEF Checkpoint0
<1> HIDE DEF event
<1>4. /\ Checkpoint0 \in Nat /\ Checkpoint0 <= mcuCycles + SolveInterval
      /\ event > mcuCycles => Checkpoint0 <= event
  BY <1>1, <1>2, <1>3 DEF Lesser
<1>5. QED
  BY <1>4 DEF event

LEMMA SolveKeepsTheEcho ==
    ASSUME PartInv, conduct = "pulse-echo", RunToSolve
    PROVE  owing' \in Owings /\ output' \in Levels /\ EchoStands(gadget', output', mcuCycles', owing')
<1> USE SlackIsPositive
<1>1. /\ mcuCycles \in Nat /\ gadget \in Gadgets /\ gadget.elapsed = mcuCycles /\ sensed \in Measured
      /\ driving \in BOOLEAN /\ SolveInterval \in Nat /\ Longest \in Nat /\ Longest >= 1 /\ Delay \in Nat
  BY PartBehaviorAssumption DEF PartInv, PartTypeOK
<1>2. PICK now \in (mcuCycles + 1) .. (Checkpoint0 + Longest - 1), changed \in BOOLEAN :
          /\ mcuCycles' = now
          /\ driving' = (driving # changed)
          /\ output' = OnWire
          /\ gadget' = Updated(gadget, driving', now - mcuCycles)
          /\ owing' = IF conduct = "pulse-echo" /\ gadget'.window \notin {gadget.window, NoWindow}
                      THEN [Watched(now) EXCEPT !.owed = @ + 1,
                                                !.meant = gadget'.window[2] - gadget'.window[1]]
                      ELSE Watched(now)
  BY DEF RunToSolve
<1>3. /\ Checkpoint0 \in Nat /\ Checkpoint0 <= mcuCycles + SolveInterval
      /\ NextEvent(mcuCycles) \in Nat /\ NextEvent(mcuCycles) > mcuCycles => Checkpoint0 <= NextEvent(mcuCycles)
  BY CheckpointIsNear DEF RunToSolve
<1>4. now \in Nat /\ mcuCycles < now /\ now <= Checkpoint0 + Longest - 1
  BY <1>1, <1>3
<1> DEFINE o == Watched(now)
<1>5. EchoSeen(o, output')
  BY <1>1, <1>2, <1>3, <1>4, SolveIsWatched
<1>6. o \in Owings /\ output' \in {0, 1} /\ o.off <= Slack
  BY <1>5 DEF EchoSeen
<1>7. PICK high \in BOOLEAN : high = driving'
  BY <1>1, <1>2
<1> DEFINE w == WindowAt(gadget, high, now)
<1>8. gadget'.window = Pending(w, now) /\ gadget'.out = LevelIn(w, now)
  <2>1. PICK dt \in Nat : dt = now - mcuCycles
    BY <1>1, <1>4
  <2>2. gadget.elapsed + dt = now /\ gadget' = Updated(gadget, high, dt)
    BY <1>1, <1>2, <1>4, <1>7, <2>1
  <2>3. QED
    BY <2>2, RangefinderSolves
<1>9. owing' = IF gadget'.window \notin {gadget.window, NoWindow}
               THEN [o EXCEPT !.owed = @ + 1, !.meant = gadget'.window[2] - gadget'.window[1]] ELSE o
  BY <1>2
<1> HIDE DEF o
<1>10. SUFFICES owing' \in Owings /\ EchoStands(gadget', output', mcuCycles', owing')
  BY <1>6 DEF Levels
<1>11. CASE NoEcho(gadget, output', o)
  <2>1. gadget.window = NoWindow /\ output' = 0 /\ o.owed = 0
    BY <1>11 DEF NoEcho
  <2>2. CASE Answered(gadget, high, now)
    <3> DEFINE width == Lesser(sensed, Timeout)
    <3>1. width \in Nat /\ width > Slack
      BY <1>1, WidthsAreLong
    <3>2. w = <<now + Delay, now + Delay + width>>
      BY <2>2 DEF WindowAt
    <3> HIDE DEF width, w
    <3>3. w # NoWindow /\ w[1] = now + Delay /\ w[2] = now + Delay + width
      BY <1>1, <1>4, <3>1, <3>2 DEF NoWindow, NoTime
    <3>4. ~(now >= w[2])
      BY <1>1, <1>4, <3>1, <3>3
    <3>5. gadget'.window = w /\ gadget'.out = IF now >= w[1] THEN 1 ELSE 0
      BY <1>8, <3>3, <3>4 DEF Pending, LevelIn
    <3>6. w[2] - w[1] = width /\ o.owed + 1 = 1
      BY <1>1, <1>4, <2>1, <3>1, <3>3
    <3>7. owing' = [o EXCEPT !.owed = 1, !.meant = width]
      <4>1. owing' = [o EXCEPT !.owed = o.owed + 1, !.meant = w[2] - w[1]]
        BY <1>6, <1>9, <2>1, <3>3, <3>5 DEF Owings
      <4>2. QED
        BY <3>6, <4>1
    <3>8. owing' \in Owings /\ owing'.owed = 1 /\ owing'.meant = width /\ owing'.off = o.off
      BY <1>6, <3>1, <3>7 DEF Owings
    <3>9. Owed(gadget', owing')
      BY <1>1, <1>4, <3>1, <3>3, <3>5, <3>6, <3>8 DEF Owed
    <3>10. CASE now >= w[1]
      <4>1. gadget'.out = 1 /\ gadget'.window[1] <= now /\ now <= gadget'.window[1] + Longest - 1
        BY <1>1, <1>4, <3>3, <3>5, <3>10
      <4>2. EchoRaised(gadget', output', mcuCycles', owing')
        BY <1>2, <2>1, <3>9, <4>1 DEF EchoRaised
      <4>3. QED
        BY <1>6, <3>8, <4>2 DEF EchoStands
    <3>11. CASE ~(now >= w[1])
      <4>1. gadget'.out = 0 /\ now < gadget'.window[1]
        BY <1>1, <1>4, <3>3, <3>5, <3>11
      <4>2. EchoAhead(gadget', output', mcuCycles', owing')
        BY <1>2, <2>1, <3>9, <4>1 DEF EchoAhead
      <4>3. QED
        BY <1>6, <3>8, <4>2 DEF EchoStands
    <3>12. QED
      BY <3>10, <3>11
  <2>3. CASE ~Answered(gadget, high, now)
    <3>1. w = NoWindow
      BY <2>1, <2>3 DEF WindowAt
    <3>2. gadget'.window = NoWindow /\ gadget'.out = 0
      BY <1>8, <3>1 DEF Pending, LevelIn
    <3>3. owing' = o
      BY <1>9, <3>2
    <3>4. NoEcho(gadget', output', owing')
      BY <2>1, <3>2, <3>3 DEF NoEcho
    <3>5. QED
      BY <1>6, <3>3, <3>4 DEF EchoStands
  <2>4. QED
    BY <2>2, <2>3
<1>12. ASSUME Owed(gadget, o)
       PROVE  /\ w = gadget.window /\ w # NoWindow /\ owing' = o
              /\ w[1] \in Nat /\ w[2] \in Nat /\ o.meant = w[2] - w[1] /\ o.meant > Slack
  <2>1. /\ gadget.window[1] \in Nat /\ gadget.window[2] \in Nat
        /\ o.meant = gadget.window[2] - gadget.window[1] /\ o.meant > Slack
    BY <1>12 DEF Owed
  <2>2. gadget.window # NoWindow
    BY <2>1 DEF NoWindow, NoTime
  <2>3. w = gadget.window
    BY <2>2 DEF WindowAt, Answered, Triggered
  <2>4. owing' = o
    BY <1>8, <1>9, <2>3 DEF Pending
  <2>5. QED
    BY <2>1, <2>2, <2>3, <2>4
<1>13. CASE EchoAhead(gadget, output', mcuCycles, o)
  <2>1. /\ Owed(gadget, o) /\ output' = 0 /\ mcuCycles < gadget.window[1]
    BY <1>13 DEF EchoAhead
  <2>2. /\ w = gadget.window /\ w # NoWindow /\ owing' = o
        /\ w[1] \in Nat /\ w[2] \in Nat /\ o.meant = w[2] - w[1] /\ o.meant > Slack
    BY <1>12, <2>1
  <2> HIDE DEF w
  <2>3. NextEvent(mcuCycles) = w[1]
    BY <2>1, <2>2 DEF NextEvent
  <2>4. now <= w[1] + Longest - 1 /\ ~(now >= w[2])
    BY <1>1, <1>3, <1>4, <2>1, <2>2, <2>3
  <2>5. gadget'.window = w /\ gadget'.out = IF now >= w[1] THEN 1 ELSE 0
    BY <1>8, <2>2, <2>4 DEF Pending, LevelIn
  <2>6. Owed(gadget', owing')
    BY <2>1, <2>2, <2>5 DEF Owed
  <2>7. CASE now >= w[1]
    <3>1. EchoRaised(gadget', output', mcuCycles', owing')
      BY <1>2, <1>4, <2>1, <2>2, <2>4, <2>5, <2>6, <2>7 DEF EchoRaised
    <3>2. QED
      BY <1>6, <2>2, <3>1 DEF EchoStands
  <2>8. CASE ~(now >= w[1])
    <3>1. EchoAhead(gadget', output', mcuCycles', owing')
      BY <1>2, <1>4, <2>1, <2>2, <2>5, <2>6, <2>8 DEF EchoAhead
    <3>2. QED
      BY <1>6, <2>2, <3>1 DEF EchoStands
  <2>9. QED
    BY <2>7, <2>8
<1>14. CASE EchoHeard(gadget, output', mcuCycles, o)
  <2>1. /\ Owed(gadget, o) /\ output' = 1 /\ gadget.window[1] <= mcuCycles /\ mcuCycles < gadget.window[2]
        /\ o.rose \in Nat /\ gadget.window[1] <= o.rose /\ o.rose <= gadget.window[1] + Slack
    BY <1>14 DEF EchoHeard
  <2>2. /\ w = gadget.window /\ w # NoWindow /\ owing' = o
        /\ w[1] \in Nat /\ w[2] \in Nat /\ o.meant = w[2] - w[1] /\ o.meant > Slack
    BY <1>12, <2>1
  <2> HIDE DEF w
  <2>3. NextEvent(mcuCycles) = w[2]
    BY <1>1, <2>1, <2>2 DEF NextEvent
  <2>4. now <= w[2] + Longest - 1 /\ now >= w[1]
    BY <1>1, <1>3, <1>4, <2>1, <2>2, <2>3
  <2>5. CASE now >= w[2]
    <3>1. gadget'.window = NoWindow /\ gadget'.out = 0
      BY <1>8, <2>2, <2>5 DEF Pending, LevelIn
    <3>2. /\ w[2] <= now /\ now <= w[2] + Longest - 1
          /\ w[2] <= o.rose + o.meant /\ o.rose + o.meant <= w[2] + Slack
      BY <1>4, <2>1, <2>2, <2>4, <2>5
    <3>3. o.owed = 1
      BY <2>1 DEF Owed
    <3>4. EchoOver(gadget', output', mcuCycles', owing')
      BY <1>2, <2>1, <2>2, <3>1, <3>2, <3>3 DEF EchoOver
    <3>5. QED
      BY <1>6, <2>2, <3>4 DEF EchoStands
  <2>6. CASE ~(now >= w[2])
    <3>1. gadget'.window = w /\ gadget'.out = 1
      BY <1>8, <2>2, <2>4, <2>6 DEF Pending, LevelIn
    <3>2. Owed(gadget', owing')
      BY <2>1, <2>2, <3>1 DEF Owed
    <3>3. EchoHeard(gadget', output', mcuCycles', owing')
      BY <1>2, <1>4, <2>1, <2>2, <2>4, <2>6, <3>1, <3>2 DEF EchoHeard
    <3>4. QED
      BY <1>6, <2>2, <3>3 DEF EchoStands
  <2>7. QED
    BY <2>5, <2>6
<1>15. QED
  BY <1>5, <1>11, <1>13, <1>14 DEF EchoSeen

-------------------------------------------------------------------------------
(* The servo.  Turning for one time and then for another is turning for both.  *)

LEMMA TowardComposes ==
    ASSUME NEW from \in Nat, NEW to \in Nat, NEW m \in Nat, NEW n \in Nat
    PROVE  /\ Toward(from, to, m) \in Nat
           /\ Toward(Toward(from, to, m), to, n) = Toward(from, to, m + n)
           /\ Toward(from, from, m) = from
BY DEF Toward, Lesser

LEMMA SlewsAdd ==
    ASSUME NEW a \in Nat, NEW b \in Nat
    PROVE  Slew * a \in Nat /\ Slew * a + Slew * b = Slew * (a + b)
BY PartBehaviorAssumption

(* What a commit finds on the pin.                                             *)
LEMMA PinIsRead ==
    ASSUME PartInv, PinIsFollowed, NEW now \in Nat, NEW high \in BOOLEAN, mcuCycles < now
    PROVE  /\ FellAfter(gadget, high, now) = IF driving /\ ~high THEN now - roseAt ELSE NoTime
           /\ Followed(gadget, high, now).since
                = IF high THEN IF driving THEN gadget.since ELSE now
                  ELSE IF driving THEN NoTime ELSE gadget.since
<1>1. gadget \in Gadgets /\ driving \in BOOLEAN /\ gadget.last = driving
  BY DEF PartInv, PartTypeOK, PinIsFollowed
<1>2. driving => gadget.since = roseAt /\ gadget.since # NoTime
  BY DEF PinIsFollowed, NoTime
<1>3. Followed(gadget, high, now).since
        = IF high /\ ~gadget.last THEN now ELSE IF ~high /\ gadget.last THEN NoTime ELSE gadget.since
  BY <1>1, FollowedFields
<1>4. QED
  BY <1>1, <1>2, <1>3 DEF FellAfter

(* What the step that runs to the next solve does, with its choices named.     *)
SolveReached(now, changed, high, dt) ==
    /\ now \in Nat /\ changed \in BOOLEAN /\ high \in BOOLEAN /\ dt \in Nat
    /\ mcuCycles < now /\ dt = now - mcuCycles /\ gadget.elapsed + dt = now
    /\ mcuCycles' = now /\ driving' = high /\ high = (driving # changed)
    /\ roseAt' = IF high /\ changed THEN now ELSE roseAt
    /\ gadget' = Updated(gadget, high, dt)
    /\ output' = OnWire /\ servo' = Ordered(now)

LEMMA RunsReachASolve ==
    ASSUME PartInv, RunToSolve
    PROVE  \E now \in Nat, changed \in BOOLEAN, high \in BOOLEAN, dt \in Nat : SolveReached(now, changed, high, dt)
<1>1. /\ mcuCycles \in Nat /\ gadget \in Gadgets /\ gadget.elapsed = mcuCycles
      /\ driving \in BOOLEAN /\ Longest \in Nat
  BY PartBehaviorAssumption DEF PartInv, PartTypeOK
<1>2. PICK now \in (mcuCycles + 1) .. (Checkpoint0 + Longest - 1), changed \in BOOLEAN :
          /\ mcuCycles' = now
          /\ driving' = (driving # changed)
          /\ roseAt' = IF driving' /\ changed THEN now ELSE roseAt
          /\ output' = OnWire
          /\ gadget' = Updated(gadget, driving', now - mcuCycles)
          /\ servo' = Ordered(now)
  BY DEF RunToSolve
<1>3. Checkpoint0 \in Nat
  BY CheckpointIsNear DEF RunToSolve
<1>4. PICK high \in BOOLEAN : high = driving'
  BY <1>1, <1>2
<1>5. now \in Nat /\ mcuCycles < now
  BY <1>1, <1>3
<1>6. PICK dt \in Nat : dt = now - mcuCycles /\ gadget.elapsed + dt = now
  BY <1>1, <1>5
<1>7. SolveReached(now, changed, high, dt)
  <2>1. gadget' = Updated(gadget, high, dt)
    BY <1>2, <1>4, <1>6
  <2>2. roseAt' = IF high /\ changed THEN now ELSE roseAt
    BY <1>2, <1>4
  <2>3. QED
    BY <1>2, <1>4, <1>5, <1>6, <2>1, <2>2 DEF SolveReached
<1>8. QED
  BY <1>5, <1>7

LEMMA PinStaysFollowed ==
    ASSUME PartInv, PinIsFollowed, NEW now, NEW changed, NEW high, NEW dt, SolveReached(now, changed, high, dt),
           gadget'.last = high, gadget'.since = Followed(gadget, high, now).since
    PROVE  PinIsFollowed'
<1>1. driving \in BOOLEAN /\ mcuCycles \in Nat
  BY DEF PartInv, PartTypeOK
<1>2. /\ now \in Nat /\ changed \in BOOLEAN /\ high \in BOOLEAN /\ mcuCycles < now /\ mcuCycles' = now
      /\ driving' = high /\ high = (driving # changed)
      /\ roseAt' = IF high /\ changed THEN now ELSE roseAt
  BY DEF SolveReached
<1>3. gadget'.since = IF high THEN IF driving THEN gadget.since ELSE now
                      ELSE IF driving THEN NoTime ELSE gadget.since
  BY <1>2, PinIsRead
<1>4. ASSUME high
      PROVE  roseAt' \in Nat /\ roseAt' <= now /\ gadget'.since = roseAt'
  <2>1. CASE changed
    <3>1. ~driving
      BY <1>1, <1>2, <1>4, <2>1
    <3>2. gadget'.since = now
      BY <1>3, <1>4, <3>1, Zenon
    <3>3. roseAt' = now
      BY <1>2, <1>4, <2>1, Zenon
    <3>4. QED
      BY <1>2, <3>2, <3>3
  <2>2. CASE ~changed
    <3>1. driving
      BY <1>1, <1>2, <1>4, <2>2
    <3>2. roseAt \in Nat /\ roseAt <= mcuCycles /\ gadget.since = roseAt
      BY <3>1 DEF PinIsFollowed
    <3>3. gadget'.since = gadget.since
      BY <1>3, <1>4, <3>1, Zenon
    <3>4. roseAt' = roseAt
      BY <1>2, <2>2, Zenon
    <3>5. QED
      BY <1>1, <1>2, <3>2, <3>3, <3>4
  <2>3. QED
    BY <1>2, <2>1, <2>2
<1>5. QED
  BY <1>2, <1>4 DEF PinIsFollowed

LEMMA SolveTurnsTheServo ==
    ASSUME PartInv, conduct = "pwm-actuator", conduct' = conduct, RunToSolve
    PROVE  /\ gadget' \in Gadgets /\ gadget'.elapsed = mcuCycles' /\ PinIsFollowed'
           /\ servo' \in [at : Nat, from : Nat, to : Nat] /\ ServoStands'
<1>1. /\ mcuCycles \in Nat /\ gadget \in Gadgets /\ driving \in BOOLEAN
      /\ servo \in [at : Nat, from : Nat, to : Nat] /\ servo.at \in Nat /\ servo.from \in Nat /\ servo.to \in Nat
      /\ gadget.actual \in Nat /\ gadget.commanded \in Times
      /\ PinIsFollowed /\ ServoStands
  BY DEF PartInv, PartTypeOK, Gadgets
<1>2. PICK now \in Nat, changed \in BOOLEAN, high \in BOOLEAN, dt \in Nat : SolveReached(now, changed, high, dt)
  BY RunsReachASolve
<1>3. /\ mcuCycles < now /\ dt = now - mcuCycles /\ gadget.elapsed + dt = now
      /\ mcuCycles' = now /\ driving' = high /\ gadget' = Updated(gadget, high, dt)
      /\ servo' = Ordered(now)
  BY <1>2 DEF SolveReached
<1>4. PICK u : u = gadget'
  OBVIOUS
<1>5. PICK width : width = FellAfter(gadget, high, now)
  OBVIOUS
<1>6. /\ u \in Gadgets /\ u.last = high /\ u.elapsed = now
      /\ u.since = Followed(gadget, high, now).since
      /\ u.commanded = IF InWindow(width) THEN PositionAt(width) ELSE gadget.commanded
      /\ u.actual = IF u.commanded = NoTime THEN gadget.actual
                    ELSE Toward(gadget.actual, u.commanded, Slew * dt)
  <2>1. u = Updated(gadget, high, dt) /\ now = gadget.elapsed + dt
    BY <1>3, <1>4
  <2>2. QED
    BY <1>1, <1>5, <2>1, ServoUpdates
<1>7. gadget' \in Gadgets /\ gadget'.elapsed = mcuCycles' /\ PinIsFollowed'
  BY <1>1, <1>2, <1>3, <1>4, <1>6, PinStaysFollowed
<1>8. width = IF driving /\ ~high THEN now - roseAt ELSE NoTime
  BY <1>1, <1>3, <1>5, PinIsRead
<1>9. /\ servo.at <= mcuCycles
      /\ gadget.actual = Toward(servo.from, servo.to, Slew * (mcuCycles - servo.at))
      /\ IF gadget.commanded = NoTime THEN servo.from = 0 /\ servo.to = 0 ELSE servo.to = gadget.commanded
  BY <1>1 DEF ServoStands
<1>10. CASE driving /\ ~high /\ InWindow(now - roseAt)
  <2>1. width = now - roseAt /\ InWindow(width) /\ width \in Int
    BY <1>1, <1>3, <1>8, <1>10 DEF PinIsFollowed
  <2> DEFINE position == PositionAt(width)
  <2>2. position \in Nat /\ position # NoTime
    BY <2>1 DEF PositionAt, Clamp, Lesser, NoTime
  <2>3. servo' = [at |-> mcuCycles, from |-> gadget.actual, to |-> position]
    BY <1>3, <1>10, <2>1 DEF Ordered
  <2>4. u.commanded = position
    BY <1>6, <2>1
  <2> HIDE DEF position
  <2>5. /\ servo' \in [at : Nat, from : Nat, to : Nat]
        /\ servo'.at = mcuCycles /\ servo'.from = gadget.actual /\ servo'.to = position
    BY <1>1, <2>2, <2>3
  <2>6. u.actual = Toward(gadget.actual, position, Slew * (now - mcuCycles))
    BY <1>3, <1>6, <2>2, <2>4
  <2>7. ServoStands'
    BY <1>1, <1>3, <1>4, <2>2, <2>4, <2>5, <2>6 DEF ServoStands
  <2>8. QED
    BY <1>7, <2>5, <2>7
<1>11. CASE ~(driving /\ ~high /\ InWindow(now - roseAt))
  <2>1. servo' = servo
    BY <1>3, <1>11 DEF Ordered
  <2>2. ~InWindow(width)
    BY <1>8, <1>11 DEF InWindow
  <2>3. u.commanded = gadget.commanded
    BY <1>6, <2>2
  <2> DEFINE a == mcuCycles - servo.at
  <2>4. a \in Nat /\ now - servo.at = a + dt /\ servo.at <= now
    BY <1>1, <1>3, <1>9
  <2>5. Slew * a \in Nat /\ Slew * dt \in Nat /\ Slew * a + Slew * dt = Slew * (now - servo.at)
    BY <2>4, SlewsAdd
  <2>6. u.actual = Toward(servo.from, servo.to, Slew * (now - servo.at))
    <3>1. CASE gadget.commanded = NoTime
      <4>1. u.actual = Toward(0, 0, Slew * a) /\ servo.from = 0 /\ servo.to = 0
        BY <1>6, <1>9, <2>3, <3>1
      <4>2. Slew * (now - servo.at) \in Nat
        BY <2>5
      <4>3. Toward(0, 0, Slew * a) = 0 /\ Toward(0, 0, Slew * (now - servo.at)) = 0
        BY <2>5, <4>2, TowardComposes
      <4>4. QED
        BY <4>1, <4>3
    <3>2. CASE gadget.commanded # NoTime
      <4>1. u.actual = Toward(Toward(servo.from, servo.to, Slew * a), servo.to, Slew * dt)
        BY <1>6, <1>9, <2>3, <3>2
      <4>2. PICK m \in Nat, n \in Nat : m = Slew * a /\ n = Slew * dt
        BY <2>5
      <4>3. Toward(Toward(servo.from, servo.to, m), servo.to, n) = Toward(servo.from, servo.to, m + n)
        BY <1>1, TowardComposes
      <4>4. m + n = Slew * (now - servo.at)
        BY <2>5, <4>2
      <4>5. QED
        BY <4>1, <4>2, <4>3, <4>4
    <3>3. QED
      BY <3>1, <3>2
  <2>7. ServoStands'
    BY <1>3, <1>4, <1>9, <2>1, <2>3, <2>4, <2>6 DEF ServoStands
  <2>8. QED
    BY <1>1, <1>7, <2>1, <2>7
<1>12. QED
  BY <1>10, <1>11

-------------------------------------------------------------------------------
(* The theorem.                                                                *)

LEMMA PartInitEstablishes == ASSUME PartInit PROVE PartInv
<1>1. gadget = Cleared0
  BY DEF PartInit
<1>2. gadget \in Gadgets
  BY <1>1 DEF Cleared0, Gadgets, Levels, Windows, Times, NoWindow, NoTime, Released
<1>3. /\ gadget.elapsed = 0 /\ gadget.last = FALSE /\ gadget.window = NoWindow /\ gadget.out = Released
      /\ gadget.commanded = NoTime /\ gadget.actual = 0
  BY <1>1 DEF Cleared0
<1>4. /\ owing = [owed |-> 0, meant |-> 0, off |-> 0, rose |-> NoTime]
      /\ servo = [at |-> 0, from |-> 0, to |-> 0]
  BY DEF PartInit
<1>5. owing \in [owed : Nat, meant : Nat, off : Nat, rose : Times] /\ owing.owed = 0 /\ owing.off = 0
  BY <1>4 DEF Times, NoTime
<1>6. /\ servo \in [at : Nat, from : Nat, to : Nat] /\ servo.at = 0 /\ servo.from = 0 /\ servo.to = 0
  BY <1>4
<1>7. PartTypeOK
  BY <1>2, <1>3, <1>5, <1>6 DEF PartInit, PartTypeOK, Levels, Times, NoTime
<1>8. PinIsFollowed
  BY <1>3 DEF PartInit, PinIsFollowed
<1>9. EchoStands(gadget, output, mcuCycles, owing)
  BY <1>3, <1>5, SlackIsPositive DEF PartInit, EchoStands, NoEcho
<1>10. ServoStands
  <2>1. Slew * 0 \in Nat
    BY PartBehaviorAssumption
  <2>2. Toward(0, 0, Slew * (0 - 0)) = 0
    BY <2>1, TowardComposes
  <2>3. QED
    BY <1>3, <1>6, <2>2 DEF PartInit, ServoStands
<1>11. QED
  BY <1>7, <1>8, <1>9, <1>10 DEF PartInv

LEMMA FrameKeepsThePart == ASSUME PartInv, BeginFrame PROVE PartInv'
<1>1. /\ until' = mcuCycles + Frame /\ sensed' \in Measured' /\ output' = OnWire /\ owing' = Watched(mcuCycles)
      /\ UNCHANGED <<conduct, mcuCycles, driving, gadget, roseAt, servo>>
  BY DEF BeginFrame, Measured
<1>2. PartTypeOK
  BY DEF PartInv
<1>3. owing' \in Owings /\ output' \in Levels /\ (conduct = "pulse-echo" => EchoStands(gadget, output', mcuCycles, owing'))
  <2>1. CASE conduct = "pulse-echo"
    BY <2>1, FrameKeepsTheEcho
  <2>2. CASE conduct # "pulse-echo"
    <3>1. owing' = owing /\ output' \in Levels
      BY <1>1, <1>2, <2>2 DEF Watched, OnWire, PartTypeOK, Gadgets, Levels
    <3>2. QED
      BY <1>2, <2>2, <3>1 DEF PartTypeOK, Owings
  <2>3. QED
    BY <2>1, <2>2
<1>4. PartTypeOK'
  BY <1>1, <1>2, <1>3, PartBehaviorAssumption DEF PartTypeOK, Owings
<1>5. (conduct \in {"pulse-echo", "pwm-actuator"} => PinIsFollowed)'
  BY <1>1 DEF PartInv, PinIsFollowed
<1>6. (conduct = "pulse-echo" => EchoStands(gadget, output, mcuCycles, owing))'
  <2>1. ASSUME conduct' = "pulse-echo"
        PROVE  EchoStands(gadget', output', mcuCycles', owing')
    <3>1. EchoStands(gadget, output', mcuCycles, owing')
      BY <1>1, <1>3, <2>1
    <3>2. QED
      BY <1>1, <3>1
  <2>2. QED
    BY <2>1
<1>7. (conduct = "pwm-actuator" => ServoStands)'
  BY <1>1 DEF PartInv, ServoStands
<1>8. QED
  BY <1>4, <1>5, <1>6, <1>7 DEF PartInv

LEMMA SolveKeepsThePart == ASSUME PartInv, RunToSolve PROVE PartInv'
<1>1. PartTypeOK
  BY DEF PartInv
<1>2. /\ UNCHANGED <<conduct, until, sensed>> /\ Measured' = Measured
  BY DEF RunToSolve, Measured
<1>3. PICK now \in Nat, changed \in BOOLEAN, high \in BOOLEAN, dt \in Nat : SolveReached(now, changed, high, dt)
  BY RunsReachASolve
<1>4. /\ mcuCycles < now /\ gadget.elapsed + dt = now /\ mcuCycles' = now /\ driving' = high
      /\ gadget' = Updated(gadget, high, dt) /\ roseAt' = (IF high /\ changed THEN now ELSE roseAt)
      /\ output' = OnWire /\ servo' = Ordered(now)
  BY <1>3 DEF SolveReached
<1>5. /\ mcuCycles' \in Nat /\ until' \in Nat /\ driving' \in BOOLEAN /\ sensed' \in Measured'
      /\ output' \in Levels /\ roseAt' \in Times
      /\ conduct' \in {"analog-sensor", "threshold-switch", "pulse-echo", "pwm-actuator"}
  BY <1>1, <1>2, <1>3, <1>4 DEF PartTypeOK, OnWire, Gadgets, Levels, Times
<1>6. conduct # "pulse-echo" => owing' = owing
  BY DEF RunToSolve, Watched
<1>7. conduct # "pwm-actuator" => servo' = servo
  BY <1>4 DEF Ordered
<1>8. CASE conduct = "pulse-echo"
  <2>1. owing' \in Owings /\ EchoStands(gadget', output', mcuCycles', owing')
    BY <1>8, SolveKeepsTheEcho
  <2>2. gadget' \in Gadgets /\ gadget'.last = high /\ gadget'.elapsed = now
        /\ gadget'.since = Followed(gadget, high, now).since
    BY <1>1, <1>3, <1>4, <1>8, RangefinderSolves
  <2>3. PinIsFollowed'
    BY <1>3, <1>8, <2>2, PinStaysFollowed DEF PartInv
  <2>4. PartTypeOK'
    BY <1>1, <1>4, <1>5, <1>7, <1>8, <2>1, <2>2 DEF PartTypeOK, Owings
  <2>5. conduct' = "pulse-echo"
    BY <1>2, <1>8
  <2>6. QED
    BY <2>1, <2>3, <2>4, <2>5 DEF PartInv
<1>9. CASE conduct = "pwm-actuator"
  <2>1. /\ gadget' \in Gadgets /\ gadget'.elapsed = mcuCycles' /\ PinIsFollowed'
        /\ servo' \in [at : Nat, from : Nat, to : Nat] /\ ServoStands'
    BY <1>2, <1>9, SolveTurnsTheServo
  <2>2. PartTypeOK'
    BY <1>1, <1>5, <1>6, <1>9, <2>1 DEF PartTypeOK
  <2>3. conduct' = "pwm-actuator"
    BY <1>2, <1>9
  <2>4. QED
    BY <2>1, <2>2, <2>3 DEF PartInv
<1>10. CASE conduct \in {"analog-sensor", "threshold-switch"}
  <2>1. sensed \in Nat /\ gadget \in Gadgets
    BY <1>1, PartBehaviorAssumption DEF PartTypeOK, Measured
  <2>2. gadget' \in Gadgets /\ gadget'.elapsed = now
    BY <1>3, <1>4, <1>10, <2>1, OthersUpdate
  <2>3. PartTypeOK'
    BY <1>1, <1>4, <1>5, <1>6, <1>7, <1>10, <2>2 DEF PartTypeOK
  <2>4. conduct' \in {"analog-sensor", "threshold-switch"}
    BY <1>2, <1>10
  <2>5. QED
    BY <2>3, <2>4 DEF PartInv
<1>11. QED
  BY <1>1, <1>8, <1>9, <1>10 DEF PartTypeOK

LEMMA PartInvImplies == ASSUME PartInv PROVE PartBehaves
<1>1. gadget.elapsed = mcuCycles
  BY DEF PartInv, PartTypeOK
<1>2. EchoIsMeasured
  <2>1. SUFFICES ASSUME conduct = "pulse-echo"
                 PROVE  /\ owing.owed \in {0, 1} /\ owing.off <= Slack
                        /\ owing.owed = 0 <=> gadget.window = NoWindow /\ gadget.out # 1 /\ output # 1
    BY DEF EchoIsMeasured
  <2>2. EchoStands(gadget, output, mcuCycles, owing)
    BY <2>1 DEF PartInv
  <2>3. gadget.window[1] \in Nat => gadget.window # NoWindow
    BY DEF NoWindow, NoTime
  <2>4. QED
    BY <2>2, <2>3 DEF EchoStands, NoEcho, EchoAhead, EchoRaised, EchoHeard, EchoOver, Owed, Released
<1>3. ServoFollows
  BY DEF PartInv, ServoStands, ServoFollows
<1>4. QED
  BY <1>1, <1>2, <1>3 DEF PartBehaves

(* Every manifest behaviour that takes time keeps to its data sheet however    *)
(* the solves fall: what ManifestDevice.updateBehavior does at the instants    *)
(* Board.runFor stops at.                                                      *)
THEOREM PartsKeepTime == PartSpec => []PartBehaves
<1>1. PartInit => PartInv
  BY PartInitEstablishes
<1>2. PartInv /\ [PartNext]_partVars => PartInv'
  <2>1. SUFFICES ASSUME PartInv, [PartNext]_partVars PROVE PartInv'
    OBVIOUS
  <2>2. CASE BeginFrame
    BY <2>1, <2>2, FrameKeepsThePart
  <2>3. CASE RunToSolve
    BY <2>1, <2>3, SolveKeepsThePart
  <2>4. CASE UNCHANGED partVars
    BY <2>1, <2>4 DEF partVars, PartInv, PartTypeOK, PinIsFollowed, ServoStands, Measured, EchoStands,
       NoEcho, EchoAhead, EchoRaised, EchoHeard, EchoOver, Owed
  <2>5. QED
    BY <2>1, <2>2, <2>3, <2>4 DEF PartNext
<1>3. PartInv => PartBehaves
  BY PartInvImplies
<1>4. QED
  BY <1>1, <1>2, <1>3, PTL DEF PartSpec

-------------------------------------------------------------------------------
(* The solver, for any ladders and any number of solves.                       *)

SolverInv ==
    /\ method \in {"none", "direct", "gmin", "source", "failed"}
    /\ latched \in {Proper, AtRest}
    /\ method \notin {"gmin", "source"} => gmin = Normal /\ scale = Full
    /\ method = "gmin" => scale = Full
    /\ method = "source" => gmin = Normal
    /\ method = "none" => answer \in {Proper, AtRest}

(* What is found with the leak and the supply as they should be.               *)
LEMMA FoundAsDrawn ==
    ASSUME Found, gmin = Normal, scale = Full
    PROVE  answer' = Proper
BY DEF Found, Proper

LEMMA ReturnIsProper ==
    ASSUME SolverInv, Found, gmin = Normal, scale = Full, Return,
           gmin' = Normal, scale' = Full
    PROVE  SolverInv'
<1>1. answer' = Proper
  BY FoundAsDrawn
<1>2. method' = "none" /\ latched' \in {answer', latched}
  BY DEF Return
<1>3. QED
  BY <1>1, <1>2 DEF SolverInv, Proper, AtRest

LEMMA SolverKeeps ==
    ASSUME SolverInv, SolverNext
    PROVE  SolverInv'
<1>1. Solving <=> method \in {"direct", "gmin", "source"}
  BY DEF Solving
<1>2. CASE Solve
  BY <1>1, <1>2 DEF Solve, SolverInv, Proper, AtRest
<1>3. CASE Direct
  <2>1. method = "direct" /\ gmin = Normal /\ scale = Full /\ scale' = Full
    BY <1>3 DEF Direct, SolverInv
  <2>2. CASE Found /\ Return /\ UNCHANGED gmin
    BY <2>1, <2>2, ReturnIsProper
  <2>3. CASE method' = "gmin" /\ UNCHANGED latched
    BY <2>1, <2>3 DEF SolverInv, Proper, AtRest
  <2>4. QED
    BY <1>3, <2>2, <2>3 DEF Direct
<1>4. CASE GminStepping
  <2>1. method = "gmin" /\ scale = Full
    BY <1>4 DEF GminStepping, SolverInv
  <2>2. CASE UNCHANGED <<method, scale, latched>>
    BY <2>1, <2>2 DEF SolverInv, Proper, AtRest
  <2>3. CASE Found /\ gmin = Normal /\ Return /\ UNCHANGED <<gmin, scale>>
    BY <2>1, <2>3, ReturnIsProper
  <2>4. CASE method' = "source" /\ gmin' = Normal /\ latched' = AtRest
    BY <2>4 DEF SolverInv, Proper, AtRest
  <2>5. QED
    BY <1>4, <2>2, <2>3, <2>4 DEF GminStepping
<1>5. CASE SourceStepping
  <2>1. method = "source" /\ gmin = Normal /\ gmin' = Normal
    BY <1>5 DEF SourceStepping, SolverInv
  <2>2. CASE UNCHANGED <<method, latched>>
    BY <2>1, <2>2 DEF SolverInv, Proper, AtRest
  <2>3. CASE Found /\ scale = Full /\ Return /\ UNCHANGED scale
    BY <2>1, <2>3, ReturnIsProper
  <2>4. CASE method' = "failed" /\ scale' = Full /\ UNCHANGED latched
    BY <2>1, <2>4 DEF SolverInv, Proper, AtRest
  <2>5. QED
    BY <1>5, <2>2, <2>3, <2>4 DEF SourceStepping
<1>6. CASE Discontinuity
  BY <1>6 DEF Discontinuity, SolverInv, Proper, AtRest
<1>7. CASE ResetCircuit
  BY <1>7 DEF ResetCircuit, SolverInv, Proper, AtRest
<1>8. QED
  BY <1>2, <1>3, <1>4, <1>5, <1>6, <1>7 DEF SolverNext

(* Whichever of its three methods Circuit.solve needed, what it leaves behind   *)
(* is of the circuit as drawn, and the next solve starts from it.              *)
THEOREM SolverLeavesNoTrace == SolverSpec => []AnswersAreOfTheRealCircuit
<1>1. SolverInit => SolverInv
  BY DEF SolverInit, SolverInv, AtRest, Proper
<1>2. SolverInv /\ [SolverNext]_solverVars => SolverInv'
  <2>1. SolverInv /\ UNCHANGED solverVars => SolverInv'
    BY DEF SolverInv, solverVars, AtRest, Proper
  <2>2. QED
    BY <2>1, SolverKeeps
<1>3. SolverInv => AnswersAreOfTheRealCircuit
  BY DEF SolverInv, AnswersAreOfTheRealCircuit, Solving
<1>4. QED
  BY <1>1, <1>2, <1>3, PTL DEF SolverSpec

-------------------------------------------------------------------------------
(* The fuse of a meter, whatever the circuit around it pushes.                 *)

MeterInv ==
    /\ jack \in {"mA", "A"} /\ push \in Int /\ blown \in BOOLEAN /\ overloaded \in BOOLEAN
    /\ blown = overloaded

LEMMA ShuntReadsTheCurrent ==
    ASSUME NEW j \in {"mA", "A"}, NEW n \in Int
    PROVE  (n * ShuntOhms[j]) \div ShuntOhms[j] = n
<1>1. CASE j = "mA"
  <2>1. ShuntOhms[j] = 100 /\ (n * 100) \div 100 = n
    BY <1>1 DEF ShuntOhms
  <2>2. QED
    BY <2>1
<1>2. CASE j = "A"
  <2>1. ShuntOhms[j] = 1 /\ (n * 1) \div 1 = n
    BY <1>2 DEF ShuntOhms
  <2>2. QED
    BY <2>1
<1>3. QED
  BY <1>1, <1>2

LEMMA StepDecidesTheFuse ==
    ASSUME MeterInv, MeterStep
    PROVE  MeterInv'
<1>1. /\ flowing' = (IF blown THEN 0 ELSE push) /\ drop' = push * ShuntOhms[jack]
      /\ overloaded' = (overloaded \/ Strength(flowing') > FuseAmps[jack])
      /\ UNCHANGED <<jack, push>>
  BY DEF MeterStep, Settled
<1> DEFINE amps == IF blown THEN 0 ELSE drop' \div ShuntOhms[jack]
<1>2. blown' = (blown \/ Strength(amps) > FuseAmps[jack])
  BY DEF MeterStep, Update
<1>3. amps = flowing'
  <2>1. (push * ShuntOhms[jack]) \div ShuntOhms[jack] = push
    BY ShuntReadsTheCurrent DEF MeterInv
  <2>2. QED
    BY <1>1, <2>1
<1> HIDE DEF amps
<1>4. blown' = overloaded' /\ blown' \in BOOLEAN /\ overloaded' \in BOOLEAN
  BY <1>1, <1>2, <1>3, Zenon DEF MeterInv
<1>5. jack' \in {"mA", "A"} /\ push' \in Int
  BY <1>1 DEF MeterInv
<1>6. QED
  BY <1>4, <1>5 DEF MeterInv

(* Whatever solver, dial and jack do in between, no fuse of an ammeter goes    *)
(* but in a committed step that overloads it (Shunt.update), and it always     *)
(* goes then.                                                                  *)
THEOREM FusesGoOnceOverloaded == MetersSpec => []FuseGoesOnceOverloaded
<1>1. MetersInit => MeterInv
  BY MetersAssumption DEF MetersInit, MeterInv
<1>2. MeterInv /\ [MetersNext]_meterVars => MeterInv'
  <2>1. SUFFICES ASSUME MeterInv, [MetersNext]_meterVars PROVE MeterInv'
    OBVIOUS
  <2>2. CASE MeterStep
    BY <2>1, <2>2, StepDecidesTheFuse
  <2>3. CASE MeterOperatingPoint
    <3>1. blown' = (blown \/ FALSE) /\ UNCHANGED <<jack, push, overloaded>>
      BY <2>3, Zenon DEF MeterOperatingPoint, Update
    <3>2. QED
      BY <2>1, <3>1 DEF MeterInv
  <2>4. CASE Rewire
    BY <2>1, <2>4, MetersAssumption DEF Rewire, MeterInv
  <2>5. CASE RebuildMeter
    BY <2>1, <2>5 DEF RebuildMeter, MeterInv
  <2>6. CASE ResetMeter
    BY <2>1, <2>6 DEF ResetMeter, MeterInv
  <2>7. CASE UNCHANGED meterVars
    BY <2>1, <2>7 DEF meterVars, MeterInv
  <2>8. QED
    BY <2>1, <2>2, <2>3, <2>4, <2>5, <2>6, <2>7 DEF MetersNext
<1>3. MeterInv => FuseGoesOnceOverloaded
  BY DEF MeterInv, FuseGoesOnceOverloaded
<1>4. QED
  BY <1>1, <1>2, <1>3, PTL DEF MetersSpec

-------------------------------------------------------------------------------
(* From what is drawn to circuit nodes.                                        *)

LEMMA LeastNumber ==
    ASSUME NEW T, T \subseteq Nat, T # {}
    PROVE  \E x \in T : \A y \in T : x <= y
<1> DEFINE R == OpToRel(<, Nat)
<1>1. \A i, j \in Nat : i < j => <<i, j>> \in R
  BY DEF OpToRel
<1>2. IsWellFoundedOn(R, Nat)
  BY NatLessThanWellFounded
<1> HIDE DEF R
<1>3. PICK x \in T : \A y \in T : <<y, x>> \notin R
  BY <1>2, WFMin
<1>4. \A y \in T : ~(y < x)
  BY <1>1, <1>3
<1> QED
  BY <1>4

-------------------------------------------------------------------------------
(* The forest.  R takes every terminal to the root of its tree; rank falls on  *)
(* the way there, so that every way ends.                                      *)
Falls(f, D, R, rank) ==
    \A u \in D : f.parent[u] # u => rank[f.parent[u]] < rank[u] /\ rank[R[u]] < rank[u]

RootedBy(f, D, R) ==
    /\ f \in [parent : [D -> D], size : [D -> Nat]]
    /\ R \in [D -> D]
    /\ \A u \in D : R[u] = IF f.parent[u] = u THEN u ELSE R[f.parent[u]]
    /\ \A u \in D : f.parent[R[u]] = R[u]
    /\ \E rank \in [D -> Nat] : Falls(f, D, R, rank)

(* The recursive functions behind Root and Compressed.                         *)
Climb(f) == CHOOSE g : g = [u \in DOMAIN f.parent |-> IF f.parent[u] = u THEN u ELSE g[f.parent[u]]]
Way(f) == CHOOSE g : g = [u \in DOMAIN f.parent |-> {u} \cup (IF f.parent[u] = u THEN {} ELSE g[f.parent[u]])]

LEMMA RootIsClimbed == ASSUME NEW f, NEW t PROVE Root(f, t) = Climb(f)[t]
BY DEF Root, Climb

LEMMA CompressedByWay ==
    ASSUME NEW f, NEW t
    PROVE  Compressed(f, t) =
              [f EXCEPT !.parent = [u \in DOMAIN f.parent |-> IF u \in Way(f)[t] THEN Root(f, t) ELSE f.parent[u]]]
BY DEF Compressed, Way

(* What a terminal whose rank is least among the exceptions would be.          *)
LEMMA LeastRanked ==
    ASSUME NEW D, NEW rank \in [D -> Nat], NEW Bad, Bad \subseteq D, Bad # {}
    PROVE  \E u \in Bad : \A v \in Bad : rank[u] <= rank[v]
<1> DEFINE T == {rank[u] : u \in Bad}
<1>1. T \subseteq Nat /\ T # {}
  OBVIOUS
<1>2. PICK n \in T : \A m \in T : n <= m
  <2> HIDE DEF T
  <2> QED
    BY <1>1, LeastNumber
<1> QED
  BY <1>2

LEMMA RootIsTheRoot ==
    ASSUME NEW f, NEW D, NEW R, RootedBy(f, D, R), NEW t \in D
    PROVE  Root(f, t) = R[t]
<1>1. DOMAIN f.parent = D /\ R \in [D -> D] /\ f.parent \in [D -> D]
  BY DEF RootedBy
<1>2. R = [u \in DOMAIN f.parent |-> IF f.parent[u] = u THEN u ELSE R[f.parent[u]]]
  BY <1>1 DEF RootedBy
<1>3. Climb(f) = [u \in DOMAIN f.parent |-> IF f.parent[u] = u THEN u ELSE Climb(f)[f.parent[u]]]
  BY <1>2 DEF Climb
<1>4. PICK rank \in [D -> Nat] : Falls(f, D, R, rank)
  BY DEF RootedBy
<1> DEFINE C == Climb(f)
           Bad == {u \in D : C[u] # R[u]}
<1>5. \A u \in D : C[u] = IF f.parent[u] = u THEN u ELSE C[f.parent[u]]
  BY <1>1, <1>3
<1>6. ASSUME Bad # {} PROVE FALSE
  <2>1. PICK u \in Bad : \A v \in Bad : rank[u] <= rank[v]
    BY <1>4, <1>6, LeastRanked
  <2>2. f.parent[u] # u
    BY <1>2, <1>1, <1>5, <2>1
  <2>3. f.parent[u] \in D /\ rank[f.parent[u]] < rank[u]
    BY <1>1, <1>4, <2>1, <2>2 DEF Falls
  <2>4. f.parent[u] \notin Bad
    BY <1>4, <2>1, <2>3
  <2> QED
    BY <1>1, <1>2, <1>5, <2>1, <2>2, <2>3, <2>4
<1> QED
  BY <1>6, RootIsClimbed

(* Whatever is on the way to the root has the same root.                       *)
LEMMA WayStaysInTheTree ==
    ASSUME NEW f, NEW D, NEW R, RootedBy(f, D, R), NEW t \in D, NEW w \in Way(f)[t]
    PROVE  w \in D /\ R[w] = R[t]
<1>1. DOMAIN f.parent = D /\ R \in [D -> D] /\ f.parent \in [D -> D]
  BY DEF RootedBy
<1> DEFINE Upward(S) == \A x \in S : f.parent[x] \in S
           W == [u \in D |-> {v \in D : \A S \in SUBSET D : u \in S /\ Upward(S) => v \in S}]
<1>2. \A u \in D : W[u] = {u} \cup (IF f.parent[u] = u THEN {} ELSE W[f.parent[u]])
  <2> SUFFICES ASSUME NEW u \in D
               PROVE  W[u] = {u} \cup (IF f.parent[u] = u THEN {} ELSE W[f.parent[u]])
    OBVIOUS
  <2>1. CASE f.parent[u] = u
    <3>1. Upward({u}) /\ {u} \in SUBSET D
      BY <2>1
    <3> QED
      BY <2>1, <3>1
  <2>2. CASE f.parent[u] # u
    <3> DEFINE p == f.parent[u]
    <3>1. p \in D
      BY <1>1
    <3>2. ASSUME NEW v \in W[u], v # u PROVE v \in W[p]
      <4>1. ASSUME NEW S \in SUBSET D, p \in S, Upward(S) PROVE v \in S
        <5>1. Upward(S \cup {u}) /\ S \cup {u} \in SUBSET D /\ u \in S \cup {u}
          BY <4>1
        <5> QED
          BY <3>2, <5>1
      <4> QED
        BY <3>1, <3>2, <4>1
    <3>3. ASSUME NEW v \in W[p] PROVE v \in W[u]
      BY <3>1, <3>3
    <3>4. u \in W[u]
      OBVIOUS
    <3> QED
      BY <2>2, <3>2, <3>3, <3>4
  <2> QED
    BY <2>1, <2>2
<1>3. W = [u \in DOMAIN f.parent |-> {u} \cup (IF f.parent[u] = u THEN {} ELSE W[f.parent[u]])]
  <2> HIDE DEF Upward
  <2>1. W = [u \in D |-> W[u]]
    OBVIOUS
  <2> HIDE DEF W
  <2> QED
    BY <1>1, <1>2, <2>1
<1> HIDE DEF W
<1>4. Way(f) = [u \in DOMAIN f.parent |-> {u} \cup (IF f.parent[u] = u THEN {} ELSE Way(f)[f.parent[u]])]
  BY <1>3 DEF Way
<1> DEFINE C == Way(f)
<1>5. \A u \in D : C[u] = {u} \cup (IF f.parent[u] = u THEN {} ELSE C[f.parent[u]])
  BY <1>1, <1>4
<1>6. PICK rank \in [D -> Nat] : Falls(f, D, R, rank)
  BY DEF RootedBy
<1> DEFINE Bad == {u \in D : \E v \in C[u] : ~(v \in D /\ R[v] = R[u])}
<1>7. ASSUME Bad # {} PROVE FALSE
  <2> HIDE DEF C
  <2>1. PICK u \in Bad : \A v \in Bad : rank[u] <= rank[v]
    BY <1>6, <1>7, LeastRanked
  <2>2. PICK v \in C[u] : ~(v \in D /\ R[v] = R[u])
    BY <2>1
  <2>3. f.parent[u] # u /\ v \in C[f.parent[u]]
    BY <1>5, <2>1, <2>2
  <2>4. f.parent[u] \in D /\ rank[f.parent[u]] < rank[u]
    BY <1>1, <1>6, <2>1, <2>3 DEF Falls
  <2>5. f.parent[u] \notin Bad
    BY <1>6, <2>1, <2>4
  <2>6. R[f.parent[u]] = R[u]
    BY <2>1, <2>3 DEF RootedBy
  <2> QED
    BY <2>2, <2>3, <2>4, <2>5, <2>6
<1> QED
  BY <1>7

LEMMA CompressedIsRooted ==
    ASSUME NEW f, NEW D, NEW R, RootedBy(f, D, R), NEW t \in D
    PROVE  RootedBy(Compressed(f, t), D, R)
<1> DEFINE W == Way(f)[t]
           g == Compressed(f, t)
<1>1. DOMAIN f.parent = D /\ R \in [D -> D] /\ f.parent \in [D -> D] /\ f.size \in [D -> Nat]
  BY DEF RootedBy
<1>2. Root(f, t) = R[t] /\ R[t] \in D
  BY <1>1, RootIsTheRoot
<1>3. \A w \in W : w \in D /\ R[w] = R[t]
  BY WayStaysInTheTree
<1>4. g = [f EXCEPT !.parent = [u \in D |-> IF u \in W THEN R[t] ELSE f.parent[u]]]
  BY <1>1, <1>2, CompressedByWay, Zenon
<1> HIDE DEF W, g
<1>5. f \in [parent : [D -> D], size : [D -> Nat]]
  BY DEF RootedBy
<1>6. /\ g \in [parent : [D -> D], size : [D -> Nat]]
      /\ \A u \in D : g.parent[u] = IF u \in W THEN R[u] ELSE f.parent[u]
  BY <1>1, <1>2, <1>3, <1>4, <1>5
<1>7. \A u \in D : f.parent[R[u]] = R[u] /\ R[u] \in D /\ R[u] = IF f.parent[u] = u THEN u ELSE R[f.parent[u]]
  BY <1>1 DEF RootedBy
<1>8. \A u \in D : R[R[u]] = R[u]
  BY <1>7
<1>9. \A u \in D : R[u] = IF g.parent[u] = u THEN u ELSE R[g.parent[u]]
  BY <1>6, <1>7, <1>8
<1>10. \A u \in D : g.parent[R[u]] = R[u]
  BY <1>6, <1>7, <1>8
<1>11. PICK rank \in [D -> Nat] : Falls(f, D, R, rank)
  BY DEF RootedBy
<1>12. Falls(g, D, R, rank)
  BY <1>6, <1>7, <1>11 DEF Falls
<1>13. RootedBy(g, D, R)
  BY <1>1, <1>6, <1>9, <1>10, <1>11, <1>12 DEF RootedBy
<1> QED
  BY <1>13 DEF g

(* The roots when there are more terminals, each the root of its own tree.     *)
Grown(R, D, new) == [u \in D \cup new |-> IF u \in D THEN R[u] ELSE u]

LEMMA AddedIsRooted ==
    ASSUME NEW f, NEW D, NEW R, RootedBy(f, D, R), NEW new
    PROVE  RootedBy(Add(f, new), D \cup new, Grown(R, D, new))
<1> DEFINE g == Add(f, new)
           X == Grown(R, D, new)
           C == D \cup new
<1>1. DOMAIN f.parent = D /\ R \in [D -> D] /\ f.parent \in [D -> D] /\ f.size \in [D -> Nat]
  BY DEF RootedBy
<1>2. g = [parent |-> [u \in C |-> IF u \in D THEN f.parent[u] ELSE u],
           size   |-> [u \in C |-> IF u \in D THEN f.size[u] ELSE 1]]
  BY <1>1 DEF Add
<1>3. X \in [C -> C] /\ \A u \in C : X[u] = IF u \in D THEN R[u] ELSE u
  BY <1>1 DEF Grown
<1>4. D \subseteq C
  OBVIOUS
<1> HIDE DEF g, X, C
<1>5. /\ g \in [parent : [C -> C], size : [C -> Nat]]
      /\ \A u \in C : g.parent[u] = IF u \in D THEN f.parent[u] ELSE u
  BY <1>1, <1>2, <1>4
<1>6. \A u \in D : f.parent[u] \in D /\ R[u] \in D
  BY <1>1
<1>7. \A u \in D : f.parent[R[u]] = R[u] /\ R[u] = IF f.parent[u] = u THEN u ELSE R[f.parent[u]]
  BY DEF RootedBy
<1>8. PICK rank \in [D -> Nat] : Falls(f, D, R, rank)
  BY DEF RootedBy
<1> DEFINE more == [u \in C |-> IF u \in D THEN rank[u] ELSE 0]
<1>9. more \in [C -> Nat] /\ \A u \in D : more[u] = rank[u]
  BY <1>4, <1>8
<1> HIDE DEF more
<1>10. Falls(g, C, X, more)
  BY <1>3, <1>4, <1>5, <1>6, <1>8, <1>9 DEF Falls
<1>11. \A u \in C : X[u] = (IF g.parent[u] = u THEN u ELSE X[g.parent[u]]) /\ g.parent[X[u]] = X[u]
  BY <1>3, <1>4, <1>5, <1>6, <1>7
<1>12. RootedBy(g, C, X)
  BY <1>3, <1>5, <1>9, <1>10, <1>11 DEF RootedBy
<1> QED
  BY <1>12 DEF g, X, C

(* One root put under another.                                                 *)
Under(f, large, small, n) == [f EXCEPT !.parent[small] = large, !.size[large] = n]
RootsUnder(R, D, large, small) == [u \in D |-> IF R[u] = small THEN large ELSE R[u]]

LEMMA MergedIsRooted ==
    ASSUME NEW f, NEW D, NEW R, RootedBy(f, D, R),
           NEW large \in D, NEW small \in D, R[large] = large, R[small] = small, large # small, NEW n \in Nat
    PROVE  RootedBy(Under(f, large, small, n), D, RootsUnder(R, D, large, small))
<1> DEFINE g == Under(f, large, small, n)
           Q == RootsUnder(R, D, large, small)
<1>1. R \in [D -> D] /\ f \in [parent : [D -> D], size : [D -> Nat]]
  BY DEF RootedBy
<1>2. /\ g \in [parent : [D -> D], size : [D -> Nat]]
      /\ \A u \in D : g.parent[u] = IF u = small THEN large ELSE f.parent[u]
  BY <1>1 DEF Under
<1>3. Q \in [D -> D] /\ \A u \in D : Q[u] = IF R[u] = small THEN large ELSE R[u]
  BY <1>1 DEF RootsUnder
<1> HIDE DEF g, Q
<1>4. \A u \in D : /\ f.parent[u] \in D /\ R[u] \in D
                   /\ f.parent[R[u]] = R[u] /\ R[u] = IF f.parent[u] = u THEN u ELSE R[f.parent[u]]
  BY <1>1 DEF RootedBy
<1>5. \A u \in D : R[R[u]] = R[u]
  BY <1>4
<1>6. PICK rank \in [D -> Nat] : Falls(f, D, R, rank)
  BY DEF RootedBy
<1> DEFINE lifted == [u \in D |-> IF R[u] = small THEN rank[u] + rank[large] + 1 ELSE rank[u]]
<1>7. lifted \in [D -> Nat] /\ \A u \in D : lifted[u] = IF R[u] = small THEN rank[u] + rank[large] + 1 ELSE rank[u]
  BY <1>6
<1> HIDE DEF lifted
<1>8. \A u \in D : rank[u] \in Nat
  BY <1>6
<1>9. Falls(g, D, Q, lifted)
  <2> SUFFICES ASSUME NEW u \in D, g.parent[u] # u
               PROVE  lifted[g.parent[u]] < lifted[u] /\ lifted[Q[u]] < lifted[u]
    BY DEF Falls
  <2>1. CASE u = small
    BY <1>2, <1>3, <1>7, <1>8, <2>1
  <2>2. CASE u # small
    <3>1. g.parent[u] = f.parent[u] /\ R[f.parent[u]] = R[u]
      BY <1>2, <1>4, <2>2
    <3>2. rank[f.parent[u]] < rank[u] /\ rank[R[u]] < rank[u]
      BY <1>6, <3>1 DEF Falls
    <3>3. lifted[f.parent[u]] < lifted[u]
      BY <1>4, <1>7, <1>8, <3>1, <3>2
    <3>4. CASE R[u] = small
      <4>1. lifted[Q[u]] = rank[large] /\ lifted[u] = rank[u] + rank[large] + 1
        BY <1>3, <1>7, <3>4
      <4> QED
        BY <1>8, <3>1, <3>3, <4>1
    <3>5. CASE R[u] # small
      <4>1. lifted[Q[u]] = rank[R[u]] /\ lifted[u] = rank[u]
        BY <1>3, <1>4, <1>5, <1>7, <3>5
      <4> QED
        BY <3>1, <3>2, <3>3, <4>1
    <3> QED
      BY <3>4, <3>5
  <2> QED
    BY <2>1, <2>2
<1>10. \A u \in D : Q[u] = IF g.parent[u] = u THEN u ELSE Q[g.parent[u]]
  BY <1>2, <1>3, <1>4
<1>11. \A u \in D : g.parent[Q[u]] = Q[u]
  BY <1>2, <1>3, <1>4, <1>5
<1>12. RootedBy(g, D, Q)
  BY <1>2, <1>3, <1>7, <1>9, <1>10, <1>11 DEF RootedBy
<1> QED
  BY <1>12 DEF g, Q

(* What connecting two terminals does to the roots: R, of a forest over D.     *)
Merges(Q, R, D, a, b) ==
    \A u, v \in D : Q[u] = Q[v] <=> \/ R[u] = R[v]
                                    \/ R[u] = R[a] /\ R[v] = R[b]
                                    \/ R[u] = R[b] /\ R[v] = R[a]

LEMMA JoinedIsRooted ==
    ASSUME NEW f, NEW D, NEW R, RootedBy(f, D, R), NEW a, NEW b
    PROVE  \E Q : RootedBy(Joined(f, a, b), D \cup {a, b}, Q) /\ Merges(Q, Grown(R, D, {a, b}), D \cup {a, b}, a, b)
<1> DEFINE C == D \cup {a, b}
           X == Grown(R, D, {a, b})
           g == Compressed(Compressed(Add(f, {a, b}), a), b)
<1>1. a \in C /\ b \in C
  OBVIOUS
<1>2. RootedBy(Add(f, {a, b}), C, X)
  BY AddedIsRooted
<1> HIDE DEF C, X
<1>3. RootedBy(Compressed(Add(f, {a, b}), a), C, X)
  BY <1>1, <1>2, CompressedIsRooted
<1>4. RootedBy(g, C, X)
  BY <1>1, <1>3, CompressedIsRooted
<1> DEFINE large == IF g.size[X[a]] >= g.size[X[b]] THEN X[a] ELSE X[b]
           small == IF large = X[a] THEN X[b] ELSE X[a]
           n == g.size[X[a]] + g.size[X[b]]
<1> HIDE DEF g
<1>5. Root(g, a) = X[a] /\ Root(g, b) = X[b]
  BY <1>1, <1>4, RootIsTheRoot
<1>6. Joined(f, a, b) = IF X[a] = X[b] THEN g ELSE Under(g, large, small, n)
  BY <1>5 DEF Joined, Under, g
<1>7. X \in [C -> C] /\ g.size \in [C -> Nat]
  BY <1>4 DEF RootedBy
<1>8. \A u \in C : X[X[u]] = X[u]
  BY <1>4, <1>7 DEF RootedBy
<1>9. CASE X[a] = X[b]
  <2>1. Merges(X, X, C, a, b)
    BY <1>9 DEF Merges
  <2> QED
    BY <1>4, <1>6, <1>9, <2>1 DEF C, X
<1>10. CASE X[a] # X[b]
  <2>1. X[a] \in C /\ X[b] \in C /\ n \in Nat
    BY <1>1, <1>7
  <2>2. large \in {X[a], X[b]} /\ small \in {X[a], X[b]} /\ large # small
    BY <1>10
  <2> HIDE DEF large, small, n
  <2> DEFINE Q == RootsUnder(X, C, large, small)
  <2>3. large \in C /\ small \in C /\ X[large] = large /\ X[small] = small
    BY <1>1, <1>8, <2>1, <2>2
  <2>4. RootedBy(Under(g, large, small, n), C, Q)
    BY <1>4, <2>1, <2>2, <2>3, MergedIsRooted
  <2>5. \A u \in C : Q[u] = IF X[u] = small THEN large ELSE X[u]
    BY DEF RootsUnder
  <2> HIDE DEF Q
  <2>6. Merges(Q, X, C, a, b)
    BY <2>2, <2>5 DEF Merges
  <2>7. Joined(f, a, b) = Under(g, large, small, n)
    BY <1>6, <1>10
  <2> QED
    BY <2>4, <2>6, <2>7 DEF C, X
<1> QED
  BY <1>9, <1>10

-------------------------------------------------------------------------------
(* The nets of a forest are what its contacts E make of its terminals D: a set *)
(* of terminals that no contact leaves is one that no tree straddles.          *)
Closed(S, E) == \A e \in E : e[1] \in S <=> e[2] \in S

Saturated(S, D, R) == \A u, v \in D : R[u] = R[v] => (u \in S <=> v \in S)

Glues(R, D, E) == \A S \in SUBSET D : Closed(S, E) <=> Saturated(S, D, R)

Glued(f, D, E) == E \subseteq D \X D /\ \E R : RootedBy(f, D, R) /\ Glues(R, D, E)

LEMMA AddedIsGlued ==
    ASSUME NEW f, NEW D, NEW E, Glued(f, D, E), NEW new
    PROVE  Glued(Add(f, new), D \cup new, E)
<1>1. PICK R : RootedBy(f, D, R) /\ Glues(R, D, E)
  BY DEF Glued
<1>2. E \subseteq D \X D /\ R \in [D -> D]
  BY <1>1 DEF Glued, RootedBy
<1> DEFINE C == D \cup new
           X == Grown(R, D, new)
<1>3. \A u \in C : X[u] = IF u \in D THEN R[u] ELSE u
  BY DEF Grown
<1> HIDE DEF X
<1>4. ASSUME NEW S \in SUBSET C
      PROVE  Closed(S, E) <=> Saturated(S, C, X)
  <2>1. Closed(S, E) <=> Closed(S \cap D, E)
    BY <1>2 DEF Closed
  <2>2. Saturated(S, C, X) <=> Saturated(S \cap D, D, R)
    BY <1>2, <1>3 DEF Saturated
  <2>3. Closed(S \cap D, E) <=> Saturated(S \cap D, D, R)
    BY <1>1 DEF Glues
  <2> QED
    BY <2>1, <2>2, <2>3
<1>5. RootedBy(Add(f, new), C, X) /\ E \subseteq C \X C /\ Glues(X, C, E)
  BY <1>1, <1>2, <1>4, AddedIsRooted DEF X, Glues
<1> QED
  BY <1>5 DEF Glued

LEMMA ClosedByOneMore ==
    ASSUME NEW S, NEW E, NEW a, NEW b
    PROVE  Closed(S, E \cup {<<a, b>>}) <=> Closed(S, E) /\ (a \in S <=> b \in S)
<1> DEFINE e == <<a, b>>
<1>1. e[1] = a /\ e[2] = b
  OBVIOUS
<1> HIDE DEF e
<1>2. Closed(S, E \cup {e}) <=> Closed(S, E) /\ (e[1] \in S <=> e[2] \in S)
  BY DEF Closed
<1> QED
  BY <1>1, <1>2 DEF e

LEMMA JoinedIsGlued ==
    ASSUME NEW f, NEW D, NEW E, Glued(f, D, E), NEW a, NEW b
    PROVE  Glued(Joined(f, a, b), D \cup {a, b}, E \cup {<<a, b>>})
<1>1. PICK R : RootedBy(f, D, R) /\ Glues(R, D, E)
  BY DEF Glued
<1> DEFINE C == D \cup {a, b}
           X == Grown(R, D, {a, b})
<1>2. E \subseteq D \X D /\ R \in [D -> D]
  BY <1>1 DEF Glued, RootedBy
<1>3. \A u \in C : X[u] = IF u \in D THEN R[u] ELSE u
  BY DEF Grown
<1>4. PICK Q : RootedBy(Joined(f, a, b), C, Q) /\ Merges(Q, X, C, a, b)
  BY <1>1, JoinedIsRooted
<1> HIDE DEF X
<1>5. ASSUME NEW S \in SUBSET C
      PROVE  Closed(S, E \cup {<<a, b>>}) <=> Saturated(S, C, Q)
  <2>1. Closed(S, E) <=> Closed(S \cap D, E)
    BY <1>2 DEF Closed
  <2>2. Saturated(S, C, X) <=> Saturated(S \cap D, D, R)
    BY <1>2, <1>3 DEF Saturated
  <2>3. Closed(S \cap D, E) <=> Saturated(S \cap D, D, R)
    BY <1>1 DEF Glues
  <2>4. Closed(S, E \cup {<<a, b>>}) <=> Closed(S, E) /\ (a \in S <=> b \in S)
    BY ClosedByOneMore
  <2>5. a \in C /\ b \in C
    OBVIOUS
  <2>6. Saturated(S, C, Q) <=> Saturated(S, C, X) /\ (a \in S <=> b \in S)
    <3> HIDE DEF C
    <3>1. ASSUME Saturated(S, C, Q) PROVE Saturated(S, C, X) /\ (a \in S <=> b \in S)
      BY <1>4, <2>5, <3>1 DEF Saturated, Merges
    <3>2. ASSUME Saturated(S, C, X), a \in S <=> b \in S PROVE Saturated(S, C, Q)
      <4> SUFFICES ASSUME NEW u \in C, NEW v \in C, Q[u] = Q[v] PROVE u \in S <=> v \in S
        BY DEF Saturated
      <4>1. \/ X[u] = X[v]
            \/ X[u] = X[a] /\ X[v] = X[b]
            \/ X[u] = X[b] /\ X[v] = X[a]
        BY <1>4 DEF Merges
      <4> QED
        BY <2>5, <3>2, <4>1 DEF Saturated
    <3> QED
      BY <3>1, <3>2
  <2> QED
    BY <2>1, <2>2, <2>3, <2>4, <2>6
<1>6. E \cup {<<a, b>>} \subseteq C \X C
  BY <1>2
<1>7. Glues(Q, C, E \cup {<<a, b>>})
  BY <1>5 DEF Glues
<1> QED
  BY <1>4, <1>6, <1>7 DEF Glued

(* Contacts that close the same sets make the same nets.                       *)
LEMMA SameContacts ==
    ASSUME NEW f, NEW D, NEW E, Glued(f, D, E), NEW F, F \subseteq D \X D,
           \A S \in SUBSET D : Closed(S, E) <=> Closed(S, F)
    PROVE  Glued(f, D, F)
<1>1. PICK R : RootedBy(f, D, R) /\ Glues(R, D, E)
  BY DEF Glued
<1>2. Glues(R, D, F)
  BY <1>1 DEF Glues
<1> QED
  BY <1>1, <1>2 DEF Glued

-------------------------------------------------------------------------------
(* Loops.  What holds before the first step and is kept by each.               *)
LEMMA Climbs ==
    ASSUME NEW n \in Nat, NEW T, 0 \in T, \A k \in 1 .. n : k - 1 \in T => k \in T
    PROVE  \A k \in 0 .. n : k \in T
<1> DEFINE Bad == {k \in 0 .. n : k \notin T}
<1>1. ASSUME Bad # {} PROVE FALSE
  <2>1. Bad \subseteq Nat
    OBVIOUS
  <2>2. PICK k \in Bad : \A j \in Bad : k <= j
    BY <1>1, <2>1, LeastNumber
  <2>3. k \in 1 .. n /\ k - 1 \in 0 .. n /\ ~(k <= k - 1)
    BY <2>2
  <2>4. k - 1 \in T
    BY <2>2, <2>3
  <2> QED
    BY <2>2, <2>3, <2>4
<1> QED
  BY <1>1

(* The run of a loop of n steps as a recursive function defines it.            *)
IsRun(g, n, base, step) ==
    g = [i \in 0 .. n |-> IF i = 0 THEN base ELSE step[i][g[i - 1]]]

LEMMA LoopRuns ==
    ASSUME NEW n \in Nat, NEW V, NEW base \in V, NEW step \in [1 .. n -> [V -> V]]
    PROVE  \E g \in [0 .. n -> V] : IsRun(g, n, base, step)
<1> DEFINE Upto(k, g) == g[0] = base /\ \A i \in 1 .. k : g[i] = step[i][g[i - 1]]
           T == {k \in 0 .. n : \E g \in [0 .. k -> V] : Upto(k, g)}
<1>1. 0 \in T
  <2> DEFINE h == [i \in 0 .. 0 |-> base]
  <2>1. h \in [0 .. 0 -> V] /\ h[0] = base
    OBVIOUS
  <2> HIDE DEF h
  <2>2. \E g \in [0 .. 0 -> V] : Upto(0, g)
    BY <2>1
  <2> QED
    BY <2>2
<1>2. ASSUME NEW k \in 1 .. n, k - 1 \in T PROVE k \in T
  <2>1. PICK g \in [0 .. k - 1 -> V] : Upto(k - 1, g)
    BY <1>2
  <2> DEFINE h == [i \in 0 .. k |-> IF i = k THEN step[k][g[k - 1]] ELSE g[i]]
  <2>2. g[k - 1] \in V /\ step[k][g[k - 1]] \in V
    BY <2>1
  <2>3. h \in [0 .. k -> V]
    BY <2>1, <2>2
  <2>4. \A i \in 0 .. k : h[i] = IF i = k THEN step[k][g[k - 1]] ELSE g[i]
    OBVIOUS
  <2> HIDE DEF h
  <2>5. h[0] = base
    BY <2>1, <2>4
  <2>6. \A i \in 1 .. k : h[i] = step[i][h[i - 1]]
    BY <2>1, <2>4
  <2>7. Upto(k, h)
    BY <2>5, <2>6
  <2>8. \E f \in [0 .. k -> V] : Upto(k, f)
    <3> HIDE DEF Upto
    <3> QED
      BY <2>3, <2>7
  <2>9. k \in 0 .. n
    OBVIOUS
  <2> HIDE DEF Upto
  <2> QED
    BY <2>8, <2>9
<1> HIDE DEF T
<1>3. \A k \in 1 .. n : k - 1 \in T => k \in T
  BY <1>2
<1>9. n \in T
  <2>1. \A k \in 0 .. n : k \in T
    BY <1>1, <1>3, Climbs
  <2> QED
    BY <2>1
<1> USE DEF T
<1>4. PICK g \in [0 .. n -> V] : Upto(n, g)
  BY <1>9
<1>5. \A i \in 0 .. n : g[i] = IF i = 0 THEN base ELSE step[i][g[i - 1]]
  BY <1>4
<1>6. g = [i \in 0 .. n |-> g[i]]
  BY <1>4
<1>7. IsRun(g, n, base, step)
  BY <1>5, <1>6 DEF IsRun
<1> QED
  BY <1>4, <1>7

(* The forests there can be of some terminals.                                 *)
Forests(U) ==
    {f \in UNION {[parent : [D -> D], size : [D -> Nat]] : D \in SUBSET U} : \E D, E : Glued(f, D, E) /\ D \subseteq U}

LEMMA GluedIsAForest ==
    ASSUME NEW U, NEW f, NEW D \in SUBSET U, NEW E, Glued(f, D, E)
    PROVE  f \in Forests(U)
<1>1. f \in [parent : [D -> D], size : [D -> Nat]]
  BY DEF Glued, RootedBy
<1> QED
  BY <1>1 DEF Forests

LEMMA JoinedIsAForest ==
    ASSUME NEW U, NEW f \in Forests(U), NEW a \in U, NEW b \in U
    PROVE  Joined(f, a, b) \in Forests(U)
<1>1. PICK D, E : Glued(f, D, E) /\ D \subseteq U
  BY DEF Forests
<1>2. Glued(Joined(f, a, b), D \cup {a, b}, E \cup {<<a, b>>})
  BY <1>1, JoinedIsGlued
<1> QED
  BY <1>1, <1>2, GluedIsAForest

-------------------------------------------------------------------------------
(* connectAll, step by step.                                                   *)
RunOf(f, run) ==
    CHOOSE g : g = [i \in 0 .. Len(run) - 1 |->
                       IF i = 0 THEN f ELSE Joined(g[i - 1], run[1], run[i + 1])]

LEMMA JoinedAllRuns == ASSUME NEW f, NEW run PROVE JoinedAll(f, run) = RunOf(f, run)[Len(run) - 1]
BY DEF JoinedAll, RunOf

LEMMA RunUnfolds ==
    ASSUME NEW U, NEW f \in Forests(U), NEW run \in Seq(U), Len(run) > 0
    PROVE  /\ RunOf(f, run)[0] = f
           /\ \A i \in 1 .. Len(run) - 1 : RunOf(f, run)[i] = Joined(RunOf(f, run)[i - 1], run[1], run[i + 1])
<1> DEFINE n == Len(run) - 1
           V == Forests(U)
           step == [i \in 1 .. n |-> [x \in V |-> Joined(x, run[1], run[i + 1])]]
<1>1. n \in Nat /\ Len(run) = n + 1
  OBVIOUS
<1>2. \A i \in 1 .. n : run[1] \in U /\ run[i + 1] \in U
  BY <1>1
<1> HIDE DEF n
<1>3. \A i \in 1 .. n : \A x \in V : Joined(x, run[1], run[i + 1]) \in V
  BY <1>2, JoinedIsAForest
<1> HIDE DEF V
<1>4. step \in [1 .. n -> [V -> V]] /\ f \in V
  BY <1>3 DEF V
<1>5. \A i \in 1 .. n : \A x \in V : step[i][x] = Joined(x, run[1], run[i + 1])
  OBVIOUS
<1> HIDE DEF step
<1>6. PICK g \in [0 .. n -> V] : IsRun(g, n, f, step)
  BY <1>1, <1>4, LoopRuns
<1>7. g = [i \in 0 .. n |-> IF i = 0 THEN f ELSE step[i][g[i - 1]]]
  BY <1>6 DEF IsRun
<1>8. \A i \in 0 .. n : g[i] = IF i = 0 THEN f ELSE Joined(g[i - 1], run[1], run[i + 1])
  <2> SUFFICES ASSUME NEW i \in 0 .. n PROVE g[i] = IF i = 0 THEN f ELSE Joined(g[i - 1], run[1], run[i + 1])
    OBVIOUS
  <2>1. CASE i = 0
    BY <1>7, <2>1
  <2>2. CASE i # 0
    <3>1. i \in 1 .. n /\ i - 1 \in 0 .. n
      BY <1>1, <2>2
    <3>2. g[i - 1] \in V
      BY <1>6, <3>1
    <3> QED
      BY <1>5, <1>7, <2>2, <3>1, <3>2
  <2> QED
    BY <2>1, <2>2
<1>9. g = [i \in 0 .. n |-> g[i]]
  BY <1>6
<1>10. g = [i \in 0 .. n |-> IF i = 0 THEN f ELSE Joined(g[i - 1], run[1], run[i + 1])]
  BY <1>8, <1>9
<1> DEFINE r == RunOf(f, run)
<1>11. r = [i \in 0 .. n |-> IF i = 0 THEN f ELSE Joined(r[i - 1], run[1], run[i + 1])]
  BY <1>10 DEF RunOf, n
<1> HIDE DEF r
<1>12. r[0] = f /\ \A i \in 1 .. n : r[i] = Joined(r[i - 1], run[1], run[i + 1])
  BY <1>1, <1>11
<1> QED
  BY <1>12 DEF r, n

LEMMA ClosedByMore ==
    ASSUME NEW S, NEW E, NEW F
    PROVE  Closed(S, E \cup F) <=> Closed(S, E) /\ Closed(S, F)
BY DEF Closed

LEMMA ClosedPairs ==
    ASSUME NEW S, NEW T
    PROVE  Closed(S, T \X T) <=> \A x, y \in T : x \in S <=> y \in S
<1>1. ASSUME Closed(S, T \X T), NEW x \in T, NEW y \in T PROVE x \in S <=> y \in S
  <2>1. <<x, y>> \in T \X T
    OBVIOUS
  <2>2. <<x, y>>[1] \in S <=> <<x, y>>[2] \in S
    BY <1>1, <2>1 DEF Closed
  <2> QED
    BY <2>2
<1>2. ASSUME \A x, y \in T : x \in S <=> y \in S PROVE Closed(S, T \X T)
  BY <1>2 DEF Closed
<1> QED
  BY <1>1, <1>2

LEMMA ClosedStar ==
    ASSUME NEW S, NEW T, NEW x
    PROVE  Closed(S, {<<x, y>> : y \in T}) <=> \A y \in T : x \in S <=> y \in S
<1>1. ASSUME Closed(S, {<<x, y>> : y \in T}), NEW y \in T PROVE x \in S <=> y \in S
  <2>1. <<x, y>>[1] \in S <=> <<x, y>>[2] \in S
    BY <1>1 DEF Closed
  <2> QED
    BY <2>1
<1>2. ASSUME \A y \in T : x \in S <=> y \in S PROVE Closed(S, {<<x, y>> : y \in T})
  BY <1>2 DEF Closed
<1> QED
  BY <1>1, <1>2

(* A run of terminals becomes one net.                                         *)
LEMMA RunIsGlued ==
    ASSUME NEW f, NEW D, NEW E, Glued(f, D, E), NEW run, run \in Seq(ToSet(run)), Len(run) > 1
    PROVE  Glued(JoinedAll(f, run), D \cup ToSet(run), E \cup (ToSet(run) \X ToSet(run)))
<1> DEFINE n == Len(run) - 1
           U == D \cup ToSet(run)
           r == RunOf(f, run)
           Met(k) == {run[j] : j \in {i \in 1 .. n + 1 : i <= k + 1 /\ k > 0}}
           Rest(k) == {run[j] : j \in {i \in 1 .. n + 1 : 1 < i /\ i <= k + 1}}
           Star(k) == {<<run[1], y>> : y \in Rest(k)}
<1>1. Len(run) \in Nat /\ n \in Nat /\ Len(run) = n + 1 /\ n > 0 /\ DOMAIN run = 1 .. n + 1 /\ run \in Seq(U)
  OBVIOUS
<1>2. f \in Forests(U)
  BY GluedIsAForest
<1>3. r[0] = f /\ \A i \in 1 .. n : r[i] = Joined(r[i - 1], run[1], run[i + 1])
  BY <1>1, <1>2, RunUnfolds
<1>4. JoinedAll(f, run) = r[n]
  BY JoinedAllRuns
<1>5. ToSet(run) = {run[j] : j \in 1 .. n + 1}
  BY <1>1 DEF ToSet
<1> HIDE DEF n, U, r
<1> DEFINE T == {k \in 0 .. n : Glued(r[k], D \cup Met(k), E \cup Star(k))}
<1>6. 0 \in T
  <2>1. Met(0) = {} /\ Star(0) = {}
    BY <1>1
  <2> HIDE DEF Met, Star
  <2>2. Glued(r[0], D \cup Met(0), E \cup Star(0))
    BY <1>3, <2>1
  <2> QED
    BY <1>1, <2>2
<1>7. ASSUME NEW k \in 1 .. n, k - 1 \in T PROVE k \in T
  <2> DEFINE Da == D \cup Met(k - 1)
             Ea == E \cup Star(k - 1)
             e == <<run[1], run[k + 1]>>
  <2>1. Glued(r[k - 1], Da, Ea)
    BY <1>7
  <2>2. Da \cup {run[1], run[k + 1]} = D \cup Met(k)
    <3>1. Met(k) = Met(k - 1) \cup {run[1], run[k + 1]}
      BY <1>1
    <3> HIDE DEF Met
    <3> QED
      BY <3>1
  <2>3. Ea \cup {e} = E \cup Star(k)
    <3> HIDE DEF e
    <3>1. Star(k) = Star(k - 1) \cup {e}
      <4>1. Rest(k) = Rest(k - 1) \cup {run[k + 1]}
        BY <1>1
      <4> HIDE DEF Rest
      <4> QED
        BY <4>1 DEF e
    <3> HIDE DEF Star
    <3> QED
      BY <3>1
  <2>4. r[k] = Joined(r[k - 1], run[1], run[k + 1])
    BY <1>3
  <2> HIDE DEF Da, Ea, Met, Star
  <2>5. Glued(Joined(r[k - 1], run[1], run[k + 1]), Da \cup {run[1], run[k + 1]}, Ea \cup {e})
    BY <2>1, JoinedIsGlued
  <2>6. Glued(r[k], D \cup Met(k), E \cup Star(k))
    BY <2>2, <2>3, <2>4, <2>5
  <2> QED
    BY <2>6
<1> HIDE DEF T
<1>8. \A k \in 1 .. n : k - 1 \in T => k \in T
  BY <1>7
<1>9. n \in T
  <2>1. \A k \in 0 .. n : k \in T
    BY <1>1, <1>6, <1>8, Climbs
  <2> QED
    BY <1>1, <2>1
<1>10. Glued(r[n], D \cup Met(n), E \cup Star(n))
  BY <1>9 DEF T
<1>11. Met(n) = ToSet(run)
  BY <1>1, <1>5
<1>12. ASSUME NEW S PROVE Closed(S, Star(n)) <=> Closed(S, ToSet(run) \X ToSet(run))
  <2>3. run[1] \in ToSet(run) /\ ToSet(run) = Rest(n) \cup {run[1]}
    BY <1>1, <1>5
  <2> HIDE DEF Rest
  <2>1. Closed(S, Star(n)) <=> \A y \in Rest(n) : run[1] \in S <=> y \in S
    BY ClosedStar
  <2>2. Closed(S, ToSet(run) \X ToSet(run)) <=> \A x, y \in ToSet(run) : x \in S <=> y \in S
    BY ClosedPairs
  <2> QED
    BY <2>1, <2>2, <2>3
<1>13. \A S \in SUBSET (D \cup ToSet(run)) : Closed(S, E \cup Star(n)) <=> Closed(S, E \cup (ToSet(run) \X ToSet(run)))
  <2> HIDE DEF Star
  <2> QED
    BY <1>12, ClosedByMore
<1>14. E \cup (ToSet(run) \X ToSet(run)) \subseteq (D \cup ToSet(run)) \X (D \cup ToSet(run))
  BY DEF Glued
<1> HIDE DEF Met, Star
<1> QED
  BY <1>4, <1>10, <1>11, <1>13, <1>14, SameContacts

-------------------------------------------------------------------------------
(* addBreadboard, column by column.                                            *)

(* A loop each step of which adds terminals and contacts.                      *)
Adds(old, f, more, touch) == \A D, E : Glued(old, D, E) => Glued(f, D \cup more, E \cup touch)

AllOf(h, n) == UNION {h[k] : k \in 1 .. n}

LEMMA LoopIsGlued ==
    ASSUME NEW n \in Nat, NEW g, NEW more, NEW touch, NEW D, NEW E, Glued(g[0], D, E),
           \A k \in 1 .. n : Adds(g[k - 1], g[k], more[k], touch[k])
    PROVE  Glued(g[n], D \cup AllOf(more, n), E \cup AllOf(touch, n))
<1> DEFINE M(k) == UNION {more[i] : i \in 1 .. k}
           C(k) == UNION {touch[i] : i \in 1 .. k}
           T == {k \in 0 .. n : Glued(g[k], D \cup M(k), E \cup C(k))}
<1>1. 0 \in T
  <2>1. D \cup M(0) = D /\ E \cup C(0) = E
    OBVIOUS
  <2> HIDE DEF M, C
  <2>2. Glued(g[0], D \cup M(0), E \cup C(0))
    BY <2>1
  <2> QED
    BY <2>2
<1>2. ASSUME NEW k \in 1 .. n, k - 1 \in T PROVE k \in T
  <2>1. Glued(g[k - 1], D \cup M(k - 1), E \cup C(k - 1))
    BY <1>2
  <2>2. 1 .. k = (1 .. k - 1) \cup {k}
    BY <1>2
  <2>3. M(k) = M(k - 1) \cup more[k] /\ C(k) = C(k - 1) \cup touch[k]
    BY <2>2
  <2> HIDE DEF M, C
  <2>4. Glued(g[k], (D \cup M(k - 1)) \cup more[k], (E \cup C(k - 1)) \cup touch[k])
    BY <2>1 DEF Adds
  <2>5. (D \cup M(k - 1)) \cup more[k] = D \cup M(k) /\ (E \cup C(k - 1)) \cup touch[k] = E \cup C(k)
    BY <2>3
  <2>6. Glued(g[k], D \cup M(k), E \cup C(k))
    BY <2>4, <2>5
  <2> QED
    BY <2>6
<1>3. \A k \in 1 .. n : k - 1 \in T => k \in T
  BY <1>2
<1> HIDE DEF T
<1>4. n \in T
  <2>1. \A k \in 0 .. n : k \in T
    BY <1>1, <1>3, Climbs
  <2> QED
    BY <2>1
<1> HIDE DEF M, C
<1>5. Glued(g[n], D \cup M(n), E \cup C(n))
  BY <1>4 DEF T
<1> QED
  BY <1>5 DEF M, C, AllOf

StripHoles(c, rows) == {Hole(c, r) : r \in ToSet(rows)}
ColumnHoles(c) == StripHoles(c, Upper) \cup StripHoles(c, Lower)
ColumnContacts(c) ==
    (StripHoles(c, Upper) \X StripHoles(c, Upper)) \cup (StripHoles(c, Lower) \X StripHoles(c, Lower))

LEMMA StripIsARun ==
    ASSUME NEW c, NEW rows, rows \in Seq(ToSet(rows))
    PROVE  /\ ToSet(Strip(c, rows)) = StripHoles(c, rows)
           /\ Strip(c, rows) \in Seq(ToSet(Strip(c, rows)))
           /\ Len(Strip(c, rows)) = Len(rows)
<1> DEFINE s == Strip(c, rows)
           n == Len(rows)
<1>1. n \in Nat /\ DOMAIN rows = 1 .. n
  OBVIOUS
<1>2. s = [i \in 1 .. n |-> Hole(c, rows[i])]
  BY <1>1 DEF Strip
<1> HIDE DEF n, s
<1>3. DOMAIN s = 1 .. n /\ ToSet(s) = {Hole(c, rows[i]) : i \in 1 .. n}
  BY <1>2 DEF ToSet
<1>4. ToSet(rows) = {rows[i] : i \in 1 .. n}
  BY <1>1 DEF ToSet
<1>5. ToSet(s) = StripHoles(c, rows)
  BY <1>3, <1>4 DEF StripHoles
<1>6. s \in [1 .. n -> ToSet(s)]
  BY <1>2, <1>3
<1>7. s \in Seq(ToSet(s)) /\ Len(s) = n
  BY <1>1, <1>6
<1> QED
  BY <1>5, <1>7 DEF s, n

LEMMA ColumnAdds ==
    ASSUME NEW f, NEW c
    PROVE  Adds(f, WithColumn(f, c), ColumnHoles(c), ColumnContacts(c))
<1> SUFFICES ASSUME NEW D, NEW E, Glued(f, D, E)
             PROVE  Glued(WithColumn(f, c), D \cup ColumnHoles(c), E \cup ColumnContacts(c))
  BY DEF Adds
<1> DEFINE up == Strip(c, Upper)
           low == Strip(c, Lower)
           Hu == StripHoles(c, Upper)
           Hl == StripHoles(c, Lower)
<1>1. ToSet(up) = Hu /\ up \in Seq(ToSet(up)) /\ Len(up) > 1
  BY NetlistAssumption, StripIsARun
<1>2. ToSet(low) = Hl /\ low \in Seq(ToSet(low)) /\ Len(low) > 1
  BY NetlistAssumption, StripIsARun
<1> HIDE DEF up, low, Hu, Hl
<1> DEFINE g == JoinedAll(f, up)
<1>3. Glued(g, D \cup Hu, E \cup (Hu \X Hu))
  BY <1>1, RunIsGlued
<1> HIDE DEF g
<1>4. Glued(JoinedAll(g, low), (D \cup Hu) \cup Hl, (E \cup (Hu \X Hu)) \cup (Hl \X Hl))
  BY <1>2, <1>3, RunIsGlued
<1>5. (D \cup Hu) \cup Hl = D \cup ColumnHoles(c) /\ (E \cup (Hu \X Hu)) \cup (Hl \X Hl) = E \cup ColumnContacts(c)
  BY DEF ColumnHoles, ColumnContacts, Hu, Hl
<1>6. WithColumn(f, c) = JoinedAll(g, low)
  BY DEF WithColumn, g, up, low
<1> QED
  BY <1>4, <1>5, <1>6

LEMMA AddsKeepsForests ==
    ASSUME NEW U, NEW x \in Forests(U), NEW y, NEW more \in SUBSET U, NEW touch, Adds(x, y, more, touch)
    PROVE  y \in Forests(U)
<1>1. PICK D, E : Glued(x, D, E) /\ D \subseteq U
  BY DEF Forests
<1>2. Glued(y, D \cup more, E \cup touch)
  BY <1>1 DEF Adds
<1> QED
  BY <1>1, <1>2, GluedIsAForest

ColumnsOf(f) == CHOOSE g : g = [c \in 0 .. Columns |-> IF c = 0 THEN f ELSE WithColumn(g[c - 1], c)]
RailsOf(f) == CHOOSE g : g = [c \in 0 .. Columns |-> IF c = 0 THEN f ELSE WithRail(g[c - 1], c)]

LEMMA StripsAreLoops ==
    ASSUME NEW f
    PROVE  /\ WithColumns(f) = ColumnsOf(f)[Columns]
           /\ WithRails(f) = RailsOf(f)[Columns]
           /\ WithStrips(f) = WithRails(WithColumns(f))
BY DEF WithColumns, WithRails, WithStrips, ColumnsOf, RailsOf

LEMMA ColumnsUnfold ==
    ASSUME NEW U, NEW f \in Forests(U), \A c \in 1 .. Columns : ColumnHoles(c) \subseteq U
    PROVE  /\ ColumnsOf(f)[0] = f
           /\ \A c \in 1 .. Columns : ColumnsOf(f)[c] = WithColumn(ColumnsOf(f)[c - 1], c)
<1> DEFINE n == Columns
           V == Forests(U)
           step == [i \in 1 .. n |-> [x \in V |-> WithColumn(x, i)]]
<1>1. n \in Nat
  BY NetlistAssumption
<1> HIDE DEF n
<1>2. \A i \in 1 .. n : \A x \in V : WithColumn(x, i) \in V
  BY ColumnAdds, AddsKeepsForests DEF n
<1> HIDE DEF V
<1>3. step \in [1 .. n -> [V -> V]] /\ f \in V
  BY <1>2 DEF V
<1>4. \A i \in 1 .. n : \A x \in V : step[i][x] = WithColumn(x, i)
  OBVIOUS
<1> HIDE DEF step
<1>5. PICK g \in [0 .. n -> V] : IsRun(g, n, f, step)
  BY <1>1, <1>3, LoopRuns
<1>6. g = [i \in 0 .. n |-> IF i = 0 THEN f ELSE step[i][g[i - 1]]]
  BY <1>5 DEF IsRun
<1>7. \A i \in 0 .. n : g[i] = IF i = 0 THEN f ELSE WithColumn(g[i - 1], i)
  <2> SUFFICES ASSUME NEW i \in 0 .. n PROVE g[i] = IF i = 0 THEN f ELSE WithColumn(g[i - 1], i)
    OBVIOUS
  <2>1. CASE i = 0
    BY <1>6, <2>1
  <2>2. CASE i # 0
    <3>1. i \in 1 .. n /\ i - 1 \in 0 .. n
      BY <1>1, <2>2
    <3>2. g[i - 1] \in V
      BY <1>5, <3>1
    <3> QED
      BY <1>4, <1>6, <2>2, <3>1, <3>2
  <2> QED
    BY <2>1, <2>2
<1>8. g = [i \in 0 .. n |-> g[i]]
  BY <1>5
<1>9. g = [i \in 0 .. n |-> IF i = 0 THEN f ELSE WithColumn(g[i - 1], i)]
  BY <1>7, <1>8
<1> DEFINE r == ColumnsOf(f)
<1>10. r = [i \in 0 .. n |-> IF i = 0 THEN f ELSE WithColumn(r[i - 1], i)]
  BY <1>9 DEF ColumnsOf, n
<1> HIDE DEF r
<1>11. r[0] = f /\ \A i \in 1 .. n : r[i] = WithColumn(r[i - 1], i)
  BY <1>1, <1>10
<1> QED
  BY <1>11 DEF r, n

(* A rail hole is joined to the first of its piece, once there are two.        *)
RailHole(c) == Hole(c, "rail")
RailMore(c) == IF RailHole(c) = FirstOfRail(c) THEN {} ELSE {FirstOfRail(c), RailHole(c)}
RailTouch(c) == IF RailHole(c) = FirstOfRail(c) THEN {} ELSE {<<FirstOfRail(c), RailHole(c)>>}

LEMMA RailAdds ==
    ASSUME NEW f, NEW c
    PROVE  Adds(f, WithRail(f, c), RailMore(c), RailTouch(c))
<1> SUFFICES ASSUME NEW D, NEW E, Glued(f, D, E)
             PROVE  Glued(WithRail(f, c), D \cup RailMore(c), E \cup RailTouch(c))
  BY DEF Adds
<1> DEFINE start == FirstOfRail(c)
           hole == RailHole(c)
<1>1. WithRail(f, c) = IF hole = start THEN f ELSE Joined(f, start, hole)
  BY DEF WithRail, RailHole
<1>2. RailMore(c) = (IF hole = start THEN {} ELSE {start, hole}) /\ RailTouch(c) = (IF hole = start THEN {} ELSE {<<start, hole>>})
  BY DEF RailMore, RailTouch
<1> HIDE DEF start, hole
<1>3. CASE hole = start
  BY <1>1, <1>2, <1>3
<1>4. CASE hole # start
  <2>1. Glued(Joined(f, start, hole), D \cup {start, hole}, E \cup {<<start, hole>>})
    BY JoinedIsGlued
  <2> QED
    BY <1>1, <1>2, <1>4, <2>1
<1> QED
  BY <1>3, <1>4

LEMMA RailsUnfold ==
    ASSUME NEW U, NEW f \in Forests(U), \A c \in 1 .. Columns : RailMore(c) \subseteq U
    PROVE  /\ RailsOf(f)[0] = f
           /\ \A c \in 1 .. Columns : RailsOf(f)[c] = WithRail(RailsOf(f)[c - 1], c)
<1> DEFINE n == Columns
           V == Forests(U)
           step == [i \in 1 .. n |-> [x \in V |-> WithRail(x, i)]]
<1>1. n \in Nat
  BY NetlistAssumption
<1> HIDE DEF n
<1>2. \A i \in 1 .. n : \A x \in V : WithRail(x, i) \in V
  BY RailAdds, AddsKeepsForests DEF n
<1> HIDE DEF V
<1>3. step \in [1 .. n -> [V -> V]] /\ f \in V
  BY <1>2 DEF V
<1>4. \A i \in 1 .. n : \A x \in V : step[i][x] = WithRail(x, i)
  OBVIOUS
<1> HIDE DEF step
<1>5. PICK g \in [0 .. n -> V] : IsRun(g, n, f, step)
  BY <1>1, <1>3, LoopRuns
<1>6. g = [i \in 0 .. n |-> IF i = 0 THEN f ELSE step[i][g[i - 1]]]
  BY <1>5 DEF IsRun
<1>7. \A i \in 0 .. n : g[i] = IF i = 0 THEN f ELSE WithRail(g[i - 1], i)
  <2> SUFFICES ASSUME NEW i \in 0 .. n PROVE g[i] = IF i = 0 THEN f ELSE WithRail(g[i - 1], i)
    OBVIOUS
  <2>1. CASE i = 0
    BY <1>6, <2>1
  <2>2. CASE i # 0
    <3>1. i \in 1 .. n /\ i - 1 \in 0 .. n
      BY <1>1, <2>2
    <3>2. g[i - 1] \in V
      BY <1>5, <3>1
    <3> QED
      BY <1>4, <1>6, <2>2, <3>1, <3>2
  <2> QED
    BY <2>1, <2>2
<1>8. g = [i \in 0 .. n |-> g[i]]
  BY <1>5
<1>9. g = [i \in 0 .. n |-> IF i = 0 THEN f ELSE WithRail(g[i - 1], i)]
  BY <1>7, <1>8
<1> DEFINE r == RailsOf(f)
<1>10. r = [i \in 0 .. n |-> IF i = 0 THEN f ELSE WithRail(r[i - 1], i)]
  BY <1>9 DEF RailsOf, n
<1> HIDE DEF r
<1>11. r[0] = f /\ \A i \in 1 .. n : r[i] = WithRail(r[i - 1], i)
  BY <1>1, <1>10
<1> QED
  BY <1>11 DEF r, n

LEMMA LeastOf ==
    ASSUME NEW s, s \subseteq Nat, s # {}
    PROVE  Min(s) \in s /\ \A x \in s : Min(s) <= x
<1>1. \E x \in s : \A y \in s : x <= y
  BY LeastNumber
<1> QED
  BY <1>1 DEF Min

FirstColumn(c) == Min({d \in 1 .. c : RailSegmentOf(d) = RailSegmentOf(c)})

LEMMA FirstOfTheRail ==
    ASSUME NEW c \in 1 .. Columns
    PROVE  /\ FirstOfRail(c) = RailHole(FirstColumn(c))
           /\ FirstColumn(c) \in 1 .. c /\ RailSegmentOf(FirstColumn(c)) = RailSegmentOf(c)
           /\ \A d \in 1 .. Columns : RailSegmentOf(d) = RailSegmentOf(c) => FirstColumn(d) = FirstColumn(c)
<1>1. Columns \in Nat
  BY NetlistAssumption
<1>2. \A b \in 1 .. Columns : /\ FirstColumn(b) \in 1 .. b /\ RailSegmentOf(FirstColumn(b)) = RailSegmentOf(b)
                              /\ \A d \in 1 .. b : RailSegmentOf(d) = RailSegmentOf(b) => FirstColumn(b) <= d
  <2> SUFFICES ASSUME NEW b \in 1 .. Columns
               PROVE  /\ FirstColumn(b) \in 1 .. b /\ RailSegmentOf(FirstColumn(b)) = RailSegmentOf(b)
                      /\ \A d \in 1 .. b : RailSegmentOf(d) = RailSegmentOf(b) => FirstColumn(b) <= d
    OBVIOUS
  <2> DEFINE s == {d \in 1 .. b : RailSegmentOf(d) = RailSegmentOf(b)}
  <2>1. s \subseteq Nat /\ b \in s
    BY <1>1
  <2>2. Min(s) \in s /\ \A x \in s : Min(s) <= x
    <3> HIDE DEF s
    <3> QED
      BY <2>1, LeastOf
  <2>3. FirstColumn(b) = Min(s)
    BY DEF FirstColumn
  <2> QED
    BY <2>2, <2>3
<1>3. ASSUME NEW d \in 1 .. Columns, RailSegmentOf(d) = RailSegmentOf(c) PROVE FirstColumn(d) = FirstColumn(c)
  <2> DEFINE a == FirstColumn(c)
             b == FirstColumn(d)
  <2>1. a \in 1 .. c /\ b \in 1 .. d /\ RailSegmentOf(a) = RailSegmentOf(c) /\ RailSegmentOf(b) = RailSegmentOf(c)
    BY <1>2, <1>3
  <2>2. \A x \in 1 .. c : RailSegmentOf(x) = RailSegmentOf(c) => a <= x
    BY <1>2
  <2>3. \A x \in 1 .. d : RailSegmentOf(x) = RailSegmentOf(c) => b <= x
    BY <1>2, <1>3
  <2> HIDE DEF a, b
  <2>4. a \in Int /\ b \in Int /\ a >= 1 /\ b >= 1 /\ a <= c /\ b <= d
    BY <1>1, <2>1
  <2>5. ~(a < b)
    BY <1>1, <2>1, <2>3, <2>4
  <2>6. ~(b < a)
    BY <1>1, <2>1, <2>2, <2>4
  <2>7. b = a
    BY <2>4, <2>5, <2>6
  <2> QED
    BY <2>7 DEF a, b
<1>4. FirstOfRail(c) = RailHole(FirstColumn(c))
  BY DEF FirstOfRail, RailHole, FirstColumn
<1> QED
  BY <1>2, <1>3, <1>4

(* All the holes there are, and all the strips between them.                   *)
BoardContacts == {e \in Holes \X Holes : SameStrip(e[1], e[2])}

LEMMA BoardHoles ==
    (UNION {ColumnHoles(c) : c \in 1 .. Columns}) \cup (UNION {RailMore(c) : c \in 1 .. Columns}) = Holes
<1>1. ASSUME NEW c \in 1 .. Columns, NEW h \in ColumnHoles(c) PROVE h \in Holes
  BY <1>1 DEF ColumnHoles, StripHoles, Holes
<1>2. ASSUME NEW c \in 1 .. Columns PROVE RailHole(c) \in Holes
  BY DEF RailHole, Holes
<1>3. ASSUME NEW c \in 1 .. Columns, NEW h \in RailMore(c) PROVE h \in Holes
  <2>1. FirstOfRail(c) = RailHole(FirstColumn(c)) /\ FirstColumn(c) \in 1 .. Columns
    BY FirstOfTheRail, NetlistAssumption
  <2> QED
    BY <1>2, <1>3, <2>1 DEF RailMore
<1>4. ASSUME NEW c \in 1 .. Columns
      PROVE  \E d \in 1 .. Columns : RailHole(c) \in RailMore(d)
  <2>1. PICK d \in 1 .. Columns : d # c /\ RailSegmentOf(d) = RailSegmentOf(c)
    BY RailAssumption
  <2>2. FirstOfRail(c) = RailHole(FirstColumn(c)) /\ FirstOfRail(d) = RailHole(FirstColumn(c))
    BY <2>1, FirstOfTheRail
  <2>3. \A x, y : RailHole(x) = RailHole(y) => x = y
    BY DEF RailHole, Hole
  <2>4. CASE FirstColumn(c) # c
    <3>1. RailHole(c) \in RailMore(c)
      BY <2>2, <2>3, <2>4 DEF RailMore
    <3> QED
      BY <3>1
  <2>5. CASE FirstColumn(c) = c
    <3>1. RailHole(c) \in RailMore(d)
      BY <2>1, <2>2, <2>3, <2>5 DEF RailMore
    <3> QED
      BY <3>1
  <2> QED
    BY <2>4, <2>5
<1>5. ASSUME NEW h \in Holes
      PROVE  \/ \E c \in 1 .. Columns : h \in ColumnHoles(c)
             \/ \E c \in 1 .. Columns : h \in RailMore(c)
  <2>1. PICK c \in 1 .. Columns, r \in ToSet(Upper) \cup ToSet(Lower) \cup {"rail"} : h = Hole(c, r)
    BY DEF Holes
  <2>2. CASE r = "rail"
    <3>1. h = RailHole(c)
      BY <2>1, <2>2 DEF RailHole
    <3> QED
      BY <1>4, <3>1
  <2>3. CASE r \in ToSet(Upper) \cup ToSet(Lower)
    <3>1. h \in ColumnHoles(c)
      BY <2>1, <2>3 DEF ColumnHoles, StripHoles
    <3> QED
      BY <3>1
  <2> QED
    BY <2>1, <2>2, <2>3
<1> DEFINE A == UNION {ColumnHoles(c) : c \in 1 .. Columns}
           B == UNION {RailMore(c) : c \in 1 .. Columns}
<1>6. A \subseteq Holes /\ B \subseteq Holes
  BY <1>1, <1>3
<1>7. \A h \in Holes : h \in A \/ h \in B
  BY <1>5
<1>8. A \cup B = Holes
  <2> HIDE DEF A, B
  <2> QED
    BY <1>6, <1>7
<1> QED
  BY <1>8, Zenon

LEMMA HoleIs ==
    ASSUME NEW c, NEW r
    PROVE  Hole(c, r)[1] = c /\ Hole(c, r)[2] = r
BY DEF Hole

LEMMA StripsOfTheBoard ==
    ASSUME NEW S
    PROVE  Closed(S, (UNION {ColumnContacts(c) : c \in 1 .. Columns}) \cup (UNION {RailTouch(c) : c \in 1 .. Columns}))
           <=> Closed(S, BoardContacts)
<1> DEFINE CC == UNION {ColumnContacts(c) : c \in 1 .. Columns}
           RT == UNION {RailTouch(c) : c \in 1 .. Columns}
<1>1. ASSUME Closed(S, CC \cup RT) PROVE Closed(S, BoardContacts)
  <2>1. ASSUME NEW c \in 1 .. Columns, NEW rows, rows = Upper \/ rows = Lower,
               NEW x \in StripHoles(c, rows), NEW y \in StripHoles(c, rows)
        PROVE  x \in S <=> y \in S
    <3>1. <<x, y>> \in CC
      BY <2>1 DEF ColumnContacts
    <3>2. <<x, y>>[1] \in S <=> <<x, y>>[2] \in S
      <4> HIDE DEF CC, RT
      <4> QED
        BY <1>1, <3>1 DEF Closed
    <3> QED
      BY <3>2
  <2>2. ASSUME NEW c \in 1 .. Columns PROVE RailHole(c) \in S <=> FirstOfRail(c) \in S
    <3>1. CASE RailHole(c) = FirstOfRail(c)
      BY <3>1
    <3>2. CASE RailHole(c) # FirstOfRail(c)
      <4> DEFINE e == <<FirstOfRail(c), RailHole(c)>>
      <4>1. e[1] = FirstOfRail(c) /\ e[2] = RailHole(c)
        OBVIOUS
      <4> HIDE DEF e
      <4>2. e \in RT
        BY <3>2 DEF RailTouch, e
      <4>3. e[1] \in S <=> e[2] \in S
        <5> HIDE DEF CC, RT
        <5> QED
          BY <1>1, <4>2 DEF Closed
      <4> QED
        BY <4>1, <4>3
    <3> QED
      BY <3>1, <3>2
  <2>3. ASSUME NEW e \in BoardContacts PROVE e[1] \in S <=> e[2] \in S
    <3>1. e[1] \in Holes /\ e[2] \in Holes /\ SameStrip(e[1], e[2])
      BY <2>3 DEF BoardContacts
    <3>2. PICK c \in 1 .. Columns, r \in ToSet(Upper) \cup ToSet(Lower) \cup {"rail"} : e[1] = Hole(c, r)
      BY <3>1 DEF Holes
    <3>3. PICK d \in 1 .. Columns, q \in ToSet(Upper) \cup ToSet(Lower) \cup {"rail"} : e[2] = Hole(d, q)
      BY <3>1 DEF Holes
    <3>4. \/ c = d /\ r \in ToSet(Upper) /\ q \in ToSet(Upper)
          \/ c = d /\ r \in ToSet(Lower) /\ q \in ToSet(Lower)
          \/ r = "rail" /\ q = "rail" /\ RailSegmentOf(c) = RailSegmentOf(d)
      BY <3>1, <3>2, <3>3, HoleIs DEF SameStrip
    <3>5. CASE c = d /\ r \in ToSet(Upper) /\ q \in ToSet(Upper)
      <4>1. e[1] \in StripHoles(c, Upper) /\ e[2] \in StripHoles(c, Upper)
        BY <3>2, <3>3, <3>5 DEF StripHoles
      <4> QED
        BY <2>1, <4>1
    <3>6. CASE c = d /\ r \in ToSet(Lower) /\ q \in ToSet(Lower)
      <4>1. e[1] \in StripHoles(c, Lower) /\ e[2] \in StripHoles(c, Lower)
        BY <3>2, <3>3, <3>6 DEF StripHoles
      <4> QED
        BY <2>1, <4>1
    <3>7. CASE r = "rail" /\ q = "rail" /\ RailSegmentOf(c) = RailSegmentOf(d)
      <4>1. e[1] = RailHole(c) /\ e[2] = RailHole(d)
        BY <3>2, <3>3, <3>7 DEF RailHole
      <4>2. FirstOfRail(c) = FirstOfRail(d)
        BY <3>7, FirstOfTheRail
      <4> QED
        BY <2>2, <4>1, <4>2
    <3> QED
      BY <3>4, <3>5, <3>6, <3>7
  <2> QED
    BY <2>3 DEF Closed
<1>2. ASSUME Closed(S, BoardContacts) PROVE Closed(S, CC \cup RT)
  <2>1. ASSUME NEW e \in CC \cup RT PROVE e \in BoardContacts
    <3>1. CASE e \in CC
      <4>1. PICK c \in 1 .. Columns, rows \in {Upper, Lower} : e \in StripHoles(c, rows) \X StripHoles(c, rows)
        BY <3>1 DEF ColumnContacts
      <4>2. PICK r, q : e = <<Hole(c, r), Hole(c, q)>> /\ r \in ToSet(rows) /\ q \in ToSet(rows)
        BY <4>1 DEF StripHoles
      <4>3. Hole(c, r) \in Holes /\ Hole(c, q) \in Holes
        BY <4>1, <4>2 DEF Holes
      <4>4. SameStrip(Hole(c, r), Hole(c, q))
        BY <4>1, <4>2, <4>3, HoleIs DEF SameStrip
      <4> QED
        BY <4>2, <4>3, <4>4 DEF BoardContacts
    <3>2. CASE e \in RT
      <4>1. PICK c \in 1 .. Columns : e = <<FirstOfRail(c), RailHole(c)>>
        BY <3>2 DEF RailTouch
      <4>2. /\ FirstOfRail(c) = RailHole(FirstColumn(c)) /\ FirstColumn(c) \in 1 .. Columns
            /\ RailSegmentOf(FirstColumn(c)) = RailSegmentOf(c)
        BY FirstOfTheRail, NetlistAssumption
      <4>3. RailHole(c) \in Holes /\ FirstOfRail(c) \in Holes
        BY <4>2 DEF RailHole, Holes
      <4>4. SameStrip(FirstOfRail(c), RailHole(c))
        BY <4>2, <4>3, HoleIs DEF SameStrip, RailHole
      <4> QED
        BY <4>1, <4>3, <4>4 DEF BoardContacts
    <3> QED
      BY <2>1, <3>1, <3>2
  <2> HIDE DEF CC, RT
  <2> QED
    BY <1>2, <2>1 DEF Closed
<1> QED
  BY <1>1, <1>2, Zenon

(* addBreadboard joins the holes of every strip, and nothing else.             *)
LEMMA StripsAreGlued ==
    ASSUME NEW f, NEW D, NEW E, Glued(f, D, E)
    PROVE  Glued(WithStrips(f), D \cup Holes, E \cup BoardContacts)
<1> DEFINE CH == UNION {ColumnHoles(c) : c \in 1 .. Columns}
           CC == UNION {ColumnContacts(c) : c \in 1 .. Columns}
           RM == UNION {RailMore(c) : c \in 1 .. Columns}
           RT == UNION {RailTouch(c) : c \in 1 .. Columns}
           U == D \cup Holes
           g == WithColumns(f)
<1>1. CH \cup RM = Holes
  BY BoardHoles, Zenon
<1>2. \A c \in 1 .. Columns : ColumnHoles(c) \subseteq CH /\ RailMore(c) \subseteq RM
  OBVIOUS
<1>3. Columns \in Nat
  BY NetlistAssumption
<1>4. Glued(g, D \cup CH, E \cup CC)
  <2> DEFINE r == ColumnsOf(f)
             more == [c \in 1 .. Columns |-> ColumnHoles(c)]
             touch == [c \in 1 .. Columns |-> ColumnContacts(c)]
  <2>1. f \in Forests(U)
    BY GluedIsAForest
  <2>2. \A c \in 1 .. Columns : ColumnHoles(c) \subseteq U
    <3> HIDE DEF CH, RM
    <3> QED
      BY <1>1, <1>2
  <2>3. r[0] = f /\ \A c \in 1 .. Columns : r[c] = WithColumn(r[c - 1], c)
    <3> HIDE DEF U
    <3> QED
      BY <2>1, <2>2, ColumnsUnfold
  <2>4. \A c \in 1 .. Columns : more[c] = ColumnHoles(c) /\ touch[c] = ColumnContacts(c)
    OBVIOUS
  <2> HIDE DEF r, more, touch
  <2>5. \A c \in 1 .. Columns : Adds(r[c - 1], r[c], more[c], touch[c])
    BY <2>3, <2>4, ColumnAdds
  <2>6. Glued(r[0], D, E)
    BY <2>3
  <2>7. Glued(r[Columns], D \cup AllOf(more, Columns), E \cup AllOf(touch, Columns))
    BY <1>3, <2>5, <2>6, LoopIsGlued
  <2>8. AllOf(more, Columns) = CH /\ AllOf(touch, Columns) = CC
    BY <2>4 DEF AllOf
  <2>9. g = r[Columns]
    BY StripsAreLoops DEF r
  <2> HIDE DEF CH, CC, g
  <2> QED
    BY <2>7, <2>8, <2>9
<1>5. Glued(WithRails(g), (D \cup CH) \cup RM, (E \cup CC) \cup RT)
  <2> DEFINE r == RailsOf(g)
             more == [c \in 1 .. Columns |-> RailMore(c)]
             touch == [c \in 1 .. Columns |-> RailTouch(c)]
             A == D \cup CH
             B == E \cup CC
  <2>1. A \subseteq U
    <3> HIDE DEF CH, RM
    <3> QED
      BY <1>1
  <2>2. \A c \in 1 .. Columns : RailMore(c) \subseteq U
    <3> HIDE DEF CH, RM
    <3> QED
      BY <1>1, <1>2
  <2> HIDE DEF A, B, U, g
  <2>3. Glued(g, A, B)
    BY <1>4 DEF A, B
  <2>4. g \in Forests(U)
    BY <2>1, <2>3, GluedIsAForest
  <2>5. r[0] = g /\ \A c \in 1 .. Columns : r[c] = WithRail(r[c - 1], c)
    BY <2>4, <2>2, RailsUnfold
  <2>6. \A c \in 1 .. Columns : more[c] = RailMore(c) /\ touch[c] = RailTouch(c)
    OBVIOUS
  <2> HIDE DEF r, more, touch
  <2>7. \A c \in 1 .. Columns : Adds(r[c - 1], r[c], more[c], touch[c])
    BY <2>5, <2>6, RailAdds
  <2>8. Glued(r[0], A, B)
    BY <2>3, <2>5
  <2>9. Glued(r[Columns], A \cup AllOf(more, Columns), B \cup AllOf(touch, Columns))
    BY <1>3, <2>7, <2>8, LoopIsGlued
  <2>10. AllOf(more, Columns) = RM /\ AllOf(touch, Columns) = RT
    BY <2>6 DEF AllOf
  <2>11. WithRails(g) = r[Columns]
    BY StripsAreLoops DEF r
  <2>12. Glued(WithRails(g), A \cup RM, B \cup RT)
    <3> HIDE DEF RM, RT
    <3> QED
      BY <2>9, <2>10, <2>11
  <2> QED
    BY <2>12 DEF A, B
<1>6. \A S : Closed(S, CC \cup RT) <=> Closed(S, BoardContacts)
  BY StripsOfTheBoard, Zenon
<1>7. WithStrips(f) = WithRails(g)
  BY StripsAreLoops
<1> HIDE DEF CH, CC, RM, RT, U, g
<1>8. (D \cup CH) \cup RM = D \cup Holes
  BY <1>1
<1>9. \A S : Closed(S, (E \cup CC) \cup RT) <=> Closed(S, E \cup BoardContacts)
  BY <1>6, ClosedByMore
<1>10. E \cup BoardContacts \subseteq (D \cup Holes) \X (D \cup Holes)
  BY DEF Glued, BoardContacts
<1> QED
  BY <1>5, <1>7, <1>8, <1>9, <1>10, SameContacts

-------------------------------------------------------------------------------
(* buildCircuit.  The terminals declared so far, and the contacts of the strips *)
(* and wires among them.                                                       *)
PinsOf(names) == {Pin(n) : n \in names}

Declared(todo) ==
    (IF "board" \in todo THEN {} ELSE Holes) \cup (IF "uno" \in todo THEN {} ELSE PinsOf(Pins))
    \cup (IF "part" \in todo THEN {} ELSE PinsOf(Legs))

Contacts(D, W) == {e \in D \X D : SameStrip(e[1], e[2]) \/ e \in W}

(* What every step keeps: the forest is that of the contacts gone through.     *)
NetInv ==
    /\ parts \subseteq {"board", "uno", "part"}
    /\ IsFiniteSet(wires) /\ Cardinality(wires) <= MaxWires /\ wires \subseteq WireEnds \X WireEnds
    /\ parts # {} => wires = {} /\ ~resolved
    /\ Glued(forest, Declared(parts), Contacts(Declared(parts), wires))
    /\ grounded = IF "uno" \in parts THEN {} ELSE PinsOf(GroundPins)
    /\ resolved => nodes = Resolution

LEMMA PinsAreNoHoles == ASSUME NEW n PROVE Pin(n) \notin Holes
<1> SUFFICES ASSUME Pin(n) \in Holes PROVE FALSE
  OBVIOUS
<1>1. PICK c \in 1 .. Columns, r \in ToSet(Upper) \cup ToSet(Lower) \cup {"rail"} : Pin(n) = Hole(c, r)
  BY DEF Holes
<1>2. c = 0
  BY <1>1 DEF Pin, Hole
<1> QED
  BY <1>2, NetlistAssumption

LEMMA EmptyIsGlued == Glued(Empty, {}, {})
<1> DEFINE R == [t \in {} |-> t]
<1>1. Empty \in [parent : [{} -> {}], size : [{} -> Nat]] /\ R \in [{} -> {}]
  BY DEF Empty
<1>2. [t \in {} |-> 0] \in [{} -> Nat] /\ Falls(Empty, {}, R, [t \in {} |-> 0])
  BY DEF Falls
<1>3. RootedBy(Empty, {}, R)
  BY <1>1, <1>2 DEF RootedBy
<1>4. Glues(R, {}, {})
  BY DEF Glues, Closed, Saturated
<1> QED
  BY <1>3, <1>4 DEF Glued

LEMMA NetInvHolds == NetInit => NetInv
<1> SUFFICES ASSUME NetInit PROVE NetInv
  OBVIOUS
<1>1. Declared(parts) = {} /\ Contacts(Declared(parts), wires) = {}
  BY DEF NetInit, Declared, Contacts
<1>2. Glued(forest, Declared(parts), Contacts(Declared(parts), wires))
  BY <1>1, EmptyIsGlued DEF NetInit
<1>3. IsFiniteSet(wires) /\ Cardinality(wires) = 0
  BY FS_EmptySet DEF NetInit
<1> QED
  BY <1>2, <1>3, NetlistAssumption DEF NetInv, NetInit

LEMMA PinsTouchNothing ==
    ASSUME NEW D, NEW names
    PROVE  Contacts(D \cup PinsOf(names), {}) = Contacts(D, {})
<1>1. ASSUME NEW e \in Contacts(D \cup PinsOf(names), {}) PROVE e \in D \X D
  <2>1. e \in (D \cup PinsOf(names)) \X (D \cup PinsOf(names)) /\ e[1] \in Holes /\ e[2] \in Holes
    BY <1>1 DEF Contacts, SameStrip
  <2>2. \A t \in PinsOf(names) : t \notin Holes
    BY PinsAreNoHoles DEF PinsOf
  <2> QED
    BY <2>1, <2>2
<1>2. Contacts(D \cup PinsOf(names), {}) \subseteq Contacts(D, {})
  BY <1>1 DEF Contacts
<1> QED
  BY <1>2 DEF Contacts

LEMMA DeclareKeepsNetInv ==
    ASSUME NetInv, NEW part \in parts, Declare(part)
    PROVE  NetInv'
<1> DEFINE D == Declared(parts)
<1>1. /\ parts' = parts \ {part} /\ wires = {} /\ ~resolved /\ wires' = {} /\ ~resolved'
      /\ part \in {"board", "uno", "part"} /\ parts' \subseteq {"board", "uno", "part"}
  BY DEF NetInv, Declare
<1>2. Glued(forest, D, Contacts(D, {}))
  BY <1>1 DEF NetInv
<1>3. CASE part = "board"
  <2>1. forest' = WithStrips(forest) /\ grounded' = grounded
    BY <1>3 DEF Declare
  <2>2. Declared(parts') = D \cup Holes
    BY <1>1, <1>3 DEF Declared
  <2> HIDE DEF D
  <2>3. Contacts(D \cup Holes, {}) = Contacts(D, {}) \cup BoardContacts
    BY DEF Contacts, BoardContacts, SameStrip
  <2>4. Glued(forest', Declared(parts'), Contacts(Declared(parts'), {}))
    BY <1>2, <2>1, <2>2, <2>3, StripsAreGlued
  <2>5. "uno" \in parts' <=> "uno" \in parts
    BY <1>1, <1>3
  <2> QED
    BY <1>1, <2>1, <2>4, <2>5 DEF NetInv
<1>4. CASE part = "uno"
  <2>1. forest' = Add(forest, PinsOf(Pins)) /\ grounded' = PinsOf(GroundPins)
    BY <1>4 DEF Declare, WithPins, PinsOf
  <2>2. Declared(parts') = D \cup PinsOf(Pins)
    BY <1>1, <1>4 DEF Declared
  <2> HIDE DEF D
  <2>3. Glued(forest', Declared(parts'), Contacts(Declared(parts'), {}))
    BY <1>2, <2>1, <2>2, PinsTouchNothing, AddedIsGlued
  <2>4. "uno" \notin parts'
    BY <1>1, <1>4
  <2> QED
    BY <1>1, <2>1, <2>3, <2>4 DEF NetInv
<1>5. CASE part = "part"
  <2>1. forest' = Add(forest, PinsOf(Legs)) /\ grounded' = grounded
    BY <1>5 DEF Declare, WithPins, PinsOf
  <2>2. Declared(parts') = D \cup PinsOf(Legs)
    BY <1>1, <1>5 DEF Declared
  <2> HIDE DEF D
  <2>3. Glued(forest', Declared(parts'), Contacts(Declared(parts'), {}))
    BY <1>2, <2>1, <2>2, PinsTouchNothing, AddedIsGlued
  <2>4. "uno" \in parts' <=> "uno" \in parts
    BY <1>1, <1>5
  <2> QED
    BY <1>1, <2>1, <2>3, <2>4 DEF NetInv
<1> QED
  BY <1>1, <1>3, <1>4, <1>5

LEMMA WireKeepsNetInv ==
    ASSUME NetInv, NEW a \in WireEnds, NEW b \in WireEnds, Wire(a, b)
    PROVE  NetInv'
<1> DEFINE D == Declared(parts)
           e == <<a, b>>
<1>1. /\ parts = {} /\ parts' = {} /\ ~resolved /\ ~resolved' /\ Cardinality(wires) < MaxWires
      /\ e \notin wires /\ wires' = wires \cup {e} /\ grounded' = grounded
  BY DEF Wire
<1>2. Glued(forest, D, Contacts(D, wires))
  BY DEF NetInv
<1>3. DOMAIN forest.parent = D
  BY <1>2 DEF Glued, RootedBy
<1>4. forest' = IF a \in D /\ b \in D THEN Joined(forest, a, b) ELSE forest
  BY <1>3 DEF Wire
<1>5. Declared(parts') = D
  BY <1>1
<1> HIDE DEF D
<1>6. Glued(forest', D, Contacts(D, wires'))
  <2>1. CASE a \in D /\ b \in D
    <3>1. Contacts(D, wires') = Contacts(D, wires) \cup {e}
      BY <1>1, <2>1 DEF Contacts
    <3>2. D \cup {a, b} = D
      BY <2>1
    <3> QED
      BY <1>2, <1>4, <2>1, <3>1, <3>2, JoinedIsGlued
  <2>2. CASE ~(a \in D /\ b \in D)
    <3>1. e \notin D \X D
      BY <2>2
    <3> HIDE DEF e
    <3>2. Contacts(D, wires') = Contacts(D, wires)
      BY <1>1, <3>1 DEF Contacts
    <3> QED
      BY <1>2, <1>4, <2>2, <3>2
  <2> QED
    BY <2>1, <2>2
<1>7. IsFiniteSet(wires') /\ Cardinality(wires') = Cardinality(wires) + 1 /\ Cardinality(wires) \in Nat
  <2> HIDE DEF e
  <2> QED
    BY <1>1, FS_AddElement, FS_CardinalityType DEF NetInv
<1>8. Cardinality(wires') <= MaxWires
  BY <1>1, <1>7, NetlistAssumption
<1>9. wires' \subseteq WireEnds \X WireEnds
  BY <1>1 DEF NetInv
<1> QED
  BY <1>1, <1>5, <1>6, <1>7, <1>8, <1>9 DEF NetInv

LEMMA ResolveKeepsNetInv ==
    ASSUME NetInv, Resolve
    PROVE  NetInv'
<1>1. UNCHANGED <<parts, forest, grounded, wires>> /\ nodes' = Resolution /\ parts = {}
  BY DEF Resolve
<1>2. Resolution' = Resolution
  BY <1>1 DEF Resolution, Live
<1> QED
  BY <1>1, <1>2 DEF NetInv

LEMMA NetStep == NetInv /\ [NetNext]_netVars => NetInv'
<1> SUFFICES ASSUME NetInv, [NetNext]_netVars PROVE NetInv'
  OBVIOUS
<1>1. CASE UNCHANGED netVars
  BY <1>1 DEF NetInv, netVars, Resolution, Live
<1> QED
  BY <1>1, DeclareKeepsNetInv, WireKeepsNetInv, ResolveKeepsNetInv DEF NetNext

-------------------------------------------------------------------------------
(* The pieces of metal: grown far enough, they are the trees of the forest.    *)
Far == 2 * MaxWires + 1
ReachOf(t) == CHOOSE g : g = [i \in 0 .. Far |-> IF i = 0 THEN {t} ELSE Wider(g[i - 1])]

LEMMA ReachUnfolds ==
    ASSUME NEW t \in Present
    PROVE  /\ Piece(t) = ReachOf(t)[Far]
           /\ ReachOf(t)[0] = {t}
           /\ \A i \in 1 .. Far : ReachOf(t)[i] = Wider(ReachOf(t)[i - 1])
           /\ \A i \in 0 .. Far : ReachOf(t)[i] \subseteq Present
<1> DEFINE n == Far
           V == SUBSET Present
           step == [i \in 1 .. n |-> [x \in V |-> Wider(x)]]
<1>1. n \in Nat
  BY NetlistAssumption DEF Far
<1>2. Piece(t) = ReachOf(t)[n]
  BY DEF Piece, ReachOf, Far
<1> HIDE DEF n
<1>3. \A x \in V : Wider(x) \in V
  BY DEF Wider
<1> HIDE DEF V
<1>4. step \in [1 .. n -> [V -> V]] /\ {t} \in V
  BY <1>3 DEF V
<1>5. \A i \in 1 .. n : \A x \in V : step[i][x] = Wider(x)
  OBVIOUS
<1> HIDE DEF step
<1>6. PICK g \in [0 .. n -> V] : IsRun(g, n, {t}, step)
  BY <1>1, <1>4, LoopRuns
<1>7. g = [i \in 0 .. n |-> IF i = 0 THEN {t} ELSE step[i][g[i - 1]]]
  BY <1>6 DEF IsRun
<1>8. \A i \in 0 .. n : g[i] = IF i = 0 THEN {t} ELSE Wider(g[i - 1])
  <2> SUFFICES ASSUME NEW i \in 0 .. n PROVE g[i] = IF i = 0 THEN {t} ELSE Wider(g[i - 1])
    OBVIOUS
  <2>1. CASE i = 0
    BY <1>7, <2>1
  <2>2. CASE i # 0
    <3>1. i \in 1 .. n /\ i - 1 \in 0 .. n
      BY <1>1, <2>2
    <3>2. g[i - 1] \in V
      BY <1>6, <3>1
    <3> QED
      BY <1>5, <1>7, <2>2, <3>1, <3>2
  <2> QED
    BY <2>1, <2>2
<1>9. g = [i \in 0 .. n |-> g[i]]
  BY <1>6
<1>10. g = [i \in 0 .. n |-> IF i = 0 THEN {t} ELSE Wider(g[i - 1])]
  BY <1>8, <1>9
<1> DEFINE r == ReachOf(t)
<1>11. r = [i \in 0 .. n |-> IF i = 0 THEN {t} ELSE Wider(r[i - 1])]
  BY <1>10 DEF ReachOf, n
<1> HIDE DEF r
<1>17. \A i \in 0 .. n : r[i] = IF i = 0 THEN {t} ELSE Wider(r[i - 1])
  BY <1>11, Zenon
<1>12. r[0] = {t} /\ \A i \in 1 .. n : r[i] = Wider(r[i - 1])
  BY <1>1, <1>17
<1> DEFINE T == {i \in 0 .. n : r[i] \in V}
<1>13. 0 \in T
  <2>1. r[0] \in V /\ 0 \in 0 .. n
    BY <1>1, <1>4, <1>12
  <2> QED
    BY <2>1
<1>14. \A i \in 1 .. n : i - 1 \in T => i \in T
  <2> SUFFICES ASSUME NEW i \in 1 .. n, i - 1 \in T PROVE i \in T
    OBVIOUS
  <2>1. r[i] = Wider(r[i - 1]) /\ r[i - 1] \in V /\ i \in 0 .. n
    BY <1>1, <1>12
  <2> QED
    BY <1>3, <2>1
<1> HIDE DEF T
<1>15. \A i \in 0 .. n : i \in T
  BY <1>1, <1>13, <1>14, Climbs
<1>16. \A i \in 0 .. n : r[i] \subseteq Present
  BY <1>15 DEF T, V
<1> QED
  BY <1>2, <1>12, <1>16 DEF r, n

LEMMA StripsAreSymmetric == ASSUME NEW a, NEW b, SameStrip(a, b) PROVE SameStrip(b, a)
BY DEF SameStrip

LEMMA StripsAreTransitive ==
    ASSUME NEW a, NEW b, NEW c, SameStrip(a, b), SameStrip(b, c) PROVE SameStrip(a, c)
BY NetlistAssumption DEF SameStrip

LEMMA PresentIsDeclared == Present = Declared({}) /\ Ground \notin Present
<1>1. \A n \in Pins \cup Legs \cup Ghosts : Pin(n) \notin Holes
  BY PinsAreNoHoles
<1>2. \A m, n : Pin(m) = Pin(n) => m = n
  BY DEF Pin
<1>3. Declared({}) = Holes \cup PinsOf(Pins \cup Legs)
  BY DEF Declared, PinsOf
<1>4. Present = Holes \cup PinsOf(Pins \cup Legs)
  BY <1>1, <1>2, NetlistAssumption DEF Present, Terminals, PinsOf
<1>5. Ground \notin Holes /\ Ground \notin PinsOf(Pins \cup Legs)
  BY <1>2, PinsAreNoHoles, NetlistAssumption DEF Ground, PinsOf
<1> QED
  BY <1>3, <1>4, <1>5

(* What the contacts of a set leave is reached from it in one step.            *)
LEMMA NotWiderIsClosed ==
    ASSUME NEW S \in SUBSET Present, Wider(S) = S
    PROVE  Closed(S, Contacts(Present, wires))
<1> SUFFICES ASSUME NEW e \in Contacts(Present, wires) PROVE e[1] \in S <=> e[2] \in S
  BY DEF Closed
<1>1. e = <<e[1], e[2]>> /\ e[1] \in Present /\ e[2] \in Present /\ (SameStrip(e[1], e[2]) \/ e \in wires)
  BY DEF Contacts
<1>2. \A u \in Present, v \in S : Near(v, u) => u \in S
  BY DEF Wider
<1>3. Near(e[1], e[2]) /\ Near(e[2], e[1])
  BY <1>1, StripsAreSymmetric DEF Near
<1> QED
  BY <1>1, <1>2, <1>3

(* No contact leads out of a closed set.                                       *)
LEMMA ClosedIsNotLeft ==
    ASSUME NEW C \in SUBSET Present, Closed(C, Contacts(Present, wires)), NEW S \in SUBSET C
    PROVE  Wider(S) \in SUBSET C
<1> SUFFICES ASSUME NEW u \in Present, NEW v \in S, Near(v, u) PROVE u \in C
  BY DEF Wider
<1>1. v \in C /\ v \in Present
  OBVIOUS
<1>2. CASE SameStrip(v, u) \/ <<v, u>> \in wires
  <2> DEFINE e == <<v, u>>
  <2>1. e[1] = v /\ e[2] = u
    OBVIOUS
  <2>2. e \in Contacts(Present, wires)
    BY <1>1, <1>2 DEF Contacts
  <2>3. e[1] \in C <=> e[2] \in C
    <3> HIDE DEF e
    <3> QED
      BY <2>2 DEF Closed
  <2> QED
    BY <1>1, <2>1, <2>3
<1>3. CASE <<u, v>> \in wires
  <2> DEFINE e == <<u, v>>
  <2>1. e[1] = u /\ e[2] = v
    OBVIOUS
  <2>2. e \in Contacts(Present, wires)
    BY <1>1, <1>3 DEF Contacts
  <2>3. e[1] \in C <=> e[2] \in C
    <3> HIDE DEF e
    <3> QED
      BY <2>2 DEF Closed
  <2> QED
    BY <1>1, <2>1, <2>3
<1> QED
  BY <1>2, <1>3 DEF Near

(* The wires whose ends are both in a set; growing the set twice adds one.     *)
WiresIn(S) == {w \in wires : w[1] \in S /\ w[2] \in S}

LEMMA TwiceWiderAddsAWire ==
    ASSUME NEW S \in SUBSET Present, Wider(Wider(S)) # Wider(S)
    PROVE  \E w \in wires : w \in WiresIn(Wider(Wider(S))) /\ w \notin WiresIn(S)
<1> DEFINE S1 == Wider(S)
           S2 == Wider(S1)
<1>1. S \subseteq S1 /\ S1 \subseteq S2
  BY DEF Wider
<1>2. PICK u \in S2 : u \notin S1
  BY <1>1
<1>3. PICK v \in S1 : Near(v, u) /\ u \in Present
  BY <1>2 DEF Wider
<1>4. \A x \in S : ~Near(x, u)
  BY <1>2, <1>3 DEF Wider
<1>5. v \notin S /\ u \notin S
  BY <1>1, <1>2, <1>3, <1>4
<1>6. PICK x \in S : Near(x, v)
  BY <1>5 DEF Wider
<1>7. ~SameStrip(x, v) \/ ~SameStrip(v, u)
  BY <1>4, StripsAreTransitive DEF Near
<1>8. ASSUME NEW a, NEW b, <<a, b>> \in wires, a \in S2, b \in S2, a \notin S \/ b \notin S
      PROVE  \E w \in wires : w \in WiresIn(S2) /\ w \notin WiresIn(S)
  <2> DEFINE w == <<a, b>>
  <2>1. w[1] = a /\ w[2] = b
    OBVIOUS
  <2>2. w \in wires
    BY <1>8
  <2> HIDE DEF w, S2
  <2>3. w \in WiresIn(S2) /\ w \notin WiresIn(S)
    BY <1>8, <2>1, <2>2 DEF WiresIn
  <2> QED
    BY <2>2, <2>3
<1>9. u \in S2 /\ v \in S2 /\ x \in S2
  BY <1>1, <1>2, <1>3, <1>6
<1> HIDE DEF S2, S1
<1>10. CASE ~SameStrip(v, u)
  <2>1. <<v, u>> \in wires \/ <<u, v>> \in wires
    BY <1>3, <1>10 DEF Near
  <2>2. \E w \in wires : w \in WiresIn(S2) /\ w \notin WiresIn(S)
    BY <1>5, <1>8, <1>9, <2>1
  <2> QED
    BY <2>2 DEF S2, S1
<1>11. CASE ~SameStrip(x, v)
  <2>1. <<x, v>> \in wires \/ <<v, x>> \in wires
    BY <1>6, <1>11 DEF Near
  <2>2. \E w \in wires : w \in WiresIn(S2) /\ w \notin WiresIn(S)
    BY <1>5, <1>8, <1>9, <2>1
  <2> QED
    BY <2>2 DEF S2, S1
<1> QED
  BY <1>7, <1>10, <1>11

(* There are not wires enough for a piece to keep growing.                     *)
LEMMA GrowthEnds ==
    ASSUME NetInv, NEW t \in Present
    PROVE  Wider(Piece(t)) = Piece(t)
<1> DEFINE r == ReachOf(t)
           n == Far
<1>1. /\ Piece(t) = r[n] /\ r[0] = {t}
      /\ \A i \in 1 .. n : r[i] = Wider(r[i - 1])
      /\ \A i \in 0 .. n : r[i] \subseteq Present
  BY ReachUnfolds
<1>2. MaxWires \in Nat /\ n \in Nat /\ n = 2 * MaxWires + 1
  BY NetlistAssumption DEF Far
<1>3. IsFiniteSet(wires) /\ Cardinality(wires) <= MaxWires /\ Cardinality(wires) \in Nat
  BY FS_CardinalityType DEF NetInv
<1> HIDE DEF r, n
<1> SUFFICES ASSUME Wider(r[n]) # r[n] PROVE FALSE
  BY <1>1
<1>4. \A i \in 0 .. n : Wider(r[i]) # r[i]
  <2> SUFFICES ASSUME NEW i \in 0 .. n, Wider(r[i]) = r[i] PROVE FALSE
    OBVIOUS
  <2> DEFINE T == {j \in 0 .. n - i : r[i + j] = r[i]}
  <2>1. 0 \in T
    BY <1>2
  <2>2. ASSUME NEW j \in 1 .. n - i, j - 1 \in T PROVE j \in T
    <3>1. i + j \in 1 .. n /\ i + j - 1 = i + (j - 1) /\ j \in 0 .. n - i
      BY <1>2
    <3>2. r[i + j] = Wider(r[i + (j - 1)])
      BY <1>1, <3>1
    <3>3. r[i + (j - 1)] = r[i]
      BY <2>2
    <3> QED
      BY <3>1, <3>2, <3>3
  <2>3. n - i \in Nat /\ \A j \in 1 .. n - i : j - 1 \in T => j \in T
    BY <1>2, <2>2
  <2> HIDE DEF T
  <2>4. \A j \in 0 .. n - i : j \in T
    BY <2>1, <2>3, Climbs
  <2>5. n - i \in T
    BY <2>3, <2>4
  <2>6. r[i + (n - i)] = r[i] /\ i + (n - i) = n
    BY <1>2, <2>5 DEF T
  <2> QED
    BY <2>6
<1> DEFINE In(k) == WiresIn(IF k = MaxWires + 1 THEN Wider(r[n]) ELSE r[2 * k])
           T == {k \in 0 .. MaxWires + 1 : Cardinality(In(k)) >= k}
<1>5. \A k \in 0 .. MaxWires + 1 : IsFiniteSet(In(k)) /\ Cardinality(In(k)) \in Nat /\ Cardinality(In(k)) <= Cardinality(wires)
  <2> SUFFICES ASSUME NEW k \in 0 .. MaxWires + 1
               PROVE  IsFiniteSet(In(k)) /\ Cardinality(In(k)) \in Nat /\ Cardinality(In(k)) <= Cardinality(wires)
    OBVIOUS
  <2>1. In(k) \subseteq wires
    BY DEF WiresIn
  <2> HIDE DEF In
  <2> QED
    BY <1>3, <2>1, FS_Subset, FS_CardinalityType
<1>6. ASSUME NEW k \in 1 .. MaxWires + 1 PROVE Cardinality(In(k)) >= Cardinality(In(k - 1)) + 1
  <2> DEFINE S == r[2 * (k - 1)]
  <2>1. /\ 2 * (k - 1) \in 0 .. n /\ 2 * (k - 1) + 1 \in 1 .. n
        /\ k - 1 \in 0 .. MaxWires + 1 /\ k - 1 # MaxWires + 1
    BY <1>2
  <2>2. S \in SUBSET Present /\ r[2 * (k - 1) + 1] = Wider(S)
    <3>1. (2 * (k - 1) + 1) - 1 = 2 * (k - 1)
      BY <1>2
    <3> QED
      BY <1>1, <2>1, <3>1
  <2>3. Wider(Wider(S)) # Wider(S)
    BY <1>4, <2>1, <2>2
  <2>4. In(k - 1) = WiresIn(S)
    BY <2>1
  <2>5. In(k) = WiresIn(Wider(Wider(S)))
    <3>1. CASE k = MaxWires + 1
      <4>1. 2 * (k - 1) + 1 = n
        BY <1>2, <3>1
      <4> QED
        BY <2>2, <3>1, <4>1
    <3>2. CASE k # MaxWires + 1
      <4>1. 2 * k \in 1 .. n /\ 2 * k - 1 = 2 * (k - 1) + 1
        BY <1>2, <3>2
      <4>2. r[2 * k] = Wider(r[2 * (k - 1) + 1])
        BY <1>1, <4>1
      <4> QED
        BY <2>2, <3>2, <4>2
    <3> QED
      BY <3>1, <3>2
  <2> HIDE DEF S, In
  <2>6. PICK w \in wires : w \in In(k) /\ w \notin In(k - 1)
    BY <2>2, <2>3, <2>4, <2>5, TwiceWiderAddsAWire
  <2>7. In(k - 1) \subseteq In(k)
    BY <2>4, <2>5 DEF WiresIn, Wider
  <2>8. IsFiniteSet(In(k - 1)) /\ IsFiniteSet(In(k)) /\ Cardinality(In(k)) \in Nat /\ Cardinality(In(k - 1)) \in Nat
    BY <1>5, <2>1
  <2>9. Cardinality(In(k - 1) \cup {w}) = Cardinality(In(k - 1)) + 1
    BY <2>6, <2>8, FS_AddElement
  <2>10. In(k - 1) \cup {w} \subseteq In(k)
    BY <2>6, <2>7
  <2>11. Cardinality(In(k - 1) \cup {w}) <= Cardinality(In(k))
    BY <2>8, <2>10, FS_Subset
  <2> QED
    BY <2>8, <2>9, <2>11
<1> HIDE DEF In
<1>7. 0 \in T
  BY <1>2, <1>5
<1>8. \A k \in 1 .. MaxWires + 1 : k - 1 \in T => k \in T
  <2> SUFFICES ASSUME NEW k \in 1 .. MaxWires + 1, k - 1 \in T PROVE k \in T
    OBVIOUS
  <2>1. k - 1 \in 0 .. MaxWires + 1 /\ k \in 0 .. MaxWires + 1 /\ Cardinality(In(k - 1)) >= k - 1
    BY <1>2
  <2>2. Cardinality(In(k)) >= k
    BY <1>5, <1>6, <2>1
  <2> QED
    BY <2>1, <2>2
<1> HIDE DEF T
<1>9. MaxWires + 1 \in T
  <2>1. MaxWires + 1 \in Nat /\ MaxWires + 1 \in 0 .. MaxWires + 1
    BY <1>2
  <2>2. \A k \in 0 .. MaxWires + 1 : k \in T
    BY <1>7, <1>8, <2>1, Climbs
  <2> QED
    BY <2>1, <2>2
<1>10. Cardinality(In(MaxWires + 1)) >= MaxWires + 1 /\ MaxWires + 1 \in 0 .. MaxWires + 1
  BY <1>2, <1>9 DEF T
<1>11. Cardinality(In(MaxWires + 1)) \in Nat /\ Cardinality(In(MaxWires + 1)) <= Cardinality(wires)
  BY <1>5, <1>10
<1> QED
  BY <1>2, <1>3, <1>10, <1>11

TreeOf(R, t) == {u \in Present : R[u] = R[t]}

LEMMA PieceIsATree ==
    ASSUME NetInv, NEW R, Glues(R, Present, Contacts(Present, wires)), NEW t \in Present
    PROVE  Piece(t) = TreeOf(R, t)
<1> DEFINE r == ReachOf(t)
           n == Far
           C == TreeOf(R, t)
           E == Contacts(Present, wires)
<1>1. /\ Piece(t) = r[n] /\ r[0] = {t}
      /\ \A i \in 1 .. n : r[i] = Wider(r[i - 1])
      /\ \A i \in 0 .. n : r[i] \subseteq Present
  BY ReachUnfolds
<1>2. n \in Nat
  BY NetlistAssumption DEF Far
<1>3. C \in SUBSET Present /\ t \in C /\ \A u \in C : R[u] = R[t]
  BY DEF TreeOf
<1>4. Saturated(C, Present, R)
  BY DEF Saturated, TreeOf
<1>5. Closed(C, E)
  BY <1>3, <1>4 DEF Glues
<1> HIDE DEF r, n, C
<1> DEFINE T == {i \in 0 .. n : t \in r[i] /\ r[i] \subseteq C}
<1>6. 0 \in T
  BY <1>1, <1>2, <1>3
<1>7. \A i \in 1 .. n : i - 1 \in T => i \in T
  <2> SUFFICES ASSUME NEW i \in 1 .. n, i - 1 \in T PROVE i \in T
    OBVIOUS
  <2>1. t \in r[i - 1] /\ r[i - 1] \in SUBSET C /\ r[i] = Wider(r[i - 1]) /\ i \in 0 .. n
    BY <1>1, <1>2
  <2>2. t \in Wider(r[i - 1])
    BY <2>1 DEF Wider
  <2>3. Wider(r[i - 1]) \in SUBSET C
    BY <1>3, <1>5, <2>1, ClosedIsNotLeft
  <2> QED
    BY <2>1, <2>2, <2>3
<1> HIDE DEF T
<1>8. n \in T
  <2>1. \A i \in 0 .. n : i \in T
    BY <1>2, <1>6, <1>7, Climbs
  <2> QED
    BY <1>2, <2>1
<1> DEFINE P == Piece(t)
<1>9. t \in P /\ P \subseteq C /\ P \in SUBSET Present
  BY <1>1, <1>2, <1>3, <1>8 DEF T
<1>10. Wider(P) = P
  BY GrowthEnds
<1> HIDE DEF P, E
<1>11. Closed(P, E)
  BY <1>9, <1>10, NotWiderIsClosed DEF E
<1>12. Saturated(P, Present, R)
  BY <1>9, <1>11 DEF Glues, E
<1>13. C \subseteq P
  <2> SUFFICES ASSUME NEW u \in C PROVE u \in P
    OBVIOUS
  <2>1. u \in Present /\ R[u] = R[t] /\ t \in Present
    BY <1>3
  <2> QED
    BY <1>9, <1>12, <2>1 DEF Saturated
<1>14. P = C
  BY <1>9, <1>13
<1> QED
  BY <1>14 DEF P, C

(* What is resolved, in terms of the trees.                                    *)
Earth(R) == {R[t] : t \in grounded}
Alive(R) == Earth(R) \cup {R[t] : t \in Live \cap Present}

LEMMA ResolutionByTrees ==
    ASSUME NEW R, RootedBy(forest, Present, R), grounded \subseteq Present
    PROVE  Resolution = [t \in {u \in Present : R[u] \in Alive(R)} |-> IF R[t] \in Earth(R) THEN Ground ELSE R[t]]
<1>1. DOMAIN forest.parent = Present
  BY DEF RootedBy
<1>2. \A t \in Present : Root(forest, t) = R[t]
  BY RootIsTheRoot
<1> DEFINE ground == {Root(forest, t) : t \in grounded}
           live == ground \cup {Root(forest, t) : t \in Live \cap Present}
<1>3. ground = Earth(R)
  BY <1>2 DEF Earth
<1>4. live = Alive(R)
  BY <1>2, <1>3 DEF Alive
<1>5. Resolution = [t \in {u \in Present : Root(forest, u) \in live} |->
                       IF Root(forest, t) \in ground THEN Ground ELSE Root(forest, t)]
  BY <1>1 DEF Resolution
<1> HIDE DEF ground, live
<1>6. {u \in Present : Root(forest, u) \in live} = {u \in Present : R[u] \in Alive(R)}
  BY <1>2, <1>4
<1> QED
  BY <1>2, <1>3, <1>5, <1>6

LEMMA NodesFollow ==
    ASSUME NetInv
    PROVE  NodesAreAsWired
<1> SUFFICES ASSUME resolved PROVE NodesAreAsWired
  BY DEF NodesAreAsWired
<1> DEFINE G == grounded
           A == Live \cup G
           plugged == {m \in Pieces : m \cap A # {}}
           earthed == {m \in plugged : m \cap G # {}}
<1>1. parts = {} /\ nodes = Resolution
  BY DEF NetInv
<1>2. Declared(parts) = Present /\ Ground \notin Present
  BY <1>1, PresentIsDeclared
<1>3. G \subseteq Present
  <2>1. G = PinsOf(GroundPins)
    BY <1>1 DEF NetInv
  <2> QED
    BY <1>1, <1>2, <2>1, NetlistAssumption DEF Declared, PinsOf
<1>4. Glued(forest, Present, Contacts(Present, wires))
  BY <1>2 DEF NetInv
<1>5. PICK R : RootedBy(forest, Present, R) /\ Glues(R, Present, Contacts(Present, wires))
  BY <1>4 DEF Glued
<1>6. nodes = [t \in {u \in Present : R[u] \in Alive(R)} |-> IF R[t] \in Earth(R) THEN Ground ELSE R[t]]
  BY <1>1, <1>3, <1>5, ResolutionByTrees
<1>7. \A t \in Present : Piece(t) = TreeOf(R, t) /\ R[t] \in Present /\ t \in TreeOf(R, t)
  BY <1>5, PieceIsATree DEF TreeOf, RootedBy
<1>8. Pieces = {TreeOf(R, t) : t \in Present}
  BY <1>7 DEF Pieces
<1>9. \A t \in Present : \A u \in TreeOf(R, t) : u \in Present /\ R[u] = R[t]
  BY DEF TreeOf
<1> HIDE DEF G
<1>10. ASSUME NEW m \in Pieces, NEW t \in m
       PROVE  /\ t \in Present /\ m = TreeOf(R, t)
              /\ m \in plugged <=> R[t] \in Alive(R)
              /\ m \in plugged => (m \in earthed <=> R[t] \in Earth(R))
  <2>1. PICK s \in Present : m = TreeOf(R, s)
    BY <1>8
  <2>2. t \in Present /\ R[t] = R[s]
    BY <1>9, <2>1
  <2>3. m = TreeOf(R, t)
    BY <2>1, <2>2 DEF TreeOf
  <2>4. m \cap G # {} <=> R[t] \in Earth(R)
    BY <1>3, <2>3 DEF TreeOf, Earth, G
  <2>5. m \cap A # {} <=> R[t] \in Alive(R)
    BY <1>3, <2>3, <2>4 DEF TreeOf, Alive
  <2> QED
    BY <2>2, <2>3, <2>4, <2>5
<1>11. DOMAIN nodes = UNION plugged
  <2>1. DOMAIN nodes = {u \in Present : R[u] \in Alive(R)}
    BY <1>6
  <2>2. ASSUME NEW u \in Present, R[u] \in Alive(R) PROVE u \in UNION plugged
    <3>1. TreeOf(R, u) \in Pieces /\ u \in TreeOf(R, u)
      BY <1>7, <1>8
    <3>2. TreeOf(R, u) \in plugged
      BY <1>10, <2>2, <3>1
    <3> HIDE DEF plugged
    <3> QED
      BY <3>1, <3>2
  <2>3. ASSUME NEW m \in plugged, NEW u \in m PROVE u \in Present /\ R[u] \in Alive(R)
    BY <1>10, <2>3
  <2> HIDE DEF plugged
  <2> QED
    BY <2>1, <2>2, <2>3
<1>12. \A m \in plugged : m \in Pieces
  OBVIOUS
<1>13. \A m \in plugged : \A a \in m :
         /\ m \in Pieces /\ a \in Present /\ m = TreeOf(R, a) /\ R[a] \in Present
         /\ m \in earthed <=> R[a] \in Earth(R)
         /\ nodes[a] = IF R[a] \in Earth(R) THEN Ground ELSE R[a]
  <2> SUFFICES ASSUME NEW m \in plugged, NEW a \in m
               PROVE  /\ m \in Pieces /\ a \in Present /\ m = TreeOf(R, a) /\ R[a] \in Present
                      /\ m \in earthed <=> R[a] \in Earth(R)
                      /\ nodes[a] = IF R[a] \in Earth(R) THEN Ground ELSE R[a]
    OBVIOUS
  <2>1. m \in Pieces /\ a \in Present /\ m = TreeOf(R, a) /\ R[a] \in Alive(R) /\ (m \in earthed <=> R[a] \in Earth(R))
    BY <1>10, <1>12
  <2> HIDE DEF plugged, earthed
  <2> QED
    BY <1>6, <1>7, <2>1
<1> HIDE DEF plugged, earthed
<1>14. ASSUME NEW m \in plugged, NEW n \in plugged, NEW a \in m, NEW b \in n
       PROVE  nodes[a] = nodes[b] <=> m = n \/ {m, n} \subseteq earthed
  <2>1. /\ a \in Present /\ m = TreeOf(R, a) /\ R[a] \in Present
        /\ m \in earthed <=> R[a] \in Earth(R)
        /\ nodes[a] = IF R[a] \in Earth(R) THEN Ground ELSE R[a]
    BY <1>13
  <2>2. /\ b \in Present /\ n = TreeOf(R, b) /\ R[b] \in Present
        /\ n \in earthed <=> R[b] \in Earth(R)
        /\ nodes[b] = IF R[b] \in Earth(R) THEN Ground ELSE R[b]
    BY <1>13
  <2>3. m = n <=> R[a] = R[b]
    BY <2>1, <2>2 DEF TreeOf
  <2> QED
    BY <1>2, <2>1, <2>2, <2>3
<1>15. ASSUME NEW m \in plugged, NEW a \in m PROVE nodes[a] = Ground <=> m \in earthed
  BY <1>2, <1>13
<1>16. /\ DOMAIN nodes = UNION plugged
       /\ \A m, n \in plugged : \A a \in m, b \in n : nodes[a] = nodes[b] <=> m = n \/ {m, n} \subseteq earthed
       /\ \A m \in plugged : \A a \in m : nodes[a] = Ground <=> m \in earthed
  BY <1>11, <1>14, <1>15
<1> QED
  BY <1>16 DEF NodesAreAsWired, plugged, earthed, G

(* In whatever order the parts and wires of a project are gone through, two    *)
(* terminals are one node of the circuit exactly if there is metal all the way *)
(* between them, or to ground from both: the union-find of netlist.ts over the *)
(* strips of breadboard.ts, for every board and any number of wires.           *)
THEOREM CircuitIsAsWired == NetSpec => []NodesAreAsWired
<1>1. NetInit => NetInv
  BY NetInvHolds
<1>2. NetInv /\ [NetNext]_netVars => NetInv'
  BY NetStep
<1>3. NetInv => NodesAreAsWired
  BY NodesFollow
<1> QED
  BY <1>1, <1>2, <1>3, PTL DEF NetSpec

-------------------------------------------------------------------------------
(* The two buses.                                                              *)
BusEvents == [what : {"byte", "read", "write", "low", "high"}, byte : Byte]
RegisterDevices ==
    [pointer : Byte, awaiting : BOOLEAN, reading : BOOLEAN,
     bytes : [Byte -> Byte], frame : Seq(Byte), lastFrame : Seq(Byte)]
Transfers == [device : Devices \cup {Absent}, byte : Byte, answer : Byte]

BusTypeOK ==
    /\ level \in [SpiDevices -> {"low", "mid", "high"}]
    /\ selected \subseteq SpiDevices
    /\ device \in [Devices -> RegisterDevices]
    /\ log \in Seq(Transfers)
    /\ active \in I2cDevices \cup {Absent} /\ writing \in BOOLEAN
    /\ lastAddress \in I2cDevices \cup {Absent}
    /\ measured \in {0, 1}
    /\ said \in [Devices -> Seq(BusEvents)]
    /\ chattered \subseteq SpiDevices

(* The command a frame begins with, and where it has come to since.            *)
FrameAt(f) == ((IF f[1] >= Size THEN f[1] - Size ELSE f[1]) + Len(f) - 1) % (2 * Size)

(* An SPI device holds the frame on record, and has its command and its        *)
(* pointer from it.                                                            *)
HearsItsFrame(d) ==
    LET f == FrameOf(d)
        r == device[d]
    IN  /\ r.frame = f
        /\ d \notin Streams =>
             /\ r.awaiting <=> f = <<>>
             /\ f # <<>> => r.reading = (f[1] >= Size) /\ r.pointer = FrameAt(f)

(* A chip select that was never left between the rails, or is selected by a    *)
(* low level, counts as the record has it.                                     *)
SpiInv(d) ==
    /\ d \in selected <=> Asserted(d)
    /\ level[d] = "mid" => d \in ActiveLow
    /\ level[d] # "mid" => (d \in selected <=> level[d] = On(d))
    /\ d \notin selected => FrameOf(d) = <<>>
    /\ d \in selected => HearsItsFrame(d)

(* An I2C device points where the host means it to.                            *)
I2cInv(d) ==
    /\ device[d].pointer = Meant(d)
    /\ active = d /\ writing =>
         /\ said[d] # <<>>
         /\ device[d].awaiting <=> said[d][Len(said[d])].what = "write"

BusInv ==
    /\ BusTypeOK
    /\ \A d \in SpiDevices \ chattered : SpiInv(d)
    /\ \A d \in I2cDevices : I2cInv(d)

-------------------------------------------------------------------------------
(* Reading what is on record.                                                  *)

LEMMA GreatestNumber ==
    ASSUME NEW T, T \subseteq Nat, T # {}, NEW n \in Nat, \A x \in T : x <= n
    PROVE  \E x \in T : \A y \in T : y <= x
<1> DEFINE bounds == {m \in Nat : \A x \in T : x <= m}
<1>1. PICK m \in bounds : \A k \in bounds : m <= k
  <2>1. bounds \subseteq Nat /\ n \in bounds
    OBVIOUS
  <2> HIDE DEF bounds
  <2>2. QED
    BY <2>1, LeastNumber
<1>2. PICK y \in T : TRUE
  OBVIOUS
<1>3. CASE m \notin T
  <2>1. \A x \in T : x < m
    BY <1>3, <1>1
  <2>2. m - 1 \in bounds
    BY <2>1, <1>1, <1>2
  <2>3. QED
    BY <2>2, <1>1
<1>4. QED
  BY <1>1, <1>3

(* Every place in a finite set of numbers is somebody's.                       *)
LEMMA EveryRankIsTaken ==
    ASSUME NEW n \in Nat, NEW S \in SUBSET (1 .. n), NEW i \in 1 .. Cardinality(S)
    PROVE  Ranked(S, i) # {}
<1> DEFINE Upto(k) == {j \in S : j <= k}
           Place(k) == Cardinality(Upto(k))
           T == {k \in S : Place(k) >= i}
<1>1. IsFiniteSet(S) /\ Cardinality(S) \in Nat
  <2>1. IsFiniteSet(1 .. n)
    BY FS_Interval
  <2>2. QED
    BY <2>1, FS_Subset, FS_CardinalityType
<1>2. \A k : IsFiniteSet(Upto(k)) /\ Place(k) \in Nat
  <2>1. \A k : Upto(k) \subseteq S
    OBVIOUS
  <2>2. QED
    BY <2>1, <1>1, FS_Subset, FS_CardinalityType
<1>3. S # {} /\ i \in Nat /\ i >= 1 /\ i <= Cardinality(S)
  BY <1>1, FS_EmptySet
<1>4. \A k \in S : k \in Nat /\ k <= n
  OBVIOUS
<1>5. S \subseteq Nat
  OBVIOUS
<1>6. \A k : k \in T <=> k \in S /\ Place(k) >= i
  OBVIOUS
<1>7. \A k : k \in S /\ Place(k) = i => k \in Ranked(S, i)
  BY DEF Ranked
<1> HIDE DEF T
<1>8. PICK g \in S : \A j \in S : j <= g
  BY <1>3, <1>4, <1>5, GreatestNumber
<1>9. Upto(g) = S
  BY <1>8
<1>10. g \in T
  BY <1>9, <1>3, <1>6
<1>11. PICK k \in T : \A x \in T : k <= x
  <2>1. T \subseteq Nat /\ T # {}
    BY <1>5, <1>6, <1>10
  <2>2. QED
    BY <2>1, LeastNumber
<1> HIDE DEF Place
<1>12. k \in S /\ Place(k) >= i /\ k \in Nat
  BY <1>11, <1>6, <1>4
<1>13. ASSUME Place(k) > i PROVE FALSE
  <2> DEFINE R == Upto(k) \ {k}
  <2>1. k \in Upto(k)
    BY <1>12
  <2>2. \A l : l \in R <=> l \in S /\ l < k
    <3>1. \A l : l \in R <=> l \in S /\ l <= k /\ l # k
      OBVIOUS
    <3>2. \A l \in S : l <= k /\ l # k <=> l < k
      BY <1>12, <1>4
    <3>3. QED
      BY <3>1, <3>2
  <2> HIDE DEF Upto
  <2>3. IsFiniteSet(R) /\ Cardinality(R) = Place(k) - 1
    BY <2>1, <1>2, FS_RemoveElement DEF Place
  <2> HIDE DEF R
  <2>4. R # {}
    BY <2>3, <1>13, <1>2, <1>3, FS_EmptySet
  <2>5. R \subseteq Nat /\ \A x \in R : x <= n
    BY <2>2, <1>4
  <2>6. PICK l \in R : \A j \in R : j <= l
    BY <2>4, <2>5, GreatestNumber
  <2>7. l \in S /\ l < k /\ l \in Nat
    BY <2>2, <1>4
  <2>8. Upto(l) = R
    <3>1. \A j : j \in Upto(l) <=> j \in S /\ j <= l
      BY DEF Upto
    <3>2. \A j \in R : j \in Upto(l)
      BY <3>1, <2>2, <2>6
    <3>3. ASSUME NEW j \in Upto(l) PROVE j \in R
      <4>1. j \in S /\ j <= l /\ j \in Nat
        BY <3>1, <1>4
      <4>2. j < k
        BY <4>1, <2>7, <1>12
      <4>3. QED
        BY <4>1, <4>2, <2>2
    <3>4. QED
      BY <3>2, <3>3
  <2>9. Place(l) >= i
    BY <2>8, <2>3, <1>13, <1>2, <1>3 DEF Place
  <2>10. l \in T
    BY <2>7, <2>9, <1>6
  <2>11. k <= l
    BY <2>10, <1>11
  <2>12. QED
    BY <2>7, <2>11, <1>12
<1>14. Place(k) = i
  <2>1. Place(k) \in Nat
    BY <1>2
  <2>2. ~(Place(k) > i)
    BY <1>13
  <2>3. QED
    BY <1>12, <2>1, <2>2, <1>3
<1>15. QED
  BY <1>7, <1>12, <1>14

FrameIn(s, off) ==
    LET since == BytesAfter(s, off)
    IN  [i \in 1 .. Cardinality(since) |-> s[CHOOSE k \in Ranked(since, i) : TRUE].byte]

LEMMA FrameIsReadOff ==
    ASSUME NEW d
    PROVE  FrameOf(d) = FrameIn(said[d], Off(d))
BY DEF FrameOf, FrameIn

LEMMA EventsAreRecords ==
    /\ Size \in Nat \ {0}
    /\ \A b \in Byte : Byted(b) \in BusEvents /\ Byted(b).what = "byte" /\ Byted(b).byte = b
    /\ \A w \in {"read", "write", "low", "high"} :
         Event(w) \in BusEvents /\ Event(w).what = w
BY BusesAssumption DEF BusesAssumption, Byted, Event, BusEvents, Byte

(* What a further event does to the bytes that count.                          *)
LEMMA BytesAfterAppend ==
    ASSUME NEW s \in Seq(BusEvents), NEW e \in BusEvents, NEW off \in {"low", "high"}
    PROVE  /\ BytesAfter(s, off) \subseteq 1 .. Len(s)
           /\ e.what = off => BytesAfter(Append(s, e), off) = {}
           /\ e.what = "byte" =>
                BytesAfter(Append(s, e), off) = BytesAfter(s, off) \cup {Len(s) + 1}
           /\ e.what \notin {off, "byte"} => BytesAfter(Append(s, e), off) = BytesAfter(s, off)
<1> DEFINE t == Append(s, e)
<1>1. /\ Len(s) \in Nat /\ DOMAIN s = 1 .. Len(s)
      /\ Len(t) = Len(s) + 1 /\ DOMAIN t = 1 .. Len(s) + 1
      /\ t[Len(s) + 1] = e
      /\ \A i \in 1 .. Len(s) : t[i] = s[i]
  OBVIOUS
<1> HIDE DEF t
<1>2. BytesAfter(s, off) \subseteq 1 .. Len(s)
  BY <1>1 DEF BytesAfter
<1>3. ASSUME e.what = off PROVE BytesAfter(t, off) = {}
  BY <1>1, <1>3 DEF BytesAfter
<1>4. ASSUME e.what # off PROVE \A i \in 1 .. Len(s) : i \in BytesAfter(t, off) <=> i \in BytesAfter(s, off)
  BY <1>1, <1>4 DEF BytesAfter
<1>5. ASSUME e.what = "byte" PROVE Len(s) + 1 \in BytesAfter(t, off)
  BY <1>1, <1>5 DEF BytesAfter
<1>6. ASSUME e.what # "byte" PROVE Len(s) + 1 \notin BytesAfter(t, off)
  BY <1>1, <1>6 DEF BytesAfter
<1>7. BytesAfter(t, off) \subseteq 1 .. Len(s) + 1
  BY <1>1 DEF BytesAfter
<1>8. \A i \in 1 .. Len(s) + 1 : i \in 1 .. Len(s) \/ i = Len(s) + 1
  BY <1>1
<1>9. QED
  BY <1>2, <1>3, <1>4, <1>5, <1>6, <1>7, <1>8 DEF t

(* The frame ends with the chip select, grows by the byte, and by nothing else.*)
LEMMA FrameAppend ==
    ASSUME NEW s \in Seq(BusEvents), NEW e \in BusEvents, NEW off \in {"low", "high"}
    PROVE  /\ e.what = off => FrameIn(Append(s, e), off) = <<>>
           /\ e.what = "byte" => FrameIn(Append(s, e), off) = Append(FrameIn(s, off), e.byte)
           /\ e.what \notin {off, "byte"} => FrameIn(Append(s, e), off) = FrameIn(s, off)
<1> DEFINE t == Append(s, e)
           S == BytesAfter(s, off)
           c == Cardinality(S)
           Pick(q, i) == CHOOSE k \in Ranked(q, i) : TRUE
<1>1. /\ Len(s) \in Nat
      /\ t[Len(s) + 1] = e
      /\ \A i \in 1 .. Len(s) : t[i] = s[i]
  OBVIOUS
<1>2. S \subseteq 1 .. Len(s)
  BY BytesAfterAppend
<1>3. IsFiniteSet(S) /\ c \in Nat
  <2>1. IsFiniteSet(1 .. Len(s))
    BY FS_Interval
  <2>2. QED
    BY <2>1, <1>2, FS_Subset, FS_CardinalityType
<1>4. \A i \in 1 .. c : Pick(S, i) \in 1 .. Len(s)
  <2>1. \A i \in 1 .. c : Ranked(S, i) # {}
    BY <1>1, <1>2, EveryRankIsTaken
  <2>2. \A i : Ranked(S, i) \subseteq S
    BY DEF Ranked
  <2> HIDE DEF S
  <2>3. \A i \in 1 .. c : Pick(S, i) \in Ranked(S, i)
    BY <2>1
  <2>4. QED
    BY <2>2, <2>3, <1>2
<1>5. FrameIn(s, off) = [i \in 1 .. c |-> s[Pick(S, i)].byte]
  BY DEF FrameIn
<1>6. ASSUME e.what = off PROVE FrameIn(t, off) = <<>>
  <2>1. BytesAfter(t, off) = {}
    BY <1>6, BytesAfterAppend
  <2>2. Cardinality({}) = 0
    BY FS_EmptySet
  <2>3. QED
    BY <2>1, <2>2 DEF FrameIn
<1>7. ASSUME e.what \notin {off, "byte"} PROVE FrameIn(t, off) = FrameIn(s, off)
  <2>1. BytesAfter(t, off) = S
    BY <1>7, BytesAfterAppend
  <2>2. FrameIn(t, off) = [i \in 1 .. c |-> t[Pick(S, i)].byte]
    BY <2>1 DEF FrameIn
  <2> HIDE DEF S, t, c, Pick
  <2>3. \A i \in 1 .. c : t[Pick(S, i)].byte = s[Pick(S, i)].byte
    BY <1>1, <1>4
  <2>4. QED
    BY <2>2, <2>3, <1>5
<1>8. ASSUME e.what = "byte" PROVE FrameIn(t, off) = Append(FrameIn(s, off), e.byte)
  <2> DEFINE S2 == BytesAfter(t, off)
  <2>1. S2 = S \cup {Len(s) + 1}
    BY <1>8, BytesAfterAppend
  <2> HIDE DEF S, S2
  <2>2. Cardinality(S2) = c + 1
    <3>1. Len(s) + 1 \notin S
      BY <1>2, <1>1
    <3>2. QED
      BY <2>1, <3>1, <1>3, FS_AddElement
  <2>3. \A k \in S : {j \in S2 : j <= k} = {j \in S : j <= k}
    BY <2>1, <1>1, <1>2
  <2>4. {j \in S2 : j <= Len(s) + 1} = S2
    <3>1. \A j \in S2 : j <= Len(s) + 1
      BY <2>1, <1>1, <1>2
    <3>2. QED
      BY <3>1
  <2> DEFINE Place(q, k) == Cardinality({j \in q : j <= k})
  <2>5. /\ \A k \in S : Place(S2, k) = Place(S, k)
        /\ Place(S2, Len(s) + 1) = c + 1
        /\ \A q, i, k : k \in Ranked(q, i) <=> k \in q /\ Place(q, k) = i
        /\ \A q, i : Ranked(q, i) \subseteq q
    BY <2>2, <2>3, <2>4 DEF Ranked
  <2> HIDE DEF Place
  <2>6. \A i \in 1 .. c : Ranked(S2, i) = Ranked(S, i)
    <3>1. ASSUME NEW i \in 1 .. c PROVE Ranked(S2, i) = Ranked(S, i)
      <4>1. i # c + 1
        BY <1>3
      <4>2. Len(s) + 1 \notin Ranked(S2, i)
        BY <2>5, <4>1
      <4>3. \A k \in S : k \in Ranked(S2, i) <=> k \in Ranked(S, i)
        <5>1. ASSUME NEW k \in S PROVE k \in Ranked(S2, i) <=> k \in Ranked(S, i)
          <6>1. k \in S2 /\ Place(S2, k) = Place(S, k)
            BY <2>1, <2>5
          <6>2. QED
            BY <6>1, <2>5
        <5>2. QED
          BY <5>1
      <4>4. Ranked(S2, i) \subseteq S \cup {Len(s) + 1}
        BY <2>1, <2>5
      <4>5. Ranked(S, i) \subseteq S
        BY <2>5
      <4>6. QED
        BY <4>2, <4>3, <4>4, <4>5
    <3>2. QED
      BY <3>1
  <2>7. Ranked(S2, c + 1) = {Len(s) + 1}
    <3>1. \A k \in S : Cardinality({j \in S : j <= k}) <= c
      <4>1. \A k : {j \in S : j <= k} \subseteq S
        OBVIOUS
      <4>2. QED
        BY <4>1, <1>3, FS_Subset
    <3>2. \A k \in S : Cardinality({j \in S : j <= k}) # c + 1
      BY <3>1, <1>3, FS_Subset, FS_CardinalityType
    <3>3. \A k \in S : Place(S, k) # c + 1
      BY <3>2 DEF Place
    <3>4. \A k \in S : k \notin Ranked(S2, c + 1)
      BY <2>5, <3>3
    <3>5. Len(s) + 1 \in Ranked(S2, c + 1)
      BY <2>1, <2>5
    <3>6. Ranked(S2, c + 1) \subseteq S \cup {Len(s) + 1}
      BY <2>1, <2>5
    <3>7. QED
      BY <3>4, <3>5, <3>6
  <2>8. Pick(S2, c + 1) = Len(s) + 1
    BY <2>7
  <2>9. \A i \in 1 .. c : Pick(S2, i) = Pick(S, i)
    BY <2>6
  <2>10. FrameIn(t, off) = [i \in 1 .. c + 1 |-> t[Pick(S2, i)].byte]
    BY <2>2 DEF FrameIn, S2
  <2> HIDE DEF t, c, Pick
  <2>11. Append(FrameIn(s, off), e.byte) =
           [i \in 1 .. c + 1 |-> IF i = c + 1 THEN e.byte ELSE s[Pick(S, i)].byte]
    <3>1. Len(FrameIn(s, off)) = c
      BY <1>3, <1>5
    <3>2. QED
      BY <1>3, <1>5, <3>1
  <2>12. \A i \in 1 .. c + 1 : t[Pick(S2, i)].byte = IF i = c + 1 THEN e.byte ELSE s[Pick(S, i)].byte
    BY <2>8, <2>9, <1>1, <1>3, <1>4
  <2>13. QED
    BY <2>10, <2>11, <2>12
<1>9. QED
  BY <1>6, <1>7, <1>8

AssertedIn(s, on, off) ==
    \E i \in DOMAIN s : s[i].what = on /\ \A j \in DOMAIN s : s[j].what = off => j < i

LEMMA AssertedAppend ==
    ASSUME NEW s \in Seq(BusEvents), NEW e \in BusEvents, NEW on, NEW off, on # off
    PROVE  /\ e.what = on => AssertedIn(Append(s, e), on, off)
           /\ e.what = off => ~AssertedIn(Append(s, e), on, off)
           /\ e.what \notin {on, off} => (AssertedIn(Append(s, e), on, off) <=> AssertedIn(s, on, off))
<1> DEFINE t == Append(s, e)
           n == Len(s)
<1>1. /\ n \in Nat /\ DOMAIN s = 1 .. n /\ DOMAIN t = 1 .. n + 1
      /\ t[n + 1] = e
      /\ \A i \in 1 .. n : t[i] = s[i]
  OBVIOUS
<1> HIDE DEF t, n
<1>2. \A i \in 1 .. n + 1 : i \in 1 .. n \/ i = n + 1
  BY <1>1
<1>3. \A i \in 1 .. n : i \in 1 .. n + 1 /\ i < n + 1 /\ ~(n + 1 < i)
  BY <1>1
<1>4. n + 1 \in 1 .. n + 1 /\ ~(n + 1 < n + 1)
  BY <1>1
<1>5. ASSUME e.what = on PROVE AssertedIn(t, on, off)
  <2>1. \A j \in 1 .. n + 1 : t[j].what = off => j < n + 1
    BY <1>5, <1>1, <1>2, <1>3
  <2>2. QED
    BY <2>1, <1>1, <1>4, <1>5 DEF AssertedIn
<1>6. ASSUME e.what = off PROVE ~AssertedIn(t, on, off)
  <2> SUFFICES ASSUME NEW i \in 1 .. n + 1, t[i].what = on,
                      \A j \in 1 .. n + 1 : t[j].what = off => j < i
               PROVE  FALSE
    BY <1>1 DEF AssertedIn
  <2>1. n + 1 < i
    BY <1>1, <1>4, <1>6
  <2>2. QED
    BY <2>1, <1>1
<1>7. ASSUME e.what \notin {on, off} PROVE AssertedIn(t, on, off) <=> AssertedIn(s, on, off)
  <2>1. ASSUME NEW i \in 1 .. n, s[i].what = on, \A j \in 1 .. n : s[j].what = off => j < i
        PROVE  AssertedIn(t, on, off)
    <3>1. \A j \in 1 .. n + 1 : t[j].what = off => j < i
      BY <2>1, <1>1, <1>2, <1>7
    <3>2. t[i].what = on /\ i \in 1 .. n + 1
      BY <2>1, <1>1, <1>3
    <3>3. QED
      BY <3>1, <3>2, <1>1 DEF AssertedIn
  <2>2. ASSUME NEW i \in 1 .. n + 1, t[i].what = on, \A j \in 1 .. n + 1 : t[j].what = off => j < i
        PROVE  AssertedIn(s, on, off)
    <3>1. i \in 1 .. n /\ s[i].what = on
      BY <2>2, <1>1, <1>2, <1>7
    <3>2. \A j \in 1 .. n : s[j].what = off => j < i
      BY <2>2, <1>1, <1>3
    <3>3. QED
      BY <3>1, <3>2, <1>1 DEF AssertedIn
  <2>3. QED
    BY <2>1, <2>2, <1>1 DEF AssertedIn
<1>8. QED
  BY <1>5, <1>6, <1>7 DEF t

-------------------------------------------------------------------------------
(* Addresses wrap.                                                             *)

LEMMA WithinAddresses == ASSUME NEW K \in Nat \ {0}, NEW a \in Nat PROVE a % K \in 0 .. K - 1
OBVIOUS

LEMMA SmallIsItself == ASSUME NEW K \in Nat \ {0}, NEW a \in Nat, a < K PROVE a % K = a
OBVIOUS

LEMMA OneOn ==
    ASSUME NEW K \in Nat \ {0}, NEW a \in Nat
    PROVE  ((a % K) + 1) % K = (a + 1) % K
<1> DEFINE q == a \div K
           r == a % K
<1>1. q \in Int /\ r \in Nat /\ r < K /\ a = K * q + r
  OBVIOUS
<1> HIDE DEF q, r
<1>2. CASE r + 1 < K
  <2>1. a + 1 = K * q + (r + 1)
    BY <1>1
  <2>2. (r + 1) % K = r + 1
    BY <1>1, <1>2
  <2>3. (K * q + (r + 1)) % K = r + 1
    BY <1>1, <1>2
  <2>4. QED
    BY <2>1, <2>2, <2>3 DEF r
<1>3. CASE r + 1 = K
  <2>1. a + 1 = K * (q + 1) + 0
    BY <1>1, <1>3
  <2>2. (r + 1) % K = 0
    BY <1>1, <1>3
  <2>3. (K * (q + 1) + 0) % K = 0
    BY <1>1
  <2>4. QED
    BY <2>1, <2>2, <2>3 DEF r
<1>4. QED
  BY <1>1, <1>2, <1>3

-------------------------------------------------------------------------------
(* The address meant.                                                          *)

LatestBegun(s) == CHOOSE i \in Begun(s) : \A j \in Begun(s) : j <= i
MeantIn(s) ==
    IF Begun(s) = {} THEN Moved(s, 0) % (2 * Size)
    ELSE (s[LatestBegun(s) + 1].byte + Moved(s, LatestBegun(s) + 1)) % (2 * Size)

LEMMA MeaningIsReadOff == ASSUME NEW d PROVE Meant(d) = MeantIn(said[d])
BY DEF Meant, MeantIn, LatestBegun

LEMMA NothingBegunYet == Begun(<<>>) = {} /\ Moved(<<>>, 0) = 0 /\ MeantIn(<<>>) = 0
<1>1. Begun(<<>>) = {}
  BY DEF Begun
<1>2. Moved(<<>>, 0) = 0
  <2>1. {i \in DOMAIN <<>> : i > 0 /\ <<>>[i].what # "write"} = {}
    OBVIOUS
  <2>2. QED
    BY <2>1, FS_EmptySet DEF Moved
<1>3. 2 * Size \in Nat \ {0}
  BY BusesAssumption DEF BusesAssumption
<1>4. 0 % (2 * Size) = 0
  BY <1>3, SmallIsItself
<1>5. QED
  BY <1>1, <1>2, <1>4 DEF MeantIn

LEMMA LatestIsBegun ==
    ASSUME NEW s \in Seq(BusEvents), Begun(s) # {}
    PROVE  LatestBegun(s) \in Begun(s) /\ \A j \in Begun(s) : j <= LatestBegun(s)
<1>1. Begun(s) \subseteq Nat /\ Len(s) \in Nat /\ \A i \in Begun(s) : i <= Len(s)
  BY DEF Begun
<1>2. \E i \in Begun(s) : \A j \in Begun(s) : j <= i
  BY <1>1, GreatestNumber
<1>3. QED
  BY <1>2 DEF LatestBegun

LEMMA MovedAppend ==
    ASSUME NEW s \in Seq(BusEvents), NEW e \in BusEvents, NEW b \in 0 .. Len(s)
    PROVE  /\ Moved(s, b) \in Nat
           /\ e.what = "write" => Moved(Append(s, e), b) = Moved(s, b)
           /\ e.what # "write" => Moved(Append(s, e), b) = Moved(s, b) + 1
<1> DEFINE t == Append(s, e)
           n == Len(s)
           M(q) == {i \in DOMAIN q : i > b /\ q[i].what # "write"}
<1>1. /\ n \in Nat /\ DOMAIN s = 1 .. n /\ DOMAIN t = 1 .. n + 1
      /\ t[n + 1] = e
      /\ \A i \in 1 .. n : t[i] = s[i]
  OBVIOUS
<1>2. b \in Nat /\ b <= n
  BY <1>1
<1>3. \A q : Moved(q, b) = Cardinality(M(q))
  BY DEF Moved
<1> HIDE DEF t, n
<1>4. M(s) \subseteq 1 .. n
  BY <1>1
<1>5. IsFiniteSet(M(s)) /\ Cardinality(M(s)) \in Nat
  <2>1. IsFiniteSet(1 .. n)
    BY <1>1, FS_Interval
  <2> HIDE DEF M
  <2>2. QED
    BY <2>1, <1>4, FS_Subset, FS_CardinalityType
<1>6. \A i \in 1 .. n + 1 : i \in 1 .. n \/ i = n + 1
  BY <1>1
<1>7. \A i \in 1 .. n : i \in 1 .. n + 1
  BY <1>1
<1>8. ASSUME e.what = "write" PROVE M(t) = M(s)
  BY <1>1, <1>6, <1>7, <1>8
<1>9. ASSUME e.what # "write" PROVE M(t) = M(s) \cup {n + 1}
  <2>1. n + 1 > b /\ n + 1 \in 1 .. n + 1
    BY <1>1, <1>2
  <2>2. QED
    BY <2>1, <1>1, <1>6, <1>7, <1>9
<1>10. n + 1 \notin M(s)
  BY <1>4, <1>1
<1> HIDE DEF M
<1>11. Cardinality(M(s) \cup {n + 1}) = Cardinality(M(s)) + 1
  BY <1>5, <1>10, FS_AddElement
<1>12. QED
  BY <1>3, <1>5, <1>8, <1>9, <1>11 DEF t

Opens(s) == s # <<>> /\ s[Len(s)].what = "write"

LEMMA BegunAppend ==
    ASSUME NEW s \in Seq(BusEvents), NEW e \in BusEvents
    PROVE  /\ Begun(s) \subseteq 1 .. Len(s) - 1
           /\ e.what = "byte" /\ Opens(s) => Begun(Append(s, e)) = Begun(s) \cup {Len(s)}
           /\ ~(e.what = "byte" /\ Opens(s)) => Begun(Append(s, e)) = Begun(s)
<1> DEFINE t == Append(s, e)
           n == Len(s)
<1>1. /\ n \in Nat /\ DOMAIN s = 1 .. n /\ DOMAIN t = 1 .. n + 1 /\ Len(t) = n + 1
      /\ t[n + 1] = e
      /\ \A i \in 1 .. n : t[i] = s[i]
      /\ s # <<>> <=> n >= 1
  OBVIOUS
<1> HIDE DEF t
<1>2. Opens(s) <=> n >= 1 /\ s[n].what = "write"
  BY <1>1 DEF Opens
<1> HIDE DEF n
<1>3. \A i : i \in Begun(s) <=> i \in 1 .. n - 1 /\ s[i].what = "write" /\ s[i + 1].what = "byte"
  <2>1. \A i : i \in 1 .. n /\ i < n <=> i \in 1 .. n - 1
    BY <1>1
  <2>2. QED
    BY <2>1, <1>1 DEF Begun, n
<1>4. \A i : i \in Begun(t) <=> i \in 1 .. n /\ t[i].what = "write" /\ t[i + 1].what = "byte"
  <2>1. \A i : i \in 1 .. n + 1 /\ i < n + 1 <=> i \in 1 .. n
    BY <1>1
  <2>2. QED
    BY <2>1, <1>1 DEF Begun
<1>5. \A i \in 1 .. n - 1 : i \in 1 .. n /\ t[i] = s[i] /\ t[i + 1] = s[i + 1]
  BY <1>1
<1>6. \A i \in 1 .. n - 1 : i \in Begun(t) <=> i \in Begun(s)
  BY <1>3, <1>4, <1>5
<1>7. \A i \in 1 .. n : i \in 1 .. n - 1 \/ i = n
  BY <1>1
<1>8. n \in Begun(t) <=> e.what = "byte" /\ Opens(s)
  <2>1. n \in 1 .. n <=> n >= 1
    BY <1>1
  <2>2. n >= 1 => t[n] = s[n] /\ t[n + 1] = e
    BY <1>1
  <2>3. QED
    BY <2>1, <2>2, <1>2, <1>4
<1>9. n \notin 1 .. n - 1
  BY <1>1
<1>10. QED
  BY <1>3, <1>4, <1>6, <1>7, <1>8, <1>9 DEF t, n

(* A write that is opened means nothing yet; its first byte is the address;    *)
(* everything else moves on by one.                                            *)
LEMMA MeantAppend ==
    ASSUME NEW s \in Seq(BusEvents), NEW e \in BusEvents
    PROVE  /\ e.what = "write" => MeantIn(Append(s, e)) = MeantIn(s)
           /\ e.what = "byte" /\ Opens(s) => MeantIn(Append(s, e)) = e.byte
           /\ e.what # "write" /\ ~(e.what = "byte" /\ Opens(s)) =>
                MeantIn(Append(s, e)) = Next(MeantIn(s))
<1> DEFINE t == Append(s, e)
           n == Len(s)
           K == 2 * Size
<1>1. K \in Nat \ {0} /\ n \in Nat /\ e.byte \in 0 .. K - 1
  BY BusesAssumption DEF BusesAssumption, BusEvents, Byte
<1>2. /\ DOMAIN s = 1 .. n /\ t \in Seq(BusEvents) /\ Len(t) = n + 1 /\ t[n + 1] = e
      /\ \A i \in 1 .. n : t[i] = s[i] /\ s[i] \in BusEvents
  OBVIOUS
<1> HIDE DEF K, t, n
<1>3. Begun(s) \subseteq 1 .. n - 1
  BY BegunAppend DEF n
<1>4. ASSUME e.what = "byte", Opens(s) PROVE MeantIn(t) = e.byte
  <2>1. Begun(t) = Begun(s) \cup {n}
    BY <1>4, BegunAppend DEF t, n
  <2>2. LatestBegun(t) \in Begun(t) /\ \A j \in Begun(t) : j <= LatestBegun(t)
    BY <2>1, <1>2, LatestIsBegun
  <2>3. LatestBegun(t) = n
    <3>1. n <= LatestBegun(t)
      BY <2>1, <2>2
    <3>2. LatestBegun(t) \in 1 .. n - 1 \/ LatestBegun(t) = n
      BY <2>1, <2>2, <1>3
    <3>3. QED
      BY <3>1, <3>2, <1>1
  <2>4. Moved(t, n + 1) = 0
    <3>1. {i \in DOMAIN t : i > n + 1 /\ t[i].what # "write"} = {}
      BY <1>1, <1>2
    <3>2. QED
      BY <3>1, FS_EmptySet DEF Moved
  <2>5. MeantIn(t) = (e.byte + 0) % K
    BY <2>1, <2>3, <2>4, <1>2 DEF MeantIn, K
  <2>6. QED
    BY <2>5, <1>1, SmallIsItself
<1>5. ASSUME ~(e.what = "byte" /\ Opens(s))
      PROVE  MeantIn(t) = IF e.what = "write" THEN MeantIn(s) ELSE Next(MeantIn(s))
  <2>1. Begun(t) = Begun(s)
    BY <1>5, BegunAppend DEF t
  <2>2. CASE Begun(s) = {}
    <3>1. 0 \in 0 .. n
      BY <1>1
    <3>2. /\ Moved(s, 0) \in Nat
          /\ Moved(t, 0) = IF e.what = "write" THEN Moved(s, 0) ELSE Moved(s, 0) + 1
      BY <3>1, MovedAppend DEF t, n
    <3>3. MeantIn(t) = Moved(t, 0) % K /\ MeantIn(s) = Moved(s, 0) % K
      BY <2>1, <2>2 DEF MeantIn, K
    <3>4. (Moved(s, 0) + 1) % K = ((Moved(s, 0) % K) + 1) % K
      BY <3>2, <1>1, OneOn
    <3>5. QED
      BY <3>2, <3>3, <3>4 DEF Next, K
  <2>3. CASE Begun(s) # {}
    <3> DEFINE b == LatestBegun(s)
               a == s[b + 1].byte
    <3>1. b \in Begun(s)
      BY <2>3, LatestIsBegun
    <3>2. b + 1 \in 1 .. n /\ b + 1 \in 0 .. n
      BY <3>1, <1>3, <1>1
    <3>3. LatestBegun(t) = b
      BY <2>1 DEF LatestBegun
    <3>4. a \in Nat
      <4>1. s[b + 1] \in BusEvents
        BY <3>2, <1>2
      <4>2. QED
        BY <4>1, <1>1 DEF BusEvents, Byte, K
    <3>5. t[b + 1].byte = a
      BY <3>2, <1>2
    <3> HIDE DEF b, a
    <3>6. /\ Moved(s, b + 1) \in Nat
          /\ Moved(t, b + 1) = IF e.what = "write" THEN Moved(s, b + 1) ELSE Moved(s, b + 1) + 1
      BY <3>2, MovedAppend DEF t, n
    <3>7. MeantIn(t) = (a + Moved(t, b + 1)) % K /\ MeantIn(s) = (a + Moved(s, b + 1)) % K
      BY <2>1, <2>3, <3>3, <3>5 DEF MeantIn, K, b, a
    <3>8. a + Moved(s, b + 1) \in Nat
      BY <3>4, <3>6
    <3>9. ((a + Moved(s, b + 1)) + 1) % K = (((a + Moved(s, b + 1)) % K) + 1) % K
      BY <3>8, <1>1, OneOn
    <3>10. (a + Moved(s, b + 1)) + 1 = a + (Moved(s, b + 1) + 1)
      BY <3>4, <3>6
    <3>11. QED
      BY <3>6, <3>7, <3>9, <3>10 DEF Next, K
  <2>4. QED
    BY <2>2, <2>3
<1>6. QED
  BY <1>4, <1>5 DEF t

-------------------------------------------------------------------------------
(* The device that was attached first is one of those selected.                *)
LEMMA FirstIsSelected ==
    ASSUME NEW now \in SUBSET SpiDevices, now # {}
    PROVE  First(now) \in now
<1> DEFINE T == {i \in DOMAIN SpiOrder : SpiOrder[i] \in now}
<1>1. DOMAIN SpiOrder = 1 .. Len(SpiOrder) /\ Len(SpiOrder) \in Nat
  BY BusesAssumption DEF BusesAssumption
<1>2. \A d \in now : \E i \in DOMAIN SpiOrder : SpiOrder[i] = d
  BY DEF SpiDevices, ToSet
<1>3. T # {} /\ T \subseteq Nat
  BY <1>1, <1>2
<1>4. PICK i \in T : \A j \in T : i <= j
  BY <1>3, LeastNumber
<1>5. \A j \in 1 .. i - 1 : SpiOrder[j] \notin now
  BY <1>1, <1>4
<1>6. QED
  BY <1>4, <1>5 DEF First

-------------------------------------------------------------------------------
(* What the operations return.                                                 *)

LEMMA BytesAreNumbers ==
    /\ 2 * Size \in Nat \ {0} /\ Byte = 0 .. 2 * Size - 1
    /\ 0 \in Byte /\ 1 \in Byte /\ FloatingByte \in Byte
    /\ \A a \in Byte : Next(a) \in Byte
    /\ \A a \in Byte : a % Size \in Byte
BY BusesAssumption DEF BusesAssumption, Byte, FloatingByte, Next

LEMMA RegistersHoldBytes ==
    /\ PowerOn \in [Byte -> Byte]
    /\ \A bytes \in [Byte -> Byte] : \A a, b \in Byte : Written(bytes, a, b) \in [Byte -> Byte]
    /\ measured \in {0, 1} => \A bytes \in [Byte -> Byte] : \A a \in Byte : ByteAt(bytes, a) \in Byte
<1>1. ASSUME NEW a \in Byte, \E r \in Specs : Covers(r, a)
      PROVE  (CHOOSE r \in Specs : Covers(r, a)).reset \in Byte
  <2>1. (CHOOSE r \in Specs : Covers(r, a)) \in Specs
    BY <1>1
  <2>2. \A r \in Specs : r.reset \in Byte
    BY BusesAssumption DEF BusesAssumption, RegisterSchema
  <2>3. QED
    BY <2>1, <2>2
<1>2. PowerOn \in [Byte -> Byte]
  BY <1>1, BytesAreNumbers DEF PowerOn
<1>3. QED
  BY <1>2, BytesAreNumbers DEF Written, ByteAt

LEMMA FreshDevice ==
    /\ RegisterFilePeripheral \in RegisterDevices
    /\ RegisterFilePeripheral.pointer = 0 /\ RegisterFilePeripheral.awaiting = TRUE
    /\ RegisterFilePeripheral.frame = <<>>
<1>1. PowerOn \in [Byte -> Byte] /\ 0 \in Byte
  BY RegistersHoldBytes, BytesAreNumbers
<1>2. <<>> \in Seq(Byte)
  OBVIOUS
<1>3. QED
  BY <1>1, <1>2 DEF RegisterFilePeripheral, RegisterDevices

LEMMA SelectedAfresh ==
    ASSUME NEW r \in RegisterDevices
    PROVE  /\ OnSelect(r) \in RegisterDevices /\ OnDeselect(r) \in RegisterDevices
           /\ OnSelect(r).awaiting = TRUE /\ OnSelect(r).frame = <<>>
<1>1. /\ r.pointer \in Byte /\ r.reading \in BOOLEAN /\ r.awaiting \in BOOLEAN
      /\ r.bytes \in [Byte -> Byte] /\ r.frame \in Seq(Byte) /\ r.lastFrame \in Seq(Byte)
      /\ r = [pointer |-> r.pointer, awaiting |-> r.awaiting, reading |-> r.reading,
              bytes |-> r.bytes, frame |-> r.frame, lastFrame |-> r.lastFrame]
      /\ <<>> \in Seq(Byte)
  BY DEF RegisterDevices
<1>2. OnSelect(r) \in RegisterDevices
  BY <1>1 DEF OnSelect, RegisterDevices
<1>3. OnDeselect(r) \in RegisterDevices
  BY <1>1 DEF OnDeselect, RegisterDevices
<1>4. OnSelect(r).awaiting = TRUE /\ OnSelect(r).frame = <<>>
  BY DEF OnSelect, RegisterDevices
<1>5. QED
  BY <1>2, <1>3, <1>4

LEMMA EdgesKeepDevices ==
    ASSUME NEW now \in SUBSET SpiDevices, BusTypeOK
    PROVE  /\ Edges(now) \in [Devices -> RegisterDevices]
           /\ \A d \in Devices :
                /\ d \in now \ selected => Edges(now)[d] = OnSelect(device[d])
                /\ (d \in now <=> d \in selected) => Edges(now)[d] = device[d]
BY SelectedAfresh DEF Edges, BusTypeOK

(* A transfer, as the record of the device and what is answered.               *)
HeardAs(t, r, d, b) ==
    /\ t[1] \in RegisterDevices /\ t[2] \in Byte
    /\ t[1].frame = Append(r.frame, b)
    /\ d \notin Streams =>
         /\ t[1].awaiting = FALSE
         /\ r.awaiting => /\ t[1].reading = (b >= Size) /\ t[1].pointer = b % Size
                          /\ t[1].bytes = r.bytes /\ t[2] = 0
         /\ ~r.awaiting =>
              /\ t[1].reading = r.reading /\ t[1].pointer = Next(r.pointer)
              /\ r.reading => t[1].bytes = r.bytes /\ t[2] = ByteAt(r.bytes, r.pointer)
              /\ ~r.reading => t[1].bytes = Written(r.bytes, r.pointer, b) /\ t[2] = 0

LEMMA TransferHears ==
    ASSUME measured \in {0, 1}, NEW r \in RegisterDevices, NEW d, NEW b \in Byte
    PROVE  HeardAs(Transferred(r, d, b), r, d, b)
<1>1. /\ r.pointer \in Byte /\ r.awaiting \in BOOLEAN /\ r.reading \in BOOLEAN
      /\ r.bytes \in [Byte -> Byte] /\ r.frame \in Seq(Byte) /\ r.lastFrame \in Seq(Byte)
      /\ r = [pointer |-> r.pointer, awaiting |-> r.awaiting, reading |-> r.reading,
              bytes |-> r.bytes, frame |-> r.frame, lastFrame |-> r.lastFrame]
  BY DEF RegisterDevices
<1>2. /\ Append(r.frame, b) \in Seq(Byte) /\ 0 \in Byte
      /\ Next(r.pointer) \in Byte /\ b % Size \in Byte
      /\ Written(r.bytes, r.pointer, b) \in [Byte -> Byte]
      /\ ByteAt(r.bytes, r.pointer) \in Byte
      /\ (b >= Size) \in BOOLEAN
  <2>1. Append(r.frame, b) \in Seq(Byte)
    BY <1>1
  <2>2. 0 \in Byte /\ Next(r.pointer) \in Byte /\ b % Size \in Byte
    BY <1>1, BytesAreNumbers
  <2>3. Written(r.bytes, r.pointer, b) \in [Byte -> Byte] /\ ByteAt(r.bytes, r.pointer) \in Byte
    BY <1>1, RegistersHoldBytes
  <2>4. QED
    BY <2>1, <2>2, <2>3
<1>3. CASE d \in Streams
  BY <1>1, <1>2, <1>3 DEF Transferred, HeardAs, RegisterDevices
<1>4. CASE d \notin Streams /\ r.awaiting
  BY <1>1, <1>2, <1>4 DEF Transferred, HeardAs, RegisterDevices
<1>5. CASE d \notin Streams /\ ~r.awaiting /\ r.reading
  BY <1>1, <1>2, <1>5 DEF Transferred, HeardAs, RegisterDevices
<1>6. CASE d \notin Streams /\ ~r.awaiting /\ ~r.reading
  BY <1>1, <1>2, <1>6 DEF Transferred, HeardAs, RegisterDevices
<1>7. QED
  BY <1>1, <1>3, <1>4, <1>5, <1>6

LEMMA TakenIsUnderstood ==
    ASSUME NEW r \in RegisterDevices, NEW b \in Byte
    PROVE  /\ Taken(r, b) \in RegisterDevices
           /\ Taken(r, b).awaiting = FALSE
           /\ r.awaiting => Taken(r, b).pointer = b /\ Taken(r, b).bytes = r.bytes
           /\ ~r.awaiting => /\ Taken(r, b).pointer = Next(r.pointer)
                             /\ Taken(r, b).bytes = Written(r.bytes, r.pointer, b)
<1>1. /\ Next(r.pointer) \in Byte /\ Written(r.bytes, r.pointer, b) \in [Byte -> Byte]
  BY RegistersHoldBytes, BytesAreNumbers DEF RegisterDevices
<1>2. QED
  BY <1>1 DEF Taken, RegisterDevices

LEMMA LoggedLast ==
    ASSUME NEW entry \in Transfers, log \in Seq(Transfers), Logged(entry)
    PROVE  log' \in Seq(Transfers) /\ Last(log') = entry
<1> DEFINE all == Append(log, entry)
<1>1. /\ all \in Seq(Transfers) /\ Len(all) = Len(log) + 1 /\ Len(log) \in Nat
      /\ all[Len(all)] = entry
  OBVIOUS
<1>2. log' = IF Len(all) > LogLimit THEN Tail(all) ELSE all
  BY DEF Logged
<1>3. LogLimit \in Nat /\ LogLimit >= 1
  BY BusesAssumption DEF BusesAssumption
<1> HIDE DEF all
<1>4. CASE Len(all) > LogLimit
  <2>1. /\ Tail(all) \in Seq(Transfers) /\ Len(Tail(all)) = Len(all) - 1
        /\ Tail(all)[Len(all) - 1] = all[Len(all)]
    BY <1>1, <1>3, <1>4
  <2>2. QED
    BY <2>1, <1>1, <1>2, <1>4 DEF Last
<1>5. CASE ~(Len(all) > LogLimit)
  BY <1>1, <1>2, <1>5 DEF Last
<1>6. QED
  BY <1>4, <1>5

LEMMA LevelsAreSaid ==
    ASSUME NEW d \in SpiDevices
    PROVE  /\ On(d) \in {"low", "high"} /\ Off(d) \in {"low", "high"} /\ On(d) # Off(d)
           /\ \A w \in {"low", "high"} : w = On(d) \/ w = Off(d)
           /\ d \in Devices /\ d \notin I2cDevices
           /\ \A was \in BOOLEAN :
                /\ Selects(On(d), d, was) /\ ~Selects(Off(d), d, was)
                /\ d \in ActiveLow => (Selects("mid", d, was) <=> was)
BY BusesAssumption DEF BusesAssumption, On, Off, Devices, Selects, High

-------------------------------------------------------------------------------
(* What keeps the record and the device in step.                               *)

LEMMA NoFrame ==
    ASSUME NEW s, NEW off, BytesAfter(s, off) = {}
    PROVE  FrameIn(s, off) = <<>>
<1>1. Cardinality({}) = 0
  BY FS_EmptySet
<1>2. QED
  BY <1>1 DEF FrameIn

LEMMA InitInSilence ==
    ASSUME NEW e \in BusEvents, NEW off \in {"low", "high"}, e.what # "byte"
    PROVE  FrameIn(<<e>>, off) = <<>> /\ FrameIn(<<>>, off) = <<>>
<1>1. <<>> \in Seq(BusEvents) /\ Append(<<>>, e) = <<e>>
  OBVIOUS
<1>2. BytesAfter(<<>>, off) = {}
  BY DEF BytesAfter
<1>3. FrameIn(<<>>, off) = <<>>
  BY <1>2, NoFrame
<1>4. FrameIn(Append(<<>>, e), off) = <<>>
  <2>1. CASE e.what = off
    BY <1>1, <2>1, FrameAppend
  <2>2. CASE e.what # off
    BY <1>1, <1>3, <2>2, FrameAppend
  <2>3. QED
    BY <2>1, <2>2
<1>5. QED
  BY <1>1, <1>3, <1>4

LEMMA BusesStartSo == BusesInit => BusInv
<1> SUFFICES ASSUME BusesInit PROVE BusInv
  OBVIOUS
<1>1. /\ level \in [SpiDevices -> {"low", "high"}]
      /\ selected = {d \in SpiDevices : Selects(level[d], d, FALSE)}
      /\ log = <<>> /\ active = Absent /\ writing = TRUE /\ lastAddress = Absent
      /\ device = [d \in Devices |-> RegisterFilePeripheral]
      /\ measured = 0 /\ chattered = {}
      /\ said = [d \in Devices |-> IF d \in SpiDevices THEN <<Event(level[d])>> ELSE <<>>]
  BY DEF BusesInit, SpiInit, I2cInit
<1>2. \A d \in SpiDevices : Event(level[d]) \in BusEvents /\ Event(level[d]).what = level[d]
                          /\ level[d] \in {"low", "high"}
  BY <1>1, EventsAreRecords
<1>3. BusTypeOK
  <2>1. said \in [Devices -> Seq(BusEvents)]
    BY <1>1, <1>2
  <2>2. device \in [Devices -> RegisterDevices]
    BY <1>1, FreshDevice
  <2>3. level \in [SpiDevices -> {"low", "mid", "high"}]
    BY <1>1
  <2>4. log \in Seq(Transfers)
    BY <1>1
  <2>5. QED
    BY <1>1, <2>1, <2>2, <2>3, <2>4 DEF BusTypeOK
<1>4. ASSUME NEW d \in SpiDevices PROVE SpiInv(d)
  <2> DEFINE e == Event(level[d])
  <2>1. said[d] = <<e>> /\ device[d] = RegisterFilePeripheral
    BY <1>1, LevelsAreSaid
  <2>2. e \in BusEvents /\ e.what = level[d] /\ level[d] \in {"low", "high"}
    BY <1>2
  <2>3. d \in selected <=> level[d] = On(d)
    BY <2>2, <1>1, LevelsAreSaid
  <2> HIDE DEF e
  <2>4. FrameOf(d) = <<>>
    BY <2>1, <2>2, InitInSilence, FrameIsReadOff, LevelsAreSaid
  <2>5. Asserted(d) <=> level[d] = On(d)
    <3>1. <<>> \in Seq(BusEvents) /\ Append(<<>>, e) = <<e>>
      OBVIOUS
    <3>2. AssertedIn(<<e>>, On(d), Off(d)) <=> level[d] = On(d)
      <4>1. On(d) # Off(d) /\ (e.what = On(d) \/ e.what = Off(d))
        BY <2>2, LevelsAreSaid
      <4>2. /\ e.what = On(d) => AssertedIn(Append(<<>>, e), On(d), Off(d))
            /\ e.what = Off(d) => ~AssertedIn(Append(<<>>, e), On(d), Off(d))
        BY <3>1, <4>1, <2>2, AssertedAppend
      <4>3. QED
        BY <4>1, <4>2, <3>1, <2>2
    <3>3. QED
      BY <3>2, <2>1 DEF Asserted, AssertedIn
  <2>6. HearsItsFrame(d)
    BY <2>1, <2>4, FreshDevice DEF HearsItsFrame
  <2>7. QED
    BY <2>2, <2>3, <2>4, <2>5, <2>6 DEF SpiInv
<1>5. ASSUME NEW d \in I2cDevices PROVE I2cInv(d)
  <2>1. d \in Devices /\ d \notin SpiDevices /\ d # Absent
    BY BusesAssumption DEF BusesAssumption, Devices
  <2>2. said[d] = <<>> /\ device[d] = RegisterFilePeripheral
    BY <2>1, <1>1
  <2>3. device[d].pointer = Meant(d)
    BY <2>2, FreshDevice, NothingBegunYet, MeaningIsReadOff
  <2>4. QED
    BY <2>1, <2>3, <1>1 DEF I2cInv
<1>6. QED
  BY <1>1, <1>3, <1>4, <1>5 DEF BusInv

LEMMA AssertedIsReadOff ==
    ASSUME NEW d
    PROVE  /\ Asserted(d) <=> AssertedIn(said[d], On(d), Off(d))
           /\ Asserted(d)' <=> AssertedIn(said'[d], On(d), Off(d))
           /\ FrameOf(d)' = FrameIn(said'[d], Off(d))
           /\ Meant(d)' = MeantIn(said'[d])
BY DEF Asserted, AssertedIn, FrameOf, FrameIn, Meant, MeantIn, LatestBegun

LEMMA SpiStays ==
    ASSUME NEW d \in SpiDevices, SpiInv(d),
           said'[d] = said[d], device'[d] = device[d], level'[d] = level[d],
           d \in selected' <=> d \in selected
    PROVE  SpiInv(d)'
<1>1. FrameOf(d)' = FrameOf(d) /\ (Asserted(d)' <=> Asserted(d))
  BY AssertedIsReadOff, FrameIsReadOff
<1>2. HearsItsFrame(d) => HearsItsFrame(d)'
  BY <1>1 DEF HearsItsFrame
<1>3. QED
  BY <1>1, <1>2 DEF SpiInv

LEMMA I2cStays ==
    ASSUME NEW d \in I2cDevices, I2cInv(d),
           said'[d] = said[d], device'[d] = device[d],
           active' = d /\ writing' => active = d /\ writing
    PROVE  I2cInv(d)'
<1>1. Meant(d)' = Meant(d)
  BY AssertedIsReadOff, MeaningIsReadOff
<1>2. QED
  BY <1>1 DEF I2cInv

(* A level that counts, and was not left between the rails, selects as the     *)
(* record says, however often the lines are looked at.                         *)
LEMMA LinesAreSteady ==
    ASSUME NEW d \in SpiDevices, SpiInv(d), level \in [SpiDevices -> {"low", "mid", "high"}],
           NEW lv, lv[d] = level[d]
    PROVE  d \in NowSelected(lv) <=> d \in selected
<1>1. level[d] = "mid" \/ level[d] = On(d) \/ level[d] = Off(d)
  BY LevelsAreSaid
<1>2. (d \in selected) \in BOOLEAN
  OBVIOUS
<1>3. d \in NowSelected(lv) <=> Selects(level[d], d, d \in selected)
  BY DEF NowSelected
<1>4. CASE level[d] = "mid"
  BY <1>2, <1>3, <1>4, LevelsAreSaid DEF SpiInv
<1>5. CASE level[d] # "mid"
  BY <1>1, <1>2, <1>3, <1>5, LevelsAreSaid DEF SpiInv
<1>6. QED
  BY <1>4, <1>5

-------------------------------------------------------------------------------
(* A chip select is driven.                                                    *)
LEMMA DriveKeeps ==
    ASSUME BusInv, NEW d \in SpiDevices, NEW lv \in {"low", "mid", "high"}, Drive(d, lv)
    PROVE  BusInv'
<1>1. /\ lv # level[d] /\ level' = [level EXCEPT ![d] = lv]
      /\ selected' = NowSelected(level')
      /\ device' = Edges(selected')
      /\ said' = [said EXCEPT ![d] = @ \o SaidBy(lv)]
      /\ chattered' = Chattering(d, lv)
      /\ UNCHANGED <<log, issues, active, writing, lastAddress, measured>>
  BY DEF Drive
<1>2. BusTypeOK /\ (\A u \in SpiDevices \ chattered : SpiInv(u)) /\ \A u \in I2cDevices : I2cInv(u)
  BY DEF BusInv
<1>3. selected' \in SUBSET SpiDevices /\ chattered' \subseteq SpiDevices
  BY <1>1, <1>2 DEF NowSelected, Chattering, BusTypeOK
<1>4. SaidBy(lv) \in Seq(BusEvents)
  BY EventsAreRecords DEF SaidBy
<1>5. BusTypeOK'
  <2>1. said' \in [Devices -> Seq(BusEvents)]
    <3>1. said[d] \o SaidBy(lv) \in Seq(BusEvents)
      BY <1>2, <1>4, LevelsAreSaid DEF BusTypeOK
    <3>2. QED
      BY <3>1, <1>1, <1>2 DEF BusTypeOK
  <2>2. device' \in [Devices -> RegisterDevices]
    BY <1>1, <1>2, <1>3, EdgesKeepDevices
  <2>3. level' \in [SpiDevices -> {"low", "mid", "high"}]
    BY <1>1, <1>2 DEF BusTypeOK
  <2>4. QED
    BY <1>1, <1>2, <1>3, <2>1, <2>2, <2>3 DEF BusTypeOK
<1>6. ASSUME NEW u \in Devices, u # d PROVE said'[u] = said[u]
  BY <1>1, <1>2, <1>6 DEF BusTypeOK
<1>7. ASSUME NEW u \in I2cDevices PROVE I2cInv(u)'
  <2>1. u \in Devices /\ u \notin SpiDevices /\ u # d
    BY BusesAssumption DEF BusesAssumption, Devices
  <2>2. u \notin selected' /\ u \notin selected
    BY <2>1, <1>2, <1>3 DEF BusTypeOK
  <2>3. device'[u] = device[u]
    BY <2>1, <2>2, <1>1, <1>2, <1>3, EdgesKeepDevices
  <2>4. said'[u] = said[u]
    BY <2>1, <1>6
  <2>5. QED
    BY <2>3, <2>4, <1>1, <1>2, I2cStays
<1>8. ASSUME NEW u \in SpiDevices, u # d, u \notin chattered' PROVE SpiInv(u)'
  <2>1. u \notin chattered /\ u \in Devices
    BY <1>1, <1>8, LevelsAreSaid DEF Chattering
  <2>2. level'[u] = level[u]
    BY <1>1, <1>2, <1>8 DEF BusTypeOK
  <2>3. SpiInv(u)
    BY <2>1, <1>2
  <2>4. u \in selected' <=> u \in selected
    BY <2>2, <2>3, <1>1, <1>2, LinesAreSteady DEF BusTypeOK
  <2>5. device'[u] = device[u]
    BY <2>1, <2>4, <1>1, <1>2, <1>3, EdgesKeepDevices
  <2>6. said'[u] = said[u]
    BY <2>1, <1>6, <1>8
  <2>7. QED
    BY <2>2, <2>3, <2>4, <2>5, <2>6, SpiStays
<1>9. ASSUME d \notin chattered' PROVE SpiInv(d)'
  <2> DEFINE e == Event(lv)
             s == said[d]
  <2>1. d \in Devices /\ s \in Seq(BusEvents) /\ level'[d] = lv /\ said'[d] = s \o SaidBy(lv)
    BY <1>1, <1>2, LevelsAreSaid DEF BusTypeOK
  <2>2. d \in selected' <=> Selects(lv, d, d \in selected)
    BY <2>1, <1>1 DEF NowSelected
  <2>3. (d \in selected) \in BOOLEAN
    OBVIOUS
  <2>4. lv # "mid" => /\ e \in BusEvents /\ e.what = lv /\ lv # "byte"
                      /\ said'[d] = Append(s, e)
    BY <2>1, EventsAreRecords DEF SaidBy
  <2> HIDE DEF e, s
  <2>5. CASE lv = "mid"
    <3>1. d \in ActiveLow /\ d \notin chattered
      BY <1>9, <2>5, <1>1, LevelsAreSaid DEF Chattering
    <3>2. SpiInv(d) /\ level[d] # "mid"
      BY <3>1, <1>1, <1>2, <2>5
    <3>3. d \in selected' <=> d \in selected
      BY <2>2, <2>3, <2>5, <3>1, LevelsAreSaid
    <3>4. said'[d] = said[d]
      BY <2>1, <2>5 DEF SaidBy, s
    <3>5. device'[d] = device[d]
      BY <2>1, <3>3, <1>1, <1>2, <1>3, EdgesKeepDevices
    <3>6. FrameOf(d)' = FrameOf(d) /\ (Asserted(d)' <=> Asserted(d))
      BY <3>4, AssertedIsReadOff, FrameIsReadOff
    <3>7. HearsItsFrame(d) => HearsItsFrame(d)'
      BY <3>5, <3>6 DEF HearsItsFrame
    <3>8. QED
      BY <2>1, <2>5, <3>1, <3>2, <3>3, <3>6, <3>7 DEF SpiInv
  <2>6. CASE lv = Off(d)
    <3>1. d \notin selected'
      BY <2>2, <2>3, <2>6, LevelsAreSaid
    <3>2. FrameOf(d)' = <<>> /\ ~Asserted(d)'
      <4>1. e \in BusEvents /\ e.what = Off(d) /\ said'[d] = Append(s, e)
        BY <2>4, <2>6, LevelsAreSaid
      <4>2. FrameIn(Append(s, e), Off(d)) = <<>>
        BY <4>1, <2>1, LevelsAreSaid, FrameAppend
      <4>3. ~AssertedIn(Append(s, e), On(d), Off(d))
        BY <4>1, <2>1, LevelsAreSaid, AssertedAppend
      <4>4. QED
        BY <4>1, <4>2, <4>3, AssertedIsReadOff
    <3>3. QED
      BY <3>1, <3>2, <2>1, <2>6, LevelsAreSaid DEF SpiInv
  <2>7. CASE lv = On(d)
    <3>1. d \in selected'
      BY <2>2, <2>3, <2>7, LevelsAreSaid
    <3>2. d \notin chattered
      BY <1>9, <2>7, <1>1, LevelsAreSaid DEF Chattering
    <3>3. SpiInv(d)
      BY <3>2, <1>2
    <3>4. FrameOf(d)' = FrameOf(d) /\ Asserted(d)'
      <4>1. e \in BusEvents /\ e.what = On(d) /\ e.what \notin {Off(d), "byte"} /\ said'[d] = Append(s, e)
        BY <2>4, <2>7, LevelsAreSaid
      <4>2. FrameIn(Append(s, e), Off(d)) = FrameIn(s, Off(d))
        BY <4>1, <2>1, LevelsAreSaid, FrameAppend
      <4>3. AssertedIn(Append(s, e), On(d), Off(d))
        BY <4>1, <2>1, LevelsAreSaid, AssertedAppend
      <4>4. QED
        BY <4>1, <4>2, <4>3, AssertedIsReadOff, FrameIsReadOff DEF s
    <3>5. HearsItsFrame(d)'
      <4>1. CASE d \in selected
        <5>1. device'[d] = device[d]
          BY <4>1, <3>1, <2>1, <1>1, <1>2, <1>3, EdgesKeepDevices
        <5>2. QED
          BY <5>1, <4>1, <3>3, <3>4 DEF SpiInv, HearsItsFrame
      <4>2. CASE d \notin selected
        <5>1. device'[d] = OnSelect(device[d])
          BY <4>2, <3>1, <2>1, <1>1, <1>2, <1>3, EdgesKeepDevices
        <5>2. device'[d].awaiting = TRUE /\ device'[d].frame = <<>>
          <6>1. device[d] \in RegisterDevices
            BY <2>1, <1>2 DEF BusTypeOK
          <6>2. QED
            BY <5>1, <6>1, SelectedAfresh
        <5>3. FrameOf(d)' = <<>>
          BY <3>3, <3>4, <4>2 DEF SpiInv
        <5>4. QED
          BY <5>2, <5>3 DEF HearsItsFrame
      <4>3. QED
        BY <4>1, <4>2
    <3>6. QED
      BY <3>1, <3>4, <3>5, <2>1, <2>7, LevelsAreSaid DEF SpiInv
  <2>8. QED
    BY <2>5, <2>6, <2>7, LevelsAreSaid
<1>10. QED
  BY <1>5, <1>7, <1>8, <1>9 DEF BusInv

(* Nothing has changed, and nobody notices but who chatters.                   *)
LEMMA SolveAgainKeeps ==
    ASSUME BusInv, SolveAgain
    PROVE  BusInv'
<1>1. /\ selected' = NowSelected(level) /\ device' = Edges(selected')
      /\ UNCHANGED <<level, log, issues, active, writing, lastAddress, measured, said, chattered>>
  BY DEF SolveAgain
<1>2. BusTypeOK /\ (\A u \in SpiDevices \ chattered : SpiInv(u)) /\ \A u \in I2cDevices : I2cInv(u)
  BY DEF BusInv
<1>3. selected' \in SUBSET SpiDevices
  BY <1>1 DEF NowSelected
<1>4. BusTypeOK'
  <2>1. device' \in [Devices -> RegisterDevices]
    BY <1>1, <1>2, <1>3, EdgesKeepDevices
  <2>2. QED
    BY <2>1, <1>1, <1>2, <1>3 DEF BusTypeOK
<1>5. ASSUME NEW u \in SpiDevices \ chattered PROVE SpiInv(u)'
  <2>1. u \in Devices /\ SpiInv(u)
    BY <1>2, LevelsAreSaid
  <2>2. u \in selected' <=> u \in selected
    BY <2>1, <1>1, <1>2, LinesAreSteady DEF BusTypeOK
  <2>3. device'[u] = device[u]
    BY <2>1, <2>2, <1>1, <1>2, <1>3, EdgesKeepDevices
  <2>4. QED
    BY <2>1, <2>2, <2>3, <1>1, SpiStays
<1>6. ASSUME NEW u \in I2cDevices PROVE I2cInv(u)'
  <2>1. u \in Devices /\ u \notin SpiDevices
    BY BusesAssumption DEF BusesAssumption, Devices
  <2>2. u \notin selected' /\ u \notin selected
    BY <2>1, <1>2, <1>3 DEF BusTypeOK
  <2>3. device'[u] = device[u]
    BY <2>1, <2>2, <1>1, <1>2, <1>3, EdgesKeepDevices
  <2>4. QED
    BY <2>3, <1>1, <1>2, I2cStays
<1>7. QED
  BY <1>1, <1>4, <1>5, <1>6 DEF BusInv

-------------------------------------------------------------------------------
(* A byte is sent.                                                             *)

LEMMA FrameMovesOn ==
    ASSUME NEW f \in Seq(Byte), NEW b \in Byte
    PROVE  /\ Append(f, b) # <<>>
           /\ f = <<>> => Append(f, b)[1] = b /\ FrameAt(Append(f, b)) = b % Size
           /\ f # <<>> => /\ Append(f, b)[1] = f[1] /\ FrameAt(Append(f, b)) = Next(FrameAt(f))
                          /\ FrameAt(f) = (IF f[1] >= Size THEN f[1] - Size + Len(f) - 1
                                           ELSE f[1] + Len(f) - 1) % (2 * Size)
<1> DEFINE g == Append(f, b)
           K == 2 * Size
           Base(h) == IF h[1] >= Size THEN h[1] - Size ELSE h[1]
<1>1. Size \in Nat \ {0} /\ K \in Nat \ {0} /\ b \in 0 .. K - 1 /\ \A a \in Byte : a \in 0 .. K - 1
  BY BytesAreNumbers, BusesAssumption DEF BusesAssumption
<1>2. g # <<>> /\ Len(g) = Len(f) + 1 /\ Len(f) \in Nat
  OBVIOUS
<1>3. \A h : FrameAt(h) = (Base(h) + Len(h) - 1) % K
  BY DEF FrameAt
<1>4. ASSUME f = <<>> PROVE g[1] = b /\ FrameAt(g) = b % Size
  <2>1. g[1] = b /\ Len(g) = 1
    BY <1>4
  <2>2. Base(g) = b % Size
    <3>1. CASE b >= Size
      <4>1. b = Size * 1 + (b - Size) /\ b - Size \in 0 .. Size - 1
        BY <1>1, <3>1
      <4>2. b % Size = b - Size
        BY <4>1, <1>1
      <4>3. QED
        BY <4>2, <2>1, <3>1
    <3>2. CASE b < Size
      <4>1. b % Size = b
        BY <1>1, <3>2, SmallIsItself
      <4>2. QED
        BY <4>1, <2>1, <3>2, <1>1
    <3>3. QED
      BY <3>1, <3>2, <1>1
  <2>3. b % Size \in 0 .. K - 1
    BY BytesAreNumbers, <1>1
  <2> HIDE DEF Base, g
  <2>4. FrameAt(g) = ((b % Size) + 1 - 1) % K
    BY <2>1, <2>2, <1>3
  <2>5. ((b % Size) + 1 - 1) = b % Size
    BY <2>3
  <2>6. QED
    <3>1. b % Size \in Nat /\ b % Size < K
      BY <2>3, <1>1
    <3>2. (b % Size) % K = b % Size
      BY <3>1, <1>1, SmallIsItself
    <3>3. QED
      BY <2>1, <2>4, <2>5, <3>2
<1>5. ASSUME f # <<>>
      PROVE  /\ g[1] = f[1] /\ FrameAt(g) = Next(FrameAt(f))
             /\ FrameAt(f) = (IF f[1] >= Size THEN f[1] - Size + Len(f) - 1 ELSE f[1] + Len(f) - 1) % K
  <2>1. Len(f) >= 1 /\ f[1] \in Byte /\ g[1] = f[1]
    BY <1>5
  <2>2. f[1] \in 0 .. K - 1
    BY <2>1, <1>1
  <2>3. Base(g) = Base(f) /\ Base(f) \in Nat
    BY <2>1, <2>2, <1>1
  <2>4. Base(f) + Len(f) - 1 = IF f[1] >= Size THEN f[1] - Size + Len(f) - 1 ELSE f[1] + Len(f) - 1
    OBVIOUS
  <2>5. Base(f) + Len(f) - 1 \in Nat
    BY <2>1, <2>3
  <2> HIDE DEF Base, g
  <2>6. Base(g) + Len(g) - 1 = (Base(f) + Len(f) - 1) + 1
    BY <2>3, <1>2
  <2>7. ((Base(f) + Len(f) - 1) + 1) % K = (((Base(f) + Len(f) - 1) % K) + 1) % K
    BY <2>5, <1>1, OneOn
  <2>8. FrameAt(g) = Next(FrameAt(f))
    BY <2>6, <2>7, <1>3 DEF Next
  <2>9. FrameAt(f) = (IF f[1] >= Size THEN f[1] - Size + Len(f) - 1 ELSE f[1] + Len(f) - 1) % K
    BY <2>4, <1>3
  <2>10. QED
    BY <2>1, <2>8, <2>9
<1>6. QED
  BY <1>2, <1>4, <1>5

(* The device that answers, before and after.                                  *)
LEMMA ByteIsHeard ==
    ASSUME BusInv, NEW mosi \in Byte, OnByte(mosi), NEW d \in SpiDevices,
           d = First(NowSelected(level)), NowSelected(level) # {}
    PROVE  LET r == Edges(NowSelected(level))[d]
               t == Transferred(r, d, mosi)
           IN  /\ r \in RegisterDevices
               /\ device' = [Edges(NowSelected(level)) EXCEPT ![d] = t[1]]
               /\ device'[d] = t[1]
               /\ said' = [said EXCEPT ![d] = Append(@, Byted(mosi))]
               /\ said'[d] = Append(said[d], Byted(mosi))
               /\ log' \in Seq(Transfers) /\ Last(log').answer = t[2]
<1> DEFINE now == NowSelected(level)
           r == Edges(now)[d]
           t == Transferred(r, d, mosi)
<1>1. BusTypeOK
  BY DEF BusInv
<1>2. now \in SUBSET SpiDevices
  BY DEF NowSelected
<1>3. d \in Devices
  BY LevelsAreSaid
<1>4. Edges(now) \in [Devices -> RegisterDevices]
  BY <1>1, <1>2, EdgesKeepDevices
<1>5. /\ device' = [Edges(now) EXCEPT ![d] = t[1]]
      /\ Logged([device |-> d, byte |-> mosi, answer |-> t[2]])
      /\ said' = [said EXCEPT ![d] = Append(@, Byted(mosi))]
  BY DEF OnByte
<1>6. said'[d] = Append(said[d], Byted(mosi))
  BY <1>1, <1>3, <1>5 DEF BusTypeOK
<1> HIDE DEF now
<1>7. r \in RegisterDevices
  BY <1>3, <1>4
<1> HIDE DEF r
<1>8. t[2] \in Byte
  <2>1. HeardAs(t, r, d, mosi)
    BY <1>1, <1>7, TransferHears DEF BusTypeOK
  <2>2. QED
    BY <2>1 DEF HeardAs
<1> HIDE DEF t
<1>9. [device |-> d, byte |-> mosi, answer |-> t[2]] \in Transfers
  BY <1>3, <1>8 DEF Transfers
<1>10. log' \in Seq(Transfers) /\ Last(log') = [device |-> d, byte |-> mosi, answer |-> t[2]]
  BY <1>1, <1>5, <1>9, LoggedLast DEF BusTypeOK
<1>11. device'[d] = t[1]
  BY <1>3, <1>4, <1>5
<1>12. Last(log').answer = t[2]
  BY <1>10
<1>13. QED
  BY <1>5, <1>6, <1>7, <1>10, <1>11, <1>12 DEF now, r, t

LEMMA OnByteKeeps ==
    ASSUME BusInv, NEW mosi \in Byte, OnByte(mosi)
    PROVE  BusInv'
<1> DEFINE now == NowSelected(level)
<1>1. /\ selected' = now
      /\ UNCHANGED <<level, active, writing, lastAddress, measured, chattered>>
  BY DEF OnByte
<1>2. BusTypeOK /\ (\A u \in SpiDevices \ chattered : SpiInv(u)) /\ \A u \in I2cDevices : I2cInv(u)
  BY DEF BusInv
<1>3. now \in SUBSET SpiDevices
  BY DEF NowSelected
<1>4. \A u \in SpiDevices \ chattered : u \in now <=> u \in selected
  BY <1>2, LinesAreSteady DEF BusTypeOK
<1>5. Edges(now) \in [Devices -> RegisterDevices]
  BY <1>2, <1>3, EdgesKeepDevices
<1>6. \A u \in SpiDevices \ chattered : Edges(now)[u] = device[u]
  BY <1>2, <1>3, <1>4, EdgesKeepDevices, LevelsAreSaid
<1>7. \A u \in I2cDevices : u \in Devices /\ u \notin SpiDevices /\ Edges(now)[u] = device[u]
  <2>1. \A u \in I2cDevices : u \in Devices /\ u \notin SpiDevices
    BY BusesAssumption DEF BusesAssumption, Devices
  <2>2. \A u \in I2cDevices : u \notin now /\ u \notin selected
    BY <2>1, <1>2, <1>3 DEF BusTypeOK
  <2>3. QED
    BY <2>1, <2>2, <1>2, <1>3, EdgesKeepDevices
<1>8. CASE now = {}
  <2>1. /\ device' = Edges(now)
        /\ Logged([device |-> Absent, byte |-> mosi, answer |-> FloatingByte])
        /\ said' = said
    BY <1>8 DEF OnByte
  <2>2. [device |-> Absent, byte |-> mosi, answer |-> FloatingByte] \in Transfers
    BY BytesAreNumbers DEF Transfers
  <2>3. log' \in Seq(Transfers)
    BY <2>1, <2>2, <1>2, LoggedLast DEF BusTypeOK
  <2>4. BusTypeOK'
    BY <2>1, <2>3, <1>1, <1>2, <1>3, <1>5 DEF BusTypeOK
  <2>5. \A u \in SpiDevices \ chattered : SpiInv(u)'
    BY <2>1, <1>1, <1>2, <1>4, <1>6, SpiStays
  <2>6. \A u \in I2cDevices : I2cInv(u)'
    BY <2>1, <1>1, <1>2, <1>7, I2cStays
  <2>7. QED
    BY <2>4, <2>5, <2>6, <1>1 DEF BusInv
<1>9. CASE now # {}
  <2> PICK d \in SpiDevices : d = First(now) /\ d \in now
    BY <1>3, <1>9, FirstIsSelected
  <2> DEFINE r == Edges(now)[d]
             t == Transferred(r, d, mosi)
  <2>1. d \in Devices
    BY LevelsAreSaid
  <2>2. /\ r \in RegisterDevices
        /\ device' = [Edges(now) EXCEPT ![d] = t[1]] /\ device'[d] = t[1]
        /\ said' = [said EXCEPT ![d] = Append(@, Byted(mosi))]
        /\ said'[d] = Append(said[d], Byted(mosi))
        /\ log' \in Seq(Transfers)
    BY <1>9, ByteIsHeard
  <2>3. /\ t[1] \in RegisterDevices
        /\ t[1].frame = Append(r.frame, mosi)
        /\ d \notin Streams =>
             /\ t[1].awaiting = FALSE
             /\ r.awaiting => t[1].reading = (mosi >= Size) /\ t[1].pointer = mosi % Size
             /\ ~r.awaiting => t[1].reading = r.reading /\ t[1].pointer = Next(r.pointer)
    <3> HIDE DEF r
    <3>1. HeardAs(t, r, d, mosi)
      BY <2>2, <1>2, TransferHears DEF BusTypeOK
    <3> HIDE DEF t
    <3>2. QED
      BY <3>1 DEF HeardAs
  <2> HIDE DEF t, now
  <2>4. Byted(mosi) \in BusEvents /\ Byted(mosi).what = "byte" /\ Byted(mosi).byte = mosi
        /\ said[d] \in Seq(BusEvents)
    BY <2>1, <1>2, EventsAreRecords DEF BusTypeOK
  <2>5. BusTypeOK'
    <3>1. said' \in [Devices -> Seq(BusEvents)]
      <4>1. Append(said[d], Byted(mosi)) \in Seq(BusEvents)
        BY <2>4
      <4>2. QED
        BY <4>1, <2>2, <1>2 DEF BusTypeOK
    <3>2. device' \in [Devices -> RegisterDevices]
      BY <2>2, <2>3, <1>5
    <3>3. QED
      BY <3>1, <3>2, <2>2, <1>1, <1>2, <1>3 DEF BusTypeOK
  <2>6. ASSUME NEW u \in I2cDevices PROVE I2cInv(u)'
    <3>1. u # d /\ u \in Devices
      BY <2>1, <1>7
    <3>2. device'[u] = device[u]
      BY <3>1, <2>2, <1>5, <1>7
    <3>3. said'[u] = said[u]
      BY <3>1, <2>2, <1>2 DEF BusTypeOK
    <3>4. QED
      BY <3>2, <3>3, <1>1, <1>2, I2cStays
  <2>7. ASSUME NEW u \in SpiDevices \ chattered, u # d PROVE SpiInv(u)'
    <3>1. u \in Devices
      BY LevelsAreSaid
    <3>2. device'[u] = device[u]
      BY <3>1, <2>2, <2>7, <1>5, <1>6
    <3>3. said'[u] = said[u]
      BY <3>1, <2>2, <2>7, <1>2 DEF BusTypeOK
    <3>4. QED
      BY <3>2, <3>3, <1>1, <1>2, <1>4, SpiStays
  <2>8. ASSUME d \notin chattered PROVE SpiInv(d)'
    <3>1. SpiInv(d) /\ d \in selected /\ r = device[d]
      BY <2>1, <2>8, <1>2, <1>4, <1>6
    <3>2. HearsItsFrame(d)
      BY <3>1 DEF SpiInv
    <3> DEFINE f == FrameOf(d)
    <3>3. /\ f \in Seq(Byte) /\ r.frame = f
          /\ d \notin Streams =>
               /\ r.awaiting <=> f = <<>>
               /\ f # <<>> => r.reading = (f[1] >= Size) /\ r.pointer = FrameAt(f)
      BY <3>1, <3>2, <2>2 DEF HearsItsFrame, RegisterDevices
    <3>4. FrameOf(d)' = Append(f, mosi)
      <4>1. FrameIn(Append(said[d], Byted(mosi)), Off(d)) = Append(FrameIn(said[d], Off(d)), mosi)
        BY <2>1, <2>4, LevelsAreSaid, FrameAppend
      <4>2. QED
        BY <4>1, <2>2, AssertedIsReadOff, FrameIsReadOff
    <3>5. Asserted(d)' <=> Asserted(d)
      <4>1. On(d) # Off(d) /\ Byted(mosi).what \notin {On(d), Off(d)}
        BY <2>1, <2>4, LevelsAreSaid
      <4>2. AssertedIn(Append(said[d], Byted(mosi)), On(d), Off(d)) <=> AssertedIn(said[d], On(d), Off(d))
        BY <4>1, <2>4, AssertedAppend
      <4>3. QED
        BY <4>2, <2>2, AssertedIsReadOff
    <3> HIDE DEF f, r
    <3>6. /\ Append(f, mosi) # <<>>
          /\ f = <<>> => Append(f, mosi)[1] = mosi /\ FrameAt(Append(f, mosi)) = mosi % Size
          /\ f # <<>> => Append(f, mosi)[1] = f[1] /\ FrameAt(Append(f, mosi)) = Next(FrameAt(f))
      BY <3>3, FrameMovesOn
    <3> DEFINE g == Append(f, mosi)
    <3>7. d \notin Streams =>
             /\ t[1].awaiting <=> g = <<>>
             /\ g # <<>> => t[1].reading = (g[1] >= Size) /\ t[1].pointer = FrameAt(g)
      BY <3>3, <3>6, <2>3
    <3>8. t[1].frame = g
      BY <3>3, <2>3
    <3> HIDE DEF g
    <3>9. FrameOf(d)' = g
      BY <3>4 DEF g
    <3>10. HearsItsFrame(d)'
      BY <3>7, <3>8, <3>9, <2>2 DEF HearsItsFrame
    <3>11. QED
      BY <3>1, <3>5, <3>10, <2>1, <1>1, <1>4 DEF SpiInv
  <2>9. QED
    BY <2>5, <2>6, <2>7, <2>8, <1>1 DEF BusInv
<1>10. QED
  BY <1>8, <1>9

(* What the device that is selected does with it.                              *)
LEMMA OnByteIsUnderstood ==
    ASSUME BusInv, NEW mosi \in Byte, OnByte(mosi), NEW d \in SpiDevices \ chattered,
           d = First(NowSelected(level)), NowSelected(level) # {}
    PROVE  SpiUnderstood(d, mosi)
<1> DEFINE now == NowSelected(level)
           r == Edges(now)[d]
           t == Transferred(r, d, mosi)
           f == FrameOf(d)
<1>1. /\ r \in RegisterDevices /\ device'[d] = t[1] /\ Last(log').answer = t[2]
  BY ByteIsHeard
<1>2. BusTypeOK /\ SpiInv(d) /\ d \in Devices
  BY LevelsAreSaid DEF BusInv
<1>3. now \in SUBSET SpiDevices
  BY DEF NowSelected
<1>4. d \in selected /\ r = device[d]
  <2>1. d \in now
    BY <1>3, FirstIsSelected
  <2>2. d \in now <=> d \in selected
    BY <1>2, LinesAreSteady DEF BusTypeOK
  <2>3. QED
    BY <2>1, <2>2, <1>2, <1>3, EdgesKeepDevices
<1> HIDE DEF r
<1>5. /\ f \in Seq(Byte) /\ Asserted(d)
      /\ d \notin Streams =>
           /\ r.awaiting <=> f = <<>>
           /\ f # <<>> => r.reading = (f[1] >= Size) /\ r.pointer = FrameAt(f)
  BY <1>1, <1>2, <1>4 DEF SpiInv, HearsItsFrame, RegisterDevices
<1>6. d \notin Streams =>
        /\ r.awaiting => t[1].bytes = r.bytes /\ t[2] = 0
        /\ ~r.awaiting /\ r.reading => t[1].bytes = r.bytes /\ t[2] = ByteAt(r.bytes, r.pointer)
        /\ ~r.awaiting /\ ~r.reading => t[1].bytes = Written(r.bytes, r.pointer, mosi) /\ t[2] = 0
  <2>1. HeardAs(t, r, d, mosi)
    BY <1>1, <1>2, TransferHears DEF BusTypeOK
  <2> HIDE DEF t
  <2>2. QED
    BY <2>1 DEF HeardAs
<1>7. r.bytes = device[d].bytes
  BY <1>4
<1> HIDE DEF f, t
<1>8. f # <<>> => f[1] \in Nat /\ Size \in Nat /\
        FrameAt(f) = (IF f[1] >= Size THEN f[1] - Size + Len(f) - 1 ELSE f[1] + Len(f) - 1) % (2 * Size)
  <2>1. f # <<>> => f[1] \in Byte
    BY <1>5
  <2>2. QED
    BY <2>1, <1>5, FrameMovesOn, BusesAssumption DEF Byte, BusesAssumption
<1> DEFINE was == device[d].bytes
<1>9. d \notin Streams =>
        /\ t[2] = IF f # <<>> /\ f[1] >= Size
                  THEN ByteAt(was, (f[1] - Size + Len(f) - 1) % (2 * Size)) ELSE 0
        /\ t[1].bytes = IF f # <<>> /\ f[1] < Size
                        THEN Written(was, (f[1] + Len(f) - 1) % (2 * Size), mosi) ELSE was
  <2> SUFFICES ASSUME d \notin Streams
               PROVE  /\ t[2] = IF f # <<>> /\ f[1] >= Size
                                THEN ByteAt(was, (f[1] - Size + Len(f) - 1) % (2 * Size)) ELSE 0
                      /\ t[1].bytes = IF f # <<>> /\ f[1] < Size
                                      THEN Written(was, (f[1] + Len(f) - 1) % (2 * Size), mosi) ELSE was
    OBVIOUS
  <2>1. CASE f = <<>>
    BY <2>1, <1>5, <1>6, <1>7
  <2>2. CASE f # <<>> /\ f[1] >= Size
    <3>1. ~(f[1] < Size)
      BY <2>2, <1>8
    <3>2. r.pointer = (f[1] - Size + Len(f) - 1) % (2 * Size)
      BY <2>2, <1>5, <1>8
    <3>3. QED
      BY <2>2, <3>1, <3>2, <1>5, <1>6, <1>7
  <2>3. CASE f # <<>> /\ ~(f[1] >= Size)
    <3>1. r.pointer = (f[1] + Len(f) - 1) % (2 * Size)
      BY <2>3, <1>5, <1>8
    <3>2. f[1] < Size
      BY <2>3, <1>8
    <3>3. QED
      BY <2>3, <3>1, <3>2, <1>5, <1>6, <1>7
  <2>4. QED
    BY <2>1, <2>2, <2>3
<1>10. QED
  BY <1>1, <1>5, <1>9 DEF SpiUnderstood, f

-------------------------------------------------------------------------------
(* The I2C bus.                                                                *)

LEMMA I2cIsElsewhere ==
    ASSUME NEW a \in I2cDevices
    PROVE  a \in Devices /\ a \notin SpiDevices /\ a # Absent
BY BusesAssumption DEF BusesAssumption, Devices

(* One device is called, written or read: the others stay as they are.         *)
LEMMA OneDeviceMoves ==
    ASSUME BusInv, NEW a \in I2cDevices, NEW r \in RegisterDevices, NEW e \in BusEvents,
           device' = [device EXCEPT ![a] = r],
           said' = [said EXCEPT ![a] = Append(@, e)],
           active' = a, I2cInv(a)', log' \in Seq(Transfers), writing' \in BOOLEAN, lastAddress' \in I2cDevices \cup {Absent},
           UNCHANGED <<level, selected, measured, chattered>>
    PROVE  BusInv'
<1>1. BusTypeOK /\ (\A u \in SpiDevices \ chattered : SpiInv(u)) /\ \A u \in I2cDevices : I2cInv(u)
  BY DEF BusInv
<1>2. a \in Devices /\ a \notin SpiDevices
  BY I2cIsElsewhere
<1>3. \A u \in Devices : u # a => device'[u] = device[u] /\ said'[u] = said[u]
  BY <1>1 DEF BusTypeOK
<1>4. BusTypeOK'
  <2>1. said' \in [Devices -> Seq(BusEvents)]
    <3>1. Append(said[a], e) \in Seq(BusEvents)
      BY <1>1, <1>2 DEF BusTypeOK
    <3>2. QED
      BY <3>1, <1>1 DEF BusTypeOK
  <2>2. device' \in [Devices -> RegisterDevices]
    BY <1>1 DEF BusTypeOK
  <2>3. QED
    BY <2>1, <2>2, <1>1 DEF BusTypeOK
<1>5. ASSUME NEW u \in SpiDevices \ chattered PROVE SpiInv(u)'
  <2>1. u \in Devices /\ u # a
    BY <1>2, LevelsAreSaid
  <2>2. device'[u] = device[u] /\ said'[u] = said[u]
    BY <2>1, <1>3
  <2>3. QED
    BY <2>2, <1>1, SpiStays
<1>6. ASSUME NEW u \in I2cDevices, u # a PROVE I2cInv(u)'
  <2>1. device'[u] = device[u] /\ said'[u] = said[u]
    BY <1>3, <1>6, I2cIsElsewhere
  <2>2. QED
    BY <2>1, <1>1, <1>6, I2cStays
<1>7. QED
  BY <1>4, <1>5, <1>6 DEF BusInv

(* Nothing is said: whoever is in the middle of a write stays in it.           *)
LEMMA NobodyMoves ==
    ASSUME BusInv, UNCHANGED <<level, selected, device, said, chattered>>,
           active' \in I2cDevices \cup {Absent}, writing' \in BOOLEAN,
           log' \in Seq(Transfers), lastAddress' \in I2cDevices \cup {Absent}, measured' \in {0, 1},
           \A a \in I2cDevices : active' = a /\ writing' => active = a /\ writing
    PROVE  BusInv'
<1>1. BusTypeOK /\ (\A u \in SpiDevices \ chattered : SpiInv(u)) /\ \A u \in I2cDevices : I2cInv(u)
  BY DEF BusInv
<1>2. BusTypeOK'
  BY <1>1 DEF BusTypeOK
<1>3. \A u \in SpiDevices \ chattered : SpiInv(u)'
  BY <1>1, SpiStays
<1>4. \A u \in I2cDevices : I2cInv(u)'
  BY <1>1, I2cStays
<1>5. QED
  BY <1>2, <1>3, <1>4 DEF BusInv

LEMMA LastOfAppend ==
    ASSUME NEW s \in Seq(BusEvents), NEW e \in BusEvents
    PROVE  /\ Append(s, e) # <<>> /\ Append(s, e)[Len(Append(s, e))] = e
           /\ Last(Append(s, e)) = e /\ Last(s) = s[Len(s)]
BY DEF Last

LEMMA ConnectKeeps ==
    ASSUME BusInv, NEW address \in I2cDevices \cup {Absent}, NEW write \in BOOLEAN, Connect(address, write)
    PROVE  BusInv'
<1>1. /\ lastAddress' = address /\ active' = address /\ writing' = write
      /\ log' = log /\ UNCHANGED <<level, selected, issues, measured, chattered>>
  BY DEF Connect, Chat
<1>2. BusTypeOK /\ \A u \in I2cDevices : I2cInv(u)
  BY DEF BusInv
<1>3. CASE address # Absent /\ write
  <2> DEFINE r == [device[address] EXCEPT !.awaiting = TRUE]
             e == Event("write")
  <2>1. /\ device' = [device EXCEPT ![address].awaiting = TRUE]
        /\ said' = [said EXCEPT ![address] = Append(@, e)]
    BY <1>3 DEF Connect
  <2>2. address \in I2cDevices /\ address \in Devices /\ device[address] \in RegisterDevices
        /\ said[address] \in Seq(BusEvents)
    BY <1>2, <1>3, I2cIsElsewhere DEF BusTypeOK
  <2>3. r \in RegisterDevices /\ r.awaiting = TRUE /\ r.pointer = device[address].pointer
    BY <2>2 DEF RegisterDevices
  <2>4. device' = [device EXCEPT ![address] = r]
    BY <2>1
  <2>5. e \in BusEvents /\ e.what = "write"
    BY EventsAreRecords
  <2>6. device'[address] = r /\ said'[address] = Append(said[address], e)
    BY <2>1, <2>2, <2>4, <1>2 DEF BusTypeOK
  <2> HIDE DEF r, e
  <2>7. I2cInv(address)'
    <3>1. Meant(address)' = Meant(address)
      <4>1. MeantIn(Append(said[address], e)) = MeantIn(said[address])
        BY <2>2, <2>5, MeantAppend
      <4>2. QED
        BY <4>1, <2>6, AssertedIsReadOff, MeaningIsReadOff
    <3>2. said'[address] # <<>> /\ said'[address][Len(said'[address])] = e
      BY <2>2, <2>5, <2>6, LastOfAppend
    <3>3. device[address].pointer = Meant(address)
      BY <2>2, <1>2 DEF I2cInv
    <3>4. QED
      BY <3>1, <3>2, <3>3, <2>3, <2>5, <2>6 DEF I2cInv
  <2>8. log' \in Seq(Transfers) /\ writing' \in BOOLEAN /\ lastAddress' \in I2cDevices \cup {Absent}
    BY <1>1, <1>2 DEF BusTypeOK
  <2>9. QED
    BY <2>1, <2>2, <2>3, <2>4, <2>5, <2>7, <2>8, <1>1, OneDeviceMoves
<1>4. CASE ~(address # Absent /\ write)
  <2>1. UNCHANGED <<device, said>>
    BY <1>4 DEF Connect
  <2>2. \A a \in I2cDevices : ~(active' = a /\ writing')
    BY <1>1, <1>4, I2cIsElsewhere
  <2>3. QED
    BY <2>1, <2>2, <1>1, <1>2, NobodyMoves DEF BusTypeOK
<1>5. QED
  BY <1>3, <1>4

(* A byte is written: what becomes of it, and that it is understood.           *)
LEMMA WriteByteKeeps ==
    ASSUME BusInv, NEW byte \in Byte, WriteByte(byte)
    PROVE  /\ BusInv'
           /\ active \in I2cDevices => /\ I2cUnderstood(active, Last(said'[active]))
                                       /\ \A u \in Devices : u # active => said'[u] = said[u]
           /\ active = Absent => said' = said
<1> DEFINE entry == [device |-> lastAddress, byte |-> byte, answer |-> IF active = Absent THEN 0 ELSE 1]
<1>1. /\ writing /\ Logged(entry)
      /\ UNCHANGED <<active, writing, lastAddress>>
      /\ UNCHANGED <<level, selected, issues, measured, chattered>>
  BY DEF WriteByte, Chat
<1>2. BusTypeOK /\ \A u \in I2cDevices : I2cInv(u)
  BY DEF BusInv
<1>3. log' \in Seq(Transfers)
  <2>1. lastAddress \in Devices \cup {Absent}
    BY <1>2, I2cIsElsewhere DEF BusTypeOK
  <2>2. entry \in Transfers
    BY <2>1, BytesAreNumbers DEF Transfers
  <2> HIDE DEF entry
  <2>3. QED
    BY <2>2, <1>1, <1>2, LoggedLast DEF BusTypeOK
<1>4. CASE active = Absent
  <2>1. UNCHANGED <<device, said>>
    BY <1>4 DEF WriteByte
  <2>2. BusInv'
    BY <2>1, <1>1, <1>2, <1>3, NobodyMoves DEF BusTypeOK
  <2>3. active \notin I2cDevices
    BY <1>4, I2cIsElsewhere
  <2>4. QED
    BY <2>1, <2>2, <2>3
<1>5. CASE active # Absent
  <2> PICK a \in I2cDevices : a = active
    BY <1>2, <1>5 DEF BusTypeOK
  <2> DEFINE r == Taken(device[a], byte)
             e == Byted(byte)
  <2>1. /\ device' = [device EXCEPT ![a] = r]
        /\ said' = [said EXCEPT ![a] = Append(@, e)]
    BY <1>5 DEF WriteByte
  <2>2. a \in Devices /\ device[a] \in RegisterDevices /\ said[a] \in Seq(BusEvents)
    BY <1>2, I2cIsElsewhere DEF BusTypeOK
  <2>3. /\ r \in RegisterDevices /\ r.awaiting = FALSE
        /\ device[a].awaiting => r.pointer = byte /\ r.bytes = device[a].bytes
        /\ ~device[a].awaiting => /\ r.pointer = Next(device[a].pointer)
                                  /\ r.bytes = Written(device[a].bytes, device[a].pointer, byte)
    BY <2>2, TakenIsUnderstood
  <2>4. e \in BusEvents /\ e.what = "byte" /\ e.byte = byte
    BY EventsAreRecords
  <2>5. device'[a] = r /\ said'[a] = Append(said[a], e)
    BY <2>1, <2>2, <1>2 DEF BusTypeOK
  <2> HIDE DEF r, e
  <2>6. /\ device[a].pointer = Meant(a) /\ said[a] # <<>>
        /\ device[a].awaiting <=> Opens(said[a])
    BY <1>1, <1>2 DEF I2cInv, Opens
  <2>7. Last(said'[a]) = e /\ said'[a] # <<>> /\ said'[a][Len(said'[a])] = e
        /\ Last(said[a]) = said[a][Len(said[a])]
    BY <2>2, <2>4, <2>5, LastOfAppend
  <2>8. I2cInv(a)'
    <3>1. device'[a].pointer = Meant(a)'
      <4>1. CASE Opens(said[a])
        <5>1. MeantIn(Append(said[a], e)) = byte
          BY <2>2, <2>4, <4>1, MeantAppend
        <5>2. QED
          BY <5>1, <4>1, <2>3, <2>5, <2>6, AssertedIsReadOff
      <4>2. CASE ~Opens(said[a])
        <5>1. MeantIn(Append(said[a], e)) = Next(MeantIn(said[a]))
          BY <2>2, <2>4, <4>2, MeantAppend
        <5>2. QED
          BY <5>1, <4>2, <2>3, <2>5, <2>6, AssertedIsReadOff, MeaningIsReadOff
      <4>3. QED
        BY <4>1, <4>2
    <3>2. QED
      BY <3>1, <2>3, <2>4, <2>5, <2>7 DEF I2cInv
  <2>9. log' \in Seq(Transfers) /\ writing' \in BOOLEAN /\ lastAddress' \in I2cDevices \cup {Absent}
    BY <1>1, <1>2, <1>3 DEF BusTypeOK
  <2>10. BusInv'
    BY <2>1, <2>3, <2>4, <2>8, <2>9, <1>1, OneDeviceMoves
  <2>11. I2cUnderstood(a, Last(said'[a]))
    BY <2>3, <2>4, <2>5, <2>6, <2>7 DEF I2cUnderstood, Opens
  <2>12. \A u \in Devices : u # a => said'[u] = said[u]
    BY <2>1, <1>2 DEF BusTypeOK
  <2>13. QED
    BY <2>10, <2>11, <2>12, <1>5
<1>6. QED
  BY <1>4, <1>5

LEMMA ReadByteKeeps ==
    ASSUME BusInv, ReadByte
    PROVE  /\ BusInv'
           /\ active \in I2cDevices => /\ I2cUnderstood(active, Last(said'[active]))
                                       /\ \A u \in Devices : u # active => said'[u] = said[u]
           /\ active = Absent => said' = said
<1>1. /\ ~writing
      /\ UNCHANGED <<active, writing, lastAddress>>
      /\ UNCHANGED <<level, selected, issues, measured, chattered>>
  BY DEF ReadByte, Chat
<1>2. BusTypeOK /\ \A u \in I2cDevices : I2cInv(u)
  BY DEF BusInv
<1>3. CASE active = Absent
  <2>1. /\ UNCHANGED <<device, said>>
        /\ Logged([device |-> lastAddress, byte |-> 0, answer |-> FloatingByte])
    BY <1>3 DEF ReadByte
  <2>2. lastAddress \in Devices \cup {Absent}
    BY <1>2, I2cIsElsewhere DEF BusTypeOK
  <2>3. [device |-> lastAddress, byte |-> 0, answer |-> FloatingByte] \in Transfers
    BY <2>2, BytesAreNumbers DEF Transfers
  <2>4. log' \in Seq(Transfers)
    BY <2>1, <2>3, <1>2, LoggedLast DEF BusTypeOK
  <2>5. BusInv'
    BY <2>1, <2>4, <1>1, <1>2, NobodyMoves DEF BusTypeOK
  <2>6. active \notin I2cDevices
    BY <1>3, I2cIsElsewhere
  <2>7. QED
    BY <2>1, <2>5, <2>6
<1>4. CASE active # Absent
  <2> PICK a \in I2cDevices : a = active
    BY <1>2, <1>4 DEF BusTypeOK
  <2> DEFINE r == [device[a] EXCEPT !.pointer = Next(@)]
             e == Event("read")
             entry == [device |-> a, byte |-> 0, answer |-> ByteAt(device[a].bytes, device[a].pointer)]
  <2>1. /\ device' = [device EXCEPT ![a].pointer = Next(@)]
        /\ said' = [said EXCEPT ![a] = Append(@, e)]
        /\ Logged(entry)
    BY <1>4 DEF ReadByte
  <2>2. a \in Devices /\ device[a] \in RegisterDevices /\ said[a] \in Seq(BusEvents)
    BY <1>2, I2cIsElsewhere DEF BusTypeOK
  <2>3. /\ r \in RegisterDevices /\ r.bytes = device[a].bytes
        /\ r.pointer = Next(device[a].pointer)
    <3>1. Next(device[a].pointer) \in Byte
      BY <2>2, BytesAreNumbers DEF RegisterDevices
    <3>2. QED
      BY <2>2, <3>1 DEF RegisterDevices
  <2>4. device' = [device EXCEPT ![a] = r]
    BY <2>1
  <2>5. e \in BusEvents /\ e.what = "read"
    BY EventsAreRecords
  <2>6. entry \in Transfers
    <3>1. ByteAt(device[a].bytes, device[a].pointer) \in Byte
      BY <2>2, <1>2, RegistersHoldBytes DEF RegisterDevices, BusTypeOK
    <3>2. QED
      BY <3>1, <2>2, BytesAreNumbers DEF Transfers
  <2>7. device'[a] = r /\ said'[a] = Append(said[a], e)
    BY <2>1, <2>2, <2>4, <1>2 DEF BusTypeOK
  <2>8. entry.answer = ByteAt(device[a].bytes, device[a].pointer)
    OBVIOUS
  <2> HIDE DEF r, e, entry
  <2>9. log' \in Seq(Transfers) /\ Last(log') = entry
    BY <2>1, <2>6, <1>2, LoggedLast DEF BusTypeOK
  <2>10. device[a].pointer = Meant(a)
    BY <1>2 DEF I2cInv
  <2>11. I2cInv(a)'
    <3>1. MeantIn(Append(said[a], e)) = Next(MeantIn(said[a]))
      BY <2>2, <2>5, MeantAppend
    <3>2. device'[a].pointer = Meant(a)'
      BY <3>1, <2>3, <2>7, <2>10, AssertedIsReadOff, MeaningIsReadOff
    <3>3. QED
      BY <3>2, <1>1 DEF I2cInv
  <2>12. writing' \in BOOLEAN /\ lastAddress' \in I2cDevices \cup {Absent}
    BY <1>1, <1>2 DEF BusTypeOK
  <2>13. BusInv'
    BY <2>1, <2>3, <2>4, <2>5, <2>9, <2>11, <2>12, <1>1, OneDeviceMoves
  <2>14. Last(said'[a]) = e
    BY <2>2, <2>5, <2>7, LastOfAppend
  <2>15. I2cUnderstood(a, Last(said'[a]))
    BY <2>3, <2>5, <2>7, <2>8, <2>9, <2>10, <2>14 DEF I2cUnderstood
  <2>16. \A u \in Devices : u # a => said'[u] = said[u]
    BY <2>1, <1>2 DEF BusTypeOK
  <2>17. QED
    BY <2>13, <2>15, <2>16, <1>4
<1>5. QED
  BY <1>3, <1>4

-------------------------------------------------------------------------------
StepIsUnderstood ==
    /\ \A d \in Devices :
         Len(said'[d]) > Len(said[d]) /\ Last(said'[d]).what \in {"byte", "read"} =>
           IF d \in SpiDevices THEN d \in chattered \/ SpiUnderstood(d, Last(said'[d]).byte)
           ELSE I2cUnderstood(d, Last(said'[d]))
    /\ \A d \in SpiDevices \ chattered : device[d].frame = FrameOf(d) \/ ~Asserted(d)

LEMMA WhoeverIsNotTold ==
    ASSUME BusTypeOK, NEW d \in Devices, said'[d] = said[d]
    PROVE  ~(Len(said'[d]) > Len(said[d]))
<1>1. Len(said[d]) \in Nat
  BY DEF BusTypeOK
<1>2. QED
  BY <1>1

LEMMA BusStep == BusInv /\ [BusesNext]_busVars => BusInv' /\ StepIsUnderstood
<1> SUFFICES ASSUME BusInv, [BusesNext]_busVars PROVE BusInv' /\ StepIsUnderstood
  OBVIOUS
<1> DEFINE Told(d) ==
      Len(said'[d]) > Len(said[d]) /\ Last(said'[d]).what \in {"byte", "read"} =>
        IF d \in SpiDevices THEN d \in chattered \/ SpiUnderstood(d, Last(said'[d]).byte)
        ELSE I2cUnderstood(d, Last(said'[d]))
<1>1. BusTypeOK
  BY DEF BusInv
<1>2. \A d \in SpiDevices \ chattered : device[d].frame = FrameOf(d) \/ ~Asserted(d)
  BY DEF BusInv, SpiInv, HearsItsFrame
<1>3. \A d \in Devices : said'[d] = said[d] => Told(d)
  BY <1>1, WhoeverIsNotTold
<1>4. ASSUME NEW d \in SpiDevices, NEW lv \in {"low", "mid", "high"}, Drive(d, lv)
      PROVE  BusInv' /\ \A u \in Devices : Told(u)
  <2>1. said' = [said EXCEPT ![d] = @ \o SaidBy(lv)] /\ d \in Devices
    BY <1>4, LevelsAreSaid DEF Drive
  <2>2. ASSUME NEW u \in Devices, u # d PROVE Told(u)
    BY <2>1, <2>2, <1>1, <1>3 DEF BusTypeOK
  <2>3. Told(d)
    <3>1. said'[d] = said[d] \o SaidBy(lv) /\ said[d] \in Seq(BusEvents)
      BY <2>1, <1>1 DEF BusTypeOK
    <3>2. CASE lv = "mid"
      <4>1. said'[d] = said[d]
        BY <3>1, <3>2 DEF SaidBy
      <4>2. QED
        BY <4>1, <2>1, <1>3
    <3>3. CASE lv # "mid"
      <4>1. Event(lv) \in BusEvents /\ Event(lv).what = lv /\ said'[d] = Append(said[d], Event(lv))
        BY <3>1, <3>3, EventsAreRecords DEF SaidBy
      <4>2. Last(said'[d]).what = lv
        BY <3>1, <4>1, LastOfAppend
      <4>3. Last(said'[d]).what \notin {"byte", "read"}
        BY <4>2
      <4>4. QED
        BY <4>3
    <3>4. QED
      BY <3>2, <3>3
  <2>4. QED
    BY <2>2, <2>3, <1>4, DriveKeeps
<1>5. ASSUME NEW mosi \in Byte, OnByte(mosi)
      PROVE  BusInv' /\ \A u \in Devices : Told(u)
  <2> DEFINE now == NowSelected(level)
  <2>1. BusInv'
    BY <1>5, OnByteKeeps
  <2>2. CASE now = {}
    <3>1. said' = said
      BY <1>5, <2>2 DEF OnByte
    <3>2. QED
      BY <3>1, <2>1, <1>3
  <2>3. CASE now # {}
    <3>1. now \in SUBSET SpiDevices
      BY DEF NowSelected
    <3>2. PICK d \in SpiDevices : d = First(now)
      BY <3>1, <2>3, FirstIsSelected
    <3>3. /\ said' = [said EXCEPT ![d] = Append(@, Byted(mosi))]
          /\ said'[d] = Append(said[d], Byted(mosi))
      BY <3>2, <2>3, <1>5, ByteIsHeard
    <3>4. ASSUME NEW u \in Devices, u # d PROVE Told(u)
      BY <3>3, <3>4, <1>1, <1>3 DEF BusTypeOK
    <3>5. Told(d)
      <4>1. Byted(mosi) \in BusEvents /\ Byted(mosi).byte = mosi
        BY EventsAreRecords
      <4>2. said[d] \in Seq(BusEvents)
        BY <1>1, LevelsAreSaid DEF BusTypeOK
      <4>3. Last(said'[d]).byte = mosi
        BY <4>1, <4>2, <3>3, LastOfAppend
      <4>4. d \in chattered \/ SpiUnderstood(d, mosi)
        BY <3>2, <2>3, <1>5, OnByteIsUnderstood
      <4>5. QED
        BY <4>3, <4>4
    <3>6. QED
      BY <2>1, <3>4, <3>5
  <2>4. QED
    BY <2>2, <2>3
<1>6. ASSUME NEW address \in I2cDevices \cup {Absent}, NEW write \in BOOLEAN, Connect(address, write)
      PROVE  BusInv' /\ \A u \in Devices : Told(u)
  <2>1. ASSUME NEW u \in Devices, said'[u] # said[u] PROVE Told(u)
    <3>1. said'[u] = Append(said[u], Event("write")) /\ said[u] \in Seq(BusEvents)
      BY <2>1, <1>1, <1>6 DEF Connect, BusTypeOK
    <3>2. Event("write") \in BusEvents /\ Event("write").what = "write"
      BY EventsAreRecords
    <3>3. Last(said'[u]).what = "write"
      BY <3>1, <3>2, LastOfAppend
    <3>4. Last(said'[u]).what \notin {"byte", "read"}
      BY <3>3
    <3>5. QED
      BY <3>4
  <2>2. QED
    BY <2>1, <1>3, <1>6, ConnectKeeps
<1>7. ASSUME NEW a \in I2cDevices, a = active, I2cUnderstood(active, Last(said'[active])),
             \A u \in Devices : u # active => said'[u] = said[u]
      PROVE  \A u \in Devices : Told(u)
  <2>1. a \notin SpiDevices
    BY I2cIsElsewhere
  <2>2. Told(a)
    BY <2>1, <1>7
  <2>3. QED
    BY <2>2, <1>3, <1>7
<1>8. active \in I2cDevices \/ active = Absent
  BY <1>1 DEF BusTypeOK
<1>9. ASSUME NEW byte \in Byte, WriteByte(byte)
      PROVE  BusInv' /\ \A u \in Devices : Told(u)
  <2> HIDE DEF Told
  <2>1. QED
    BY <1>3, <1>7, <1>8, <1>9, WriteByteKeeps
<1>10. ASSUME ReadByte PROVE BusInv' /\ \A u \in Devices : Told(u)
  <2> HIDE DEF Told
  <2>1. QED
    BY <1>3, <1>7, <1>8, <1>10, ReadByteKeeps
<1>11. ASSUME Stop \/ Measure \/ UNCHANGED busVars PROVE BusInv' /\ \A u \in Devices : Told(u)
  <2>1. UNCHANGED <<level, selected, device, said, chattered, log, lastAddress, writing>>
    BY <1>11 DEF Stop, Measure, Chat, busVars
  <2>2. /\ active' \in I2cDevices \cup {Absent} /\ measured' \in {0, 1}
        /\ \A a \in I2cDevices : active' = a => active = a
    BY <1>1, <1>11, I2cIsElsewhere DEF Stop, Measure, Chat, busVars, BusTypeOK
  <2>3. BusInv'
    BY <2>1, <2>2, <1>1, NobodyMoves DEF BusTypeOK
  <2>4. QED
    BY <2>1, <2>3, <1>3
<1>12. ASSUME SolveAgain PROVE BusInv' /\ \A u \in Devices : Told(u)
  BY <1>12, <1>3, SolveAgainKeeps DEF SolveAgain
<1>13. BusInv' /\ \A u \in Devices : Told(u)
  <2> HIDE DEF Told
  <2>1. QED
    BY <1>4, <1>5, <1>6, <1>9, <1>10, <1>11, <1>12 DEF BusesNext, SpiNext, I2cNext
<1>14. QED
  BY <1>2, <1>13 DEF StepIsUnderstood

(* Whatever else was selected, called, broken off or left between the rails,   *)
(* every byte means to a device what its data sheet says it means to the host: *)
(* a command, a pointer, or the contents of the register that the command and  *)
(* the bytes since have come to (bus/spi.ts, bus/i2c.ts, bus/registers.ts).    *)
(* A device selected by a high level is excepted while its line was left       *)
(* between the rails and has not been let go since.                            *)
THEOREM HostIsAlwaysUnderstood == BusesSpec => HostIsUnderstood
<1>1. BusInv /\ [BusesNext]_busVars => [StepIsUnderstood]_busVars
  BY BusStep
<1>2. QED
  BY <1>1, BusesStartSo, BusStep, PTL DEF BusesSpec, HostIsUnderstood, StepIsUnderstood
===============================================================================
