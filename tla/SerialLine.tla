------------------------------ MODULE SerialLine ------------------------------
(* A byte on its way from the sketch to the logic analyser: the transmit line  *)
(* the USART drives (mcu/usart-tx.ts), the checkpoints at which the board      *)
(* solves (sched/board.ts), the ring each solve samples into                   *)
(* (instruments/recorder.ts), and the decoder that reads the ring back         *)
(* (instruments/decode.ts).  Time is CPU cycles.                               *)
EXTENDS Integers, Sequences, SequencesExt

CONSTANTS
    BitCycles,      \* CPU cycles per bit; the fastest setting of the chip is 8
    DataBits,       \* character size
    MaxInstruction, \* cycles the longest instruction takes
    Interval,       \* cycles the circuit may go unsolved
    Capacity,       \* samples a channel retains
    MaxCycles,      \* bound: how long the sketch runs
    MaxBytes        \* bound: how many bytes it sends

ASSUME SerialAssumption ==
    /\ BitCycles \in Nat \ {0} /\ DataBits \in Nat \ {0} /\ MaxInstruction \in Nat \ {0}
    /\ Interval \in Nat \ {0} /\ Capacity \in Nat \ {0}
    /\ MaxCycles \in Nat /\ MaxBytes \in Nat

VARIABLES
    cycle,      \* cycles executed
    target,     \* where the running runFor ends
    enabled,    \* TXEN0: the USART owns the pin
    frames,     \* queue: the frames of the line, oldest first
    busyUntil,  \* when the last of them ends
    ring,       \* times and values, head and count of the D1 channel
    pushed,     \* history: every sample that was pushed
    sent        \* history: every byte that was written

serialVars == <<cycle, target, enabled, frames, busyUntil, ring, pushed, sent>>

(* A byte is the sequence of its bits, the least significant first.            *)
Bytes == [1 .. DataBits -> BOOLEAN]
BitsIn == DataBits + 2

-------------------------------------------------------------------------------
(* UsartTxLine.                                                                *)

EndOf(f) == f.start + BitsIn * BitCycles
Bit(f, at) == (at - f.start) \div BitCycles
FrameBits(byte) == <<FALSE>> \o byte \o <<TRUE>>

(* prune: what has been shifted out is forgotten, from the front.              *)
Pruned(queue, now) ==
    LET gone == {n \in 0 .. Len(queue) : \A i \in 1 .. n : EndOf(queue[i]) < now}
        most == CHOOSE n \in gone : \A k \in gone : k <= n
    IN  SubSeq(queue, most + 1, Len(queue))

(* levelAt: idle is high.                                                      *)
LevelAt(queue, at) ==
    \A i \in DOMAIN queue :
        queue[i].start <= at /\ at < EndOf(queue[i]) => queue[i].bits[Bit(queue[i], at) + 1]

(* nextEdgeCycle: the next bit boundary of the first frame that is not over.   *)
NextEdge(queue, at) ==
    LET open == SelectSeq(queue, LAMBDA f : EndOf(f) > at)
    IN  IF open = <<>> THEN {}
        ELSE {IF at < Head(open).start THEN Head(open).start
              ELSE Head(open).start + (Bit(Head(open), at) + 1) * BitCycles}

-------------------------------------------------------------------------------
(* The channel's ring.                                                         *)

EmptyRing == [slots |-> [i \in 0 .. Capacity - 1 |-> <<0, FALSE>>], head |-> 0, count |-> 0]

Push(r, sample) ==
    [slots |-> [r.slots EXCEPT ![r.head] = sample],
     head |-> (r.head + 1) % Capacity,
     count |-> IF r.count < Capacity THEN r.count + 1 ELSE r.count]

SampleAt(r, i) == r.slots[(r.head - r.count + i + 2 * Capacity) % Capacity]
LastOf(r) == r.slots[(r.head - 1 + Capacity) % Capacity][2]

(* window, over the whole of time and undecimated, oldest sample first.        *)
Window(r) == [i \in 1 .. r.count |-> SampleAt(r, i - 1)]

-------------------------------------------------------------------------------
(* decodeUart.                                                                 *)

LevelIn(w, at) ==
    LET before == {i \in DOMAIN w : w[i][1] <= at}
    IN  IF w = <<>> THEN TRUE
        ELSE IF before = {} THEN w[1][2]
        ELSE w[CHOOSE i \in before : \A j \in before : j <= i][2]

FallsAfter(w, from) ==
    {i \in DOMAIN w : /\ w[i][1] > from /\ ~w[i][2]
                      /\ IF i > 1 /\ w[i - 1][1] > from THEN w[i - 1][2] ELSE LevelIn(w, from)}

RECURSIVE Decoded(_, _)
Decoded(w, cursor) ==
    LET falls == FallsAfter(w, cursor)
        start == w[CHOOSE i \in falls : \A j \in falls : i <= j][1]
        over  == start + BitsIn * BitCycles
        Centre(k) == LevelIn(w, start + k * BitCycles + BitCycles \div 2)
    IN  IF w = <<>> \/ falls = {} THEN <<>>
        ELSE IF cursor >= Last(w)[1] \/ over > Last(w)[1] THEN <<>>
        ELSE IF Centre(0) THEN Decoded(w, start + BitCycles \div 2)
        ELSE <<[byte |-> [k \in 1 .. DataBits |-> Centre(k)],
                framingError |-> ~Centre(DataBits + 1)]>>
             \o Decoded(w, over - BitCycles \div 2)

Decode(w) == IF w = <<>> THEN <<>> ELSE Decoded(w, w[1][1])

-------------------------------------------------------------------------------
(* The board.                                                                  *)

(* solveAnalog and record: the level of D1 is sampled; a digital channel keeps *)
(* only what differs from its last sample.                                     *)
Sampled(now, on, queue) ==
    LET level == on /\ LevelAt(queue, now)
    IN  IF ring.count > 0 /\ LastOf(ring) = level
        THEN UNCHANGED <<ring, pushed>>
        ELSE ring' = Push(ring, <<now, level>>) /\ pushed' = Append(pushed, <<now, level>>)

SerialInit ==
    /\ cycle = 0 /\ target = 0 /\ enabled = FALSE
    /\ frames = <<>> /\ busyUntil = 0
    /\ ring = EmptyRing /\ pushed = <<>> /\ sent = <<>>

(* runFor: settle, then run to the target.                                     *)
RunFor ==
    /\ cycle >= target /\ cycle < MaxCycles
    /\ target' = cycle + 2 * Interval
    /\ Sampled(cycle, enabled, frames)
    /\ UNCHANGED <<cycle, enabled, frames, busyUntil, sent>>

(* The next point at which the board solves, if nothing happens before.        *)
LeastOf(S) == CHOOSE n \in S : \A k \in S : n <= k
Checkpoint ==
    LeastOf({cycle + Interval, target} \cup (IF enabled THEN NextEdge(frames, cycle) ELSE {}))

(* One pass: whole instructions are executed up to the checkpoint, the last of *)
(* which may end after it.                                                     *)
Pass ==
    /\ cycle < target
    /\ \E late \in {0, MaxInstruction - 1} :
         /\ cycle' = Checkpoint + late
         /\ Sampled(cycle', enabled, frames)
    /\ UNCHANGED <<target, enabled, frames, busyUntil, sent>>

(* The sketch does something to the USART before the checkpoint: the pass ends *)
(* with that instruction.                                                      *)
Moments == {cycle, Checkpoint - 1}
Instruction(at) == cycle' = at + 2

(* Serial.begin.                                                               *)
Begin ==
    /\ ~enabled /\ cycle < target
    /\ enabled' = TRUE
    /\ \E at \in Moments : Instruction(at)
    /\ Sampled(cycle', TRUE, frames)
    /\ UNCHANGED <<target, frames, busyUntil, sent>>

(* A write to UDR: a frame begins now, or when the one before it is out.       *)
Transmit ==
    /\ enabled /\ cycle < target /\ Len(sent) < MaxBytes
    /\ \E at \in Moments, byte \in Bytes :
         LET start == IF at >= busyUntil THEN at ELSE busyUntil
         IN  /\ Instruction(at)
             /\ frames' = Pruned(Append(frames, [start |-> start, bits |-> FrameBits(byte)]), at)
             /\ busyUntil' = start + BitsIn * BitCycles
             /\ sent' = Append(sent, byte)
    /\ Sampled(cycle', enabled, frames')
    /\ UNCHANGED <<target, enabled>>

SerialNext == RunFor \/ Pass \/ Begin \/ Transmit

SerialSpec == SerialInit /\ [][SerialNext]_serialVars

-------------------------------------------------------------------------------
(* What is read off the wire is what the sketch sent: nothing lost, invented   *)
(* or garbled, however instructions, checkpoints and back-to-back frames fall, *)
(* as long as the ring has not had to forget the beginning; and what it does   *)
(* forget is the oldest.  The last byte is read only when the line moves       *)
(* again: the channel keeps edges, and a frame that ends after the last of     *)
(* them is taken for unfinished.                                               *)
DecodedIsSent ==
    LET w == Window(ring)
        decoded == Decode(w)
    IN  IF Len(pushed) > Capacity
        THEN w = SubSeq(pushed, Len(pushed) - Capacity + 1, Len(pushed))
        ELSE /\ \A i \in DOMAIN decoded : ~decoded[i].framingError
             /\ IsPrefix([i \in DOMAIN decoded |-> decoded[i].byte], sent)
             /\ cycle > busyUntil + Interval + MaxInstruction + BitCycles =>
                  Len(decoded) >= Len(sent) - 1
===============================================================================
