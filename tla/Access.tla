------------------------------- MODULE Access -------------------------------
(***************************************************************************)
(* The seat and queue controller, packages/accounts/src/access.ts.         *)
(*                                                                         *)
(* A fixed number of people may use the simulator at once; everybody else  *)
(* waits in line.  All state is one table, `access`, with a row per user,  *)
(* and one sequence, `access_queue_seq`.  Every public operation is one    *)
(* transaction that holds an advisory lock, so operations are atomic and   *)
(* totally ordered; there is no background timer, and each operation first *)
(* reconciles the whole table with the transaction's idea of "now".        *)
(*                                                                         *)
(* "now" is Postgres' now(), the instant the transaction BEGAN.  A         *)
(* transaction begins before it gets the lock, so an operation may run     *)
(* with a clock that is older than the one an earlier operation used, by   *)
(* at most the time it may wait for the lock.  TxTimes models that.        *)
(***************************************************************************)
EXTENDS Integers, FiniteSets

CONSTANTS
    Users,        \* the accounts
    Capacity,     \* how many seats there are
    SessionMs,    \* how long a seat lasts
    IdleMs,       \* how long a seat may be held without being used
    GraceMs,      \* how long a seat or a place survives with no heartbeat
    LockWaitMs,   \* how long a transaction may wait for the lock
    MaxTime,      \* bound: the last instant of the clock
    MaxSeq        \* bound: the last number drawn from access_queue_seq

ASSUME AccessAssumption ==
    /\ IsFiniteSet(Users)
    /\ Capacity \in Nat
    /\ SessionMs \in Nat \ {0}
    /\ IdleMs \in Nat
    /\ GraceMs \in Nat
    /\ LockWaitMs \in Nat
    /\ MaxTime \in Nat
    /\ MaxSeq \in Nat

VARIABLES
    db,      \* the table and its sequence: [row: [Users -> Row], nextSeq: Nat]
    clock    \* the database clock

vars == <<db, clock>>

(***************************************************************************)
(* SQL NULL in the numeric columns.  No live value is 0: the sequence      *)
(* starts at 1 and a seat ends after it started; and a carry of 0 means    *)
(* the same as no carry, COALESCE(NULLIF(carry_ms, 0), session).           *)
(***************************************************************************)
NULL == 0

Row == [state          : {"idle", "queued", "active"},
        queue_seq      : Nat,
        started_at     : Nat,
        expires_at     : Nat,
        last_seen_at   : Nat,
        last_active_at : Nat,
        carry_ms       : Nat,
        last_reason    : {"none", "idle", "expired"}]

Db == [row : [Users -> Row], nextSeq : Nat \ {0}]

\* An account that never asked has no row; read() reports that as idle.
NoRow == [state |-> "idle", queue_seq |-> NULL, started_at |-> NULL, expires_at |-> NULL,
          last_seen_at |-> NULL, last_active_at |-> NULL, carry_ms |-> NULL,
          last_reason |-> "none"]

Seated(s)  == {u \in Users : s.row[u].state = "active"}
Waiting(s) == {u \in Users : s.row[u].state = "queued"}

-----------------------------------------------------------------------------
(* reconcile(): four statements, in this order.                            *)

\* The hour is up, or nothing has been heard for longer than the grace.
SeatIsOver(r, now) ==
    /\ r.state = "active"
    /\ \/ r.expires_at <= now
       \/ r.last_seen_at < now - GraceMs

\* The columns a finished seat leaves behind.
Finished(r) == [r EXCEPT !.state = "idle", !.started_at = NULL, !.expires_at = NULL,
                         !.queue_seq = NULL, !.carry_ms = NULL, !.last_reason = "expired"]

ExpireSeats(s, now) ==
    [s EXCEPT !.row = [u \in Users |-> IF SeatIsOver(s.row[u], now)
                                       THEN Finished(s.row[u]) ELSE s.row[u]]]

SeatIsUnused(r, now) ==
    /\ r.state = "active"
    /\ r.last_active_at < now - IdleMs
    /\ r.expires_at > now

\* To the back of the line under number n, with the rest of the hour.
Bumped(r, n, now) ==
    [r EXCEPT !.state = "queued", !.queue_seq = n, !.started_at = NULL,
              !.carry_ms = r.expires_at - now, !.expires_at = NULL,
              !.last_reason = "idle", !.last_active_at = now]

\* One UPDATE bumps every unused seat; SQL leaves open the order in which the
\* rows draw their numbers, so every order is a possible result.
BumpUnused(s, now) ==
    LET out   == {u \in Users : SeatIsUnused(s.row[u], now)}
        drawn == s.nextSeq .. (s.nextSeq + Cardinality(out) - 1)
        draws == {f \in [out -> drawn] : \A u, v \in out : f[u] = f[v] => u = v}
    IN  {[row     |-> [u \in Users |-> IF u \in out THEN Bumped(s.row[u], f[u], now)
                                                    ELSE s.row[u]],
          nextSeq |-> s.nextSeq + Cardinality(out)] : f \in draws}

HasStoppedWaiting(r, now) == r.state = "queued" /\ r.last_seen_at < now - GraceMs

\* carry_ms and last_reason stay behind on a row that leaves the line this way.
DropAbsent(s, now) ==
    [s EXCEPT !.row = [u \in Users |->
        IF HasStoppedWaiting(s.row[u], now)
        THEN [s.row[u] EXCEPT !.state = "idle", !.queue_seq = NULL]
        ELSE s.row[u]]]

\* Mutant: the seats already taken are not counted.
FreeSeatsUncounted(s) == Capacity

FreeSeats(s) ==
    LET taken == Cardinality(Seated(s))
    IN  IF taken <= Capacity THEN Capacity - taken ELSE 0

\* Mutant: ORDER BY queue_seq DESC.
LastInLine(s, n) ==
    {front \in SUBSET Waiting(s) :
        /\ \A u \in front, v \in Waiting(s) \ front :
              s.row[u].queue_seq > s.row[v].queue_seq
        /\ Cardinality(front) <= n
        /\ front # Waiting(s) => Cardinality(front) = n}

\* ORDER BY queue_seq LIMIT n: the n first in line, or everybody if fewer wait.
FirstInLine(s, n) ==
    {front \in SUBSET Waiting(s) :
        /\ \A u \in front, v \in Waiting(s) \ front :
              s.row[u].queue_seq < s.row[v].queue_seq
        /\ Cardinality(front) <= n
        /\ front # Waiting(s) => Cardinality(front) = n}

\* Mutant: every admission starts a full hour.
AdmittedForAnHour(r, now) ==
    [r EXCEPT !.state = "active", !.queue_seq = NULL, !.started_at = now,
              !.expires_at = now + SessionMs,
              !.carry_ms = NULL, !.last_seen_at = now, !.last_active_at = now]

\* Mutant: the stamps of the time spent in line are kept.
AdmittedUnstamped(r, now) ==
    [r EXCEPT !.state = "active", !.queue_seq = NULL, !.started_at = now,
              !.expires_at = now + (IF r.carry_ms = NULL THEN SessionMs ELSE r.carry_ms),
              !.carry_ms = NULL]

Admitted(r, now) ==
    [r EXCEPT !.state = "active", !.queue_seq = NULL, !.started_at = now,
              !.expires_at = now + (IF r.carry_ms = NULL THEN SessionMs ELSE r.carry_ms),
              !.carry_ms = NULL, !.last_seen_at = now, !.last_active_at = now]

AdmitWaiting(s, now) ==
    {[s EXCEPT !.row = [u \in Users |-> IF u \in front THEN Admitted(s.row[u], now)
                                                       ELSE s.row[u]]] :
        front \in FirstInLine(s, FreeSeats(s))}

\* Mutant: admission before the idle bump, "against a stale count".
ReconciledTooSoon(s, now) ==
    UNION {BumpUnused(DropAbsent(a, now), now) : a \in AdmitWaiting(ExpireSeats(s, now), now)}

\* Every table reconcile() may leave behind.
Reconciled(s, now) ==
    UNION {AdmitWaiting(DropAbsent(b, now), now) : b \in BumpUnused(ExpireSeats(s, now), now)}

-----------------------------------------------------------------------------
(* What a caller is told: read().                                          *)

Position(s, u) ==
    IF s.row[u].state = "queued"
    THEN Cardinality({v \in Waiting(s) : s.row[v].queue_seq < s.row[u].queue_seq}) + 1
    ELSE NULL

-----------------------------------------------------------------------------
(* The statements the operations add between their reconcile() calls.      *)

\* Mutant: the number is read (currval) and not drawn.
EnqueuedUndrawn(s, u, now) ==
    [row     |-> [s.row EXCEPT ![u] =
                    [state |-> "queued", queue_seq |-> s.nextSeq, started_at |-> NULL,
                     expires_at |-> NULL, last_seen_at |-> now, last_active_at |-> now,
                     carry_ms |-> NULL, last_reason |-> "none"]],
     nextSeq |-> s.nextSeq]

Enqueued(s, u, now) ==
    [row     |-> [s.row EXCEPT ![u] =
                    [state |-> "queued", queue_seq |-> s.nextSeq, started_at |-> NULL,
                     expires_at |-> NULL, last_seen_at |-> now, last_active_at |-> now,
                     carry_ms |-> NULL, last_reason |-> "none"]],
     nextSeq |-> s.nextSeq + 1]

Beaten(s, u, present, now) ==
    IF s.row[u].state = "idle" THEN s
    ELSE [s EXCEPT !.row[u].last_seen_at = now,
                   !.row[u].last_active_at = IF present THEN now ELSE @]

GivenUp(s, u) ==
    CASE s.row[u].state = "active" -> [s EXCEPT !.row[u] = Finished(@)]
      [] s.row[u].state = "queued" -> [s EXCEPT !.row[u].state = "idle",
                                                !.row[u].queue_seq = NULL,
                                                !.row[u].carry_ms = NULL]
      [] OTHER -> s

-----------------------------------------------------------------------------
(* The operations: one transaction each, begun at `now`.                   *)

\* The instants at which a transaction that runs at this moment may have begun.
TxTimes == {t \in 0..clock : clock - t <= LockWaitMs}

Commit(s) ==
    /\ s.nextSeq <= MaxSeq
    /\ db' = s
    /\ UNCHANGED clock

\* status() and isActive(), for whichever user; both are a reconcile and a read.
Status(now) == \E s \in Reconciled(db, now) : Commit(s)

\* Mutant: asking again while waiting joins again.
RequestAgain(u, now) ==
    \E s \in Reconciled(db, now) :
        \/ /\ s.row[u].state = "active"
           /\ Commit(s)
        \/ /\ s.row[u].state # "active"
           /\ \E t \in Reconciled(Enqueued(s, u, now), now) : Commit(t)

Request(u, now) ==
    \E s \in Reconciled(db, now) :
        \/ /\ s.row[u].state # "idle"
           /\ Commit(s)
        \/ /\ s.row[u].state = "idle"
           /\ \E t \in Reconciled(Enqueued(s, u, now), now) : Commit(t)

Heartbeat(u, present, now) ==
    \E s \in Reconciled(db, now) :
        \E t \in Reconciled(Beaten(s, u, present, now), now) : Commit(t)

\* Mutant: the freed seat waits for the next operation.
ReleaseOnly(u, now) == \E s \in Reconciled(db, now) : Commit(GivenUp(s, u))

Release(u, now) ==
    \E s \in Reconciled(db, now) :
        \E t \in Reconciled(GivenUp(s, u), now) : Commit(t)

Tick ==
    /\ clock < MaxTime
    /\ clock' = clock + 1
    /\ UNCHANGED db

-----------------------------------------------------------------------------
Init ==
    /\ db = [row |-> [u \in Users |-> NoRow], nextSeq |-> 1]
    /\ clock = 0

Next ==
    \/ Tick
    \/ \E now \in TxTimes :
        \/ Status(now)
        \/ \E u \in Users :
            \/ Request(u, now)
            \/ \E present \in BOOLEAN : Heartbeat(u, present, now)
            \/ Release(u, now)

Spec == Init /\ [][Next]_vars

-----------------------------------------------------------------------------
(* Properties.                                                             *)

\* The table and the clock have the shape of the schema.
TypeOK ==
    /\ db \in Db
    /\ clock \in Nat

\* "Ten means ten no matter how many processes are serving": no interleaving
\* of operations seats more people than there are seats.
CapacityRespected == Cardinality(Seated(db)) <= Capacity

\* A seat is never left empty while someone is in line: whatever an operation
\* freed, it also filled.
NoSeatLeftEmpty == Waiting(db) # {} => Cardinality(Seated(db)) = Capacity

\* queue_seq orders the line strictly: two people are never at the same place,
\* and a number not yet drawn is behind everybody.
LineOrdered(s) ==
    /\ \A u \in Waiting(s) : s.row[u].queue_seq \in 1..(s.nextSeq - 1)
    /\ \A u, v \in Waiting(s) : s.row[u].queue_seq = s.row[v].queue_seq => u = v

LineIsOrdered == LineOrdered(db)

\* v waits through the step under the number it had.
KeepsPlace(v) ==
    /\ v \in Waiting(db) \cap Waiting(db)'
    /\ db'.row[v].queue_seq = db.row[v].queue_seq

\* u holds a seat in the new table that it was given by this step.
JustAdmitted(u) ==
    /\ db'.row[u].state = "active"
    /\ \/ db.row[u].state # "active"
       \/ db.row[u].started_at # db'.row[u].started_at

\* Seats go to whoever has waited longest: whoever is admitted while somebody
\* keeps a place in line was in line before, ahead of them.  Coming back from
\* an idle bump, or releasing and asking again, jumps nobody.
FirstComeFirstSeated ==
    [][\A u, v \in Users : JustAdmitted(u) /\ KeepsPlace(v) =>
          /\ u \in Waiting(db)
          /\ db.row[u].queue_seq < db.row[v].queue_seq]_vars

\* The line as the queue numbers order it.
Ahead(s) == {p \in Waiting(s) \X Waiting(s) : s.row[p[1]].queue_seq < s.row[p[2]].queue_seq}

Promise == INSTANCE SeatService WITH People <- Users, Seats <- Capacity, seated <- Seated(db),
                                     waiting <- Waiting(db), ahead <- Ahead(db)

\* access.ts keeps the promise of SeatService: every operation, with its two
\* reconciles and four statements each, is one turn of it or leaves it unchanged.
\* Seats are filled in one line's order and nobody enters, leaves or moves in it
\* in any other way.
ImplementsSeatService == Promise!SSpec
=============================================================================
