---------------------------- MODULE AccessProofs ----------------------------
(***************************************************************************)
(* Proofs about the seat controller, for any number of users and seats and *)
(* any lengths of session, idleness, grace and lock wait.                  *)
(***************************************************************************)
EXTENDS AccessHistory, FiniteSetTheorems, TLAPS

LEMMA ExpireType ==
    ASSUME NEW s \in Db, NEW now \in Nat
    PROVE  ExpireSeats(s, now) \in Db
<1>1. ASSUME NEW u \in Users
      PROVE  Finished(s.row[u]) \in Row
  BY DEF Db, Row, Finished, NULL
<1> QED
  BY <1>1 DEF Db, ExpireSeats

\* Which rows a bump rewrites, and the numbers they draw.
LEMMA BumpRows ==
    ASSUME NEW s \in Db, NEW now \in Nat, NEW b \in BumpUnused(s, now)
    PROVE  /\ b.nextSeq \in Nat /\ b.nextSeq >= s.nextSeq
           /\ \A u \in Users :
                 IF SeatIsUnused(s.row[u], now)
                 THEN /\ b.row[u] \in Row
                      /\ b.row[u].state = "queued"
                      /\ b.row[u].queue_seq \in s.nextSeq..(b.nextSeq - 1)
                 ELSE b.row[u] = s.row[u]
           /\ \A u, v \in Users :
                 /\ SeatIsUnused(s.row[u], now) /\ SeatIsUnused(s.row[v], now)
                 /\ b.row[u].queue_seq = b.row[v].queue_seq
                 => u = v
<1> DEFINE out   == {u \in Users : SeatIsUnused(s.row[u], now)}
           drawn == s.nextSeq .. (s.nextSeq + Cardinality(out) - 1)
<1>1. Cardinality(out) \in Nat
  BY FS_Subset, FS_CardinalityType, AccessAssumption
<1>2. PICK f \in [out -> drawn] :
        /\ \A u, v \in out : f[u] = f[v] => u = v
        /\ b = [row     |-> [u \in Users |-> IF u \in out THEN Bumped(s.row[u], f[u], now)
                                                          ELSE s.row[u]],
                nextSeq |-> s.nextSeq + Cardinality(out)]
  BY DEF BumpUnused
<1>3. /\ b.nextSeq = s.nextSeq + Cardinality(out)
      /\ s.nextSeq \in Nat /\ b.nextSeq \in Nat
  BY <1>1, <1>2 DEF Db
<1>4. ASSUME NEW u \in out
      PROVE  /\ b.row[u] \in Row
             /\ b.row[u].state = "queued"
             /\ b.row[u].queue_seq = f[u]
             /\ f[u] \in s.nextSeq..(b.nextSeq - 1)
  <2>1. s.row[u] \in Row /\ u \in Users
    BY DEF Db
  <2>2. f[u] \in drawn
    OBVIOUS
  <2>3. f[u] \in s.nextSeq..(b.nextSeq - 1) /\ f[u] \in Nat
    BY <1>1, <1>3, <2>2
  <2>4. s.row[u].expires_at - now \in Nat
    BY <2>1 DEF SeatIsUnused, Row
  <2>5. b.row[u] = Bumped(s.row[u], f[u], now)
    BY <1>2, <2>1
  <2>6. Bumped(s.row[u], f[u], now) \in Row
    BY <2>1, <2>3, <2>4 DEF Bumped, Row, NULL
  <2>7. Bumped(s.row[u], f[u], now).state = "queued"
    BY <2>1 DEF Bumped, Row
  <2>8. Bumped(s.row[u], f[u], now).queue_seq = f[u]
    BY <2>1 DEF Bumped, Row
  <2> QED
    BY <2>3, <2>5, <2>6, <2>7, <2>8
<1>5. \A u \in Users \ out : b.row[u] = s.row[u]
  BY <1>2
<1>6. \A u, v \in out : b.row[u].queue_seq = b.row[v].queue_seq => u = v
  BY <1>2, <1>4
<1>7. \A u \in Users : SeatIsUnused(s.row[u], now) <=> u \in out
  OBVIOUS
<1> HIDE DEF out, drawn
<1>8. b.nextSeq >= s.nextSeq
  BY <1>1, <1>3
<1> QED
  BY <1>3, <1>4, <1>5, <1>6, <1>7, <1>8

LEMMA BumpType ==
    ASSUME NEW s \in Db, NEW now \in Nat, NEW b \in BumpUnused(s, now)
    PROVE  b \in Db
<1>1. \A u \in Users : b.row[u] \in Row
  BY BumpRows DEF Db
<1>2. b.nextSeq \in Nat \ {0}
  BY BumpRows DEF Db
<1> DEFINE out == {u \in Users : SeatIsUnused(s.row[u], now)}
<1>3. PICK f : b = [row     |-> [u \in Users |-> IF u \in out THEN Bumped(s.row[u], f[u], now)
                                                              ELSE s.row[u]],
                    nextSeq |-> s.nextSeq + Cardinality(out)]
  BY DEF BumpUnused
<1>4. b.row \in [Users -> Row]
  BY <1>1, <1>3
<1> QED
  BY <1>2, <1>3, <1>4 DEF Db

LEMMA DropType ==
    ASSUME NEW s \in Db, NEW now \in Nat
    PROVE  DropAbsent(s, now) \in Db
<1>1. ASSUME NEW u \in Users
      PROVE  [s.row[u] EXCEPT !.state = "idle", !.queue_seq = NULL] \in Row
  BY DEF Db, Row, NULL
<1> QED
  BY <1>1 DEF Db, DropAbsent

LEMMA AdmitType ==
    ASSUME NEW s \in Db, NEW now \in Nat, NEW t \in AdmitWaiting(s, now)
    PROVE  t \in Db
<1>1. PICK front \in SUBSET Waiting(s) :
        t = [s EXCEPT !.row = [u \in Users |-> IF u \in front THEN Admitted(s.row[u], now)
                                                              ELSE s.row[u]]]
  BY DEF AdmitWaiting, FirstInLine
<1>2. ASSUME NEW u \in Users
      PROVE  Admitted(s.row[u], now) \in Row
  <2>1. s.row[u] \in Row
    BY DEF Db
  <2>2. now + (IF s.row[u].carry_ms = NULL THEN SessionMs ELSE s.row[u].carry_ms) \in Nat
    BY <2>1, AccessAssumption DEF Row
  <2> QED
    BY <2>1, <2>2 DEF Admitted, Row, NULL
<1> QED
  BY <1>1, <1>2 DEF Db

LEMMA ReconciledType ==
    ASSUME NEW s \in Db, NEW now \in Nat, NEW t \in Reconciled(s, now)
    PROVE  t \in Db
<1>1. PICK b \in BumpUnused(ExpireSeats(s, now), now) :
        t \in AdmitWaiting(DropAbsent(b, now), now)
  BY DEF Reconciled
<1>2. DropAbsent(b, now) \in Db
  BY ExpireType, BumpType, DropType
<1> QED
  BY <1>1, <1>2, AdmitType

LEMMA EnqueuedType ==
    ASSUME NEW s \in Db, NEW u \in Users, NEW now \in Nat
    PROVE  Enqueued(s, u, now) \in Db
BY DEF Db, Row, Enqueued, NULL

LEMMA BeatenSays ==
    ASSUME NEW s \in Db, NEW u \in Users, NEW present \in BOOLEAN, NEW now \in Nat
    PROVE  LET r == [s.row[u] EXCEPT !.last_seen_at = now, !.last_active_at = IF present THEN now ELSE @]
           IN  Beaten(s, u, present, now) \in {s, [s EXCEPT !.row = [@ EXCEPT ![u] = r]]}
<1> DEFINE q == [s.row[u] EXCEPT !.last_seen_at = now, !.last_active_at = now]
           k == [s.row[u] EXCEPT !.last_seen_at = now, !.last_active_at = s.row[u].last_active_at]
           r == [s.row[u] EXCEPT !.last_seen_at = now, !.last_active_at = IF present THEN now ELSE @]
<1>1. s.row \in [Users -> Row] /\ s.row[u] \in Row
  BY DEF Db
<1>2. CASE s.row[u].state = "idle"
  BY <1>2 DEF Beaten
<1>3. CASE s.row[u].state # "idle" /\ present
  <2>1. Beaten(s, u, present, now) = [s EXCEPT !.row[u].last_seen_at = now, !.row[u].last_active_at = now]
    BY <1>3 DEF Beaten
  <2>2. @ = [s EXCEPT !.row = [@ EXCEPT ![u] = q]]
    BY <1>1 DEF Db, Row
  <2>3. q = r
    BY <1>3
  <2> QED
    BY <2>1, <2>2, <2>3, Zenon
<1>4. CASE s.row[u].state # "idle" /\ ~present
  <2>1. Beaten(s, u, present, now)
        = [s EXCEPT !.row[u].last_seen_at = now, !.row[u].last_active_at = s.row[u].last_active_at]
    BY <1>4 DEF Beaten
  <2>2. @ = [s EXCEPT !.row = [@ EXCEPT ![u] = k]]
    BY <1>1 DEF Db, Row
  <2>3. k = r
    BY <1>4
  <2> QED
    BY <2>1, <2>2, <2>3, Zenon
<1> QED
  BY <1>2, <1>3, <1>4

LEMMA BeatenType ==
    ASSUME NEW s \in Db, NEW u \in Users, NEW present \in BOOLEAN, NEW now \in Nat
    PROVE  Beaten(s, u, present, now) \in Db
<1> DEFINE r == [s.row[u] EXCEPT !.last_seen_at = now,
                                 !.last_active_at = IF present THEN now ELSE @]
<1>1. r \in Row
  BY DEF Db, Row
<1>2. Beaten(s, u, present, now) \in {s, [s EXCEPT !.row = [@ EXCEPT ![u] = r]]}
  BY BeatenSays
<1> QED
  BY <1>1, <1>2 DEF Db

LEMMA GivenUpSays ==
    ASSUME NEW s \in Db, NEW u \in Users
    PROVE  LET r == [s.row[u] EXCEPT !.state = "idle", !.queue_seq = NULL, !.carry_ms = NULL]
           IN  GivenUp(s, u) \in {s, [s EXCEPT !.row = [@ EXCEPT ![u] = Finished(s.row[u])]],
                                     [s EXCEPT !.row = [@ EXCEPT ![u] = r]]}
<1> DEFINE r == [s.row[u] EXCEPT !.state = "idle", !.queue_seq = NULL, !.carry_ms = NULL]
<1>1. s.row \in [Users -> Row] /\ s.row[u] \in Row
  BY DEF Db
<1>2. CASE s.row[u].state = "active"
  BY <1>2 DEF GivenUp
<1>3. CASE s.row[u].state = "queued"
  <2>1. GivenUp(s, u) = [s EXCEPT !.row[u].state = "idle", !.row[u].queue_seq = NULL, !.row[u].carry_ms = NULL]
    BY <1>3 DEF GivenUp
  <2>2. @ = [s EXCEPT !.row = [@ EXCEPT ![u] = r]]
    BY <1>1 DEF Db, Row
  <2> QED
    BY <2>1, <2>2
<1>4. CASE s.row[u].state \notin {"active", "queued"}
  BY <1>4 DEF GivenUp
<1> QED
  BY <1>2, <1>3, <1>4

\* Who gives up is idle, and nobody else is touched.
LEMMA GivenUpLeaves ==
    ASSUME NEW s \in Db, NEW u \in Users, NEW m, m = GivenUp(s, u)
    PROVE  m.nextSeq = s.nextSeq /\ \A v \in Users : m.row[v].state = "idle" \/ m.row[v] = s.row[v]
<1> DEFINE r == [s.row[u] EXCEPT !.state = "idle", !.queue_seq = NULL, !.carry_ms = NULL]
           f == Finished(s.row[u])
<1>1. s.row \in [Users -> Row] /\ f.state = "idle" /\ r.state = "idle"
      /\ s = [row |-> s.row, nextSeq |-> s.nextSeq]
  BY DEF Db, Row, Finished
<1>2. m \in {s, [s EXCEPT !.row = [@ EXCEPT ![u] = f]], [s EXCEPT !.row = [@ EXCEPT ![u] = r]]}
  BY GivenUpSays
<1> HIDE DEF r, f
<1>3. ASSUME NEW x, x.state = "idle", m = [s EXCEPT !.row = [@ EXCEPT ![u] = x]]
      PROVE  m.nextSeq = s.nextSeq /\ \A v \in Users : m.row[v].state = "idle" \/ m.row[v] = s.row[v]
  BY <1>1, <1>3
<1> QED
  BY <1>1, <1>2, <1>3

LEMMA GivenUpType ==
    ASSUME NEW s \in Db, NEW u \in Users
    PROVE  GivenUp(s, u) \in Db
<1> DEFINE r == [s.row[u] EXCEPT !.state = "idle", !.queue_seq = NULL, !.carry_ms = NULL]
<1>1. Finished(s.row[u]) \in Row /\ r \in Row
  BY DEF Db, Row, Finished, NULL
<1>2. GivenUp(s, u) \in {s, [s EXCEPT !.row = [@ EXCEPT ![u] = Finished(s.row[u])]],
                            [s EXCEPT !.row = [@ EXCEPT ![u] = r]]}
  BY GivenUpSays
<1> QED
  BY <1>1, <1>2 DEF Db

-----------------------------------------------------------------------------
(* Every operation is a chain of tables, each typed and each the result of *)
(* one reconcile() or of one statement between two of them.                *)

\* The statement an operation runs between its two reconciles.
Between(s, m) ==
    \E u \in Users, now \in Nat :
        \/ s.row[u].state = "idle" /\ m = Enqueued(s, u, now)
        \/ \E present \in BOOLEAN : m = Beaten(s, u, present, now)
        \/ m = GivenUp(s, u)

\* db' is what one reconcile made of db, or two with a statement between them.
OperationStep ==
    \E now \in Nat : \E s \in Reconciled(db, now) :
        \/ db' = s
        \/ \E m \in Db : Between(s, m) /\ db' \in Reconciled(m, now)

LEMMA NextIsOperation ==
    ASSUME TypeOK, [Next]_vars
    PROVE  /\ clock' \in Nat
           /\ UNCHANGED db \/ OperationStep
<1>1. CASE Tick
  BY <1>1 DEF Tick, TypeOK
<1>2. CASE UNCHANGED vars
  BY <1>2 DEF vars, TypeOK
<1>3. ASSUME NEW now \in TxTimes, Status(now)
      PROVE  clock' \in Nat /\ OperationStep
  <2>1. now \in Nat
    BY DEF TxTimes, TypeOK
  <2> QED
    BY <1>3, <2>1 DEF Status, Commit, OperationStep, TypeOK
<1>4. ASSUME NEW now \in TxTimes, NEW u \in Users, Request(u, now)
      PROVE  clock' \in Nat /\ OperationStep
  <2>1. now \in Nat
    BY DEF TxTimes, TypeOK
  <2>2. PICK s \in Reconciled(db, now) :
          \/ Commit(s)
          \/ s.row[u].state = "idle" /\ \E t \in Reconciled(Enqueued(s, u, now), now) : Commit(t)
    BY <1>4 DEF Request
  <2>3. s \in Db
    BY <2>1, ReconciledType DEF TypeOK
  <2>4. Enqueued(s, u, now) \in Db
    BY <2>1, <2>3, EnqueuedType
  <2>5. CASE Commit(s)
    BY <2>1, <2>5 DEF Commit, OperationStep, TypeOK
  <2>6. CASE s.row[u].state = "idle" /\ \E t \in Reconciled(Enqueued(s, u, now), now) : Commit(t)
    <3>1. Between(s, Enqueued(s, u, now))
      BY <2>1, <2>6 DEF Between
    <3> QED
      BY <2>1, <2>4, <2>6, <3>1 DEF Commit, OperationStep, TypeOK
  <2> QED
    BY <2>2, <2>5, <2>6
<1>5. ASSUME NEW now \in TxTimes, NEW u \in Users, NEW present \in BOOLEAN,
             Heartbeat(u, present, now)
      PROVE  clock' \in Nat /\ OperationStep
  <2>1. now \in Nat
    BY DEF TxTimes, TypeOK
  <2>2. PICK s \in Reconciled(db, now) :
          \E t \in Reconciled(Beaten(s, u, present, now), now) : Commit(t)
    BY <1>5 DEF Heartbeat
  <2>3. s \in Db
    BY <2>1, ReconciledType DEF TypeOK
  <2>4. Beaten(s, u, present, now) \in Db
    BY <2>1, <2>3, BeatenType
  <2>5. Between(s, Beaten(s, u, present, now))
    BY <2>1 DEF Between
  <2> QED
    BY <2>1, <2>2, <2>4, <2>5 DEF Commit, OperationStep, TypeOK
<1>6. ASSUME NEW now \in TxTimes, NEW u \in Users, Release(u, now)
      PROVE  clock' \in Nat /\ OperationStep
  <2>1. now \in Nat
    BY DEF TxTimes, TypeOK
  <2>2. PICK s \in Reconciled(db, now) : \E t \in Reconciled(GivenUp(s, u), now) : Commit(t)
    BY <1>6 DEF Release
  <2>3. s \in Db
    BY <2>1, ReconciledType DEF TypeOK
  <2>4. GivenUp(s, u) \in Db
    BY <2>3, GivenUpType
  <2>5. Between(s, GivenUp(s, u))
    BY <2>1 DEF Between
  <2> QED
    BY <2>1, <2>2, <2>4, <2>5 DEF Commit, OperationStep, TypeOK
<1> QED
  BY <1>1, <1>2, <1>3, <1>4, <1>5, <1>6 DEF Next

\* Type correctness: the table keeps the shape of the schema through every
\* operation (no bump computes a negative carry, no admission a missing expiry).
THEOREM TypeCorrect == Spec => []TypeOK
<1>1. Init => TypeOK
  BY DEF Init, TypeOK, Db, Row, NoRow, NULL
<1>2. TypeOK /\ [Next]_vars => TypeOK'
  <2> SUFFICES ASSUME TypeOK, [Next]_vars
               PROVE  TypeOK'
    OBVIOUS
  <2>1. CASE UNCHANGED db
    BY <2>1, NextIsOperation DEF TypeOK
  <2>2. CASE OperationStep
    <3>1. db' \in Db
      BY <2>2, ReconciledType DEF OperationStep, TypeOK
    <3> QED
      BY <3>1, NextIsOperation DEF TypeOK
  <2> QED
    BY <2>1, <2>2, NextIsOperation
<1> QED
  BY <1>1, <1>2, PTL DEF Spec

-----------------------------------------------------------------------------
(* Seats.                                                                  *)

LEMMA FiniteGroups ==
    ASSUME NEW s
    PROVE  /\ IsFiniteSet(Seated(s)) /\ Cardinality(Seated(s)) \in Nat
           /\ IsFiniteSet(Waiting(s)) /\ Cardinality(Waiting(s)) \in Nat
BY FS_Subset, FS_CardinalityType, AccessAssumption DEF Seated, Waiting

\* Expiring, bumping and dropping only take seats away.
LEMMA SweepUnseats ==
    ASSUME NEW s \in Db, NEW now \in Nat, NEW b \in BumpUnused(ExpireSeats(s, now), now)
    PROVE  /\ DropAbsent(b, now) \in Db
           /\ Seated(DropAbsent(b, now)) \subseteq Seated(s)
<1> DEFINE e == ExpireSeats(s, now)
           d == DropAbsent(b, now)
<1>1. e \in Db /\ b \in Db /\ d \in Db
  BY ExpireType, BumpType, DropType
<1>2. Seated(e) \subseteq Seated(s)
  <2>1. \A u \in Users : s.row[u] \in Row
    BY DEF Db
  <2>2. \A u \in Users : Finished(s.row[u]).state = "idle"
    BY <2>1 DEF Finished, Row
  <2>3. \A u \in Users : e.row[u] \in {s.row[u], Finished(s.row[u])}
    BY DEF ExpireSeats, Db
  <2> QED
    BY <2>2, <2>3 DEF Seated
<1>3. Seated(b) \subseteq Seated(e)
  BY <1>1, BumpRows DEF Seated
<1>4. Seated(d) \subseteq Seated(b)
  <2>1. \A u \in Users : b.row[u] \in Row
    BY <1>1 DEF Db
  <2>2. \A u \in Users : [b.row[u] EXCEPT !.state = "idle", !.queue_seq = NULL].state = "idle"
    BY <2>1 DEF Row
  <2>3. \A u \in Users :
          d.row[u] \in {b.row[u], [b.row[u] EXCEPT !.state = "idle", !.queue_seq = NULL]}
    BY <1>1 DEF DropAbsent, Db
  <2> QED
    BY <2>2, <2>3 DEF Seated
<1> QED
  BY <1>1, <1>2, <1>3, <1>4

\* What admission does to the two groups.
LEMMA AdmitGroups ==
    ASSUME NEW s \in Db, NEW now \in Nat, NEW t \in AdmitWaiting(s, now)
    PROVE  \E front \in FirstInLine(s, FreeSeats(s)) :
              /\ Seated(t) = Seated(s) \cup front
              /\ Waiting(t) = Waiting(s) \ front
              /\ t.nextSeq = s.nextSeq
              /\ \A u \in front : t.row[u] = Admitted(s.row[u], now)
              /\ \A u \in Users \ front : t.row[u] = s.row[u]
<1>1. PICK front \in FirstInLine(s, FreeSeats(s)) :
        t = [s EXCEPT !.row = [u \in Users |-> IF u \in front THEN Admitted(s.row[u], now)
                                                              ELSE s.row[u]]]
  BY DEF AdmitWaiting
<1>2. front \subseteq Waiting(s) /\ front \subseteq Users
  BY DEF FirstInLine, Waiting
<1>3. \A u \in Users : s.row[u] \in Row
  BY DEF Db
<1>4. \A u \in front : Admitted(s.row[u], now).state = "active"
  BY <1>2, <1>3 DEF Admitted, Row
<1>5. /\ t.nextSeq = s.nextSeq
      /\ \A u \in front : t.row[u] = Admitted(s.row[u], now)
      /\ \A u \in Users \ front : t.row[u] = s.row[u]
  BY <1>1, <1>2 DEF Db
<1> QED
  BY <1>2, <1>3, <1>4, <1>5 DEF Seated, Waiting

\* Admission fills seats up to the capacity, and stops only there or when
\* nobody waits.
LEMMA AdmitFills ==
    ASSUME NEW s \in Db, NEW now \in Nat, NEW t \in AdmitWaiting(s, now),
           Cardinality(Seated(s)) <= Capacity
    PROVE  /\ Cardinality(Seated(t)) <= Capacity
           /\ Waiting(t) # {} => Cardinality(Seated(t)) = Capacity
<1>1. PICK front \in FirstInLine(s, FreeSeats(s)) :
        /\ Seated(t) = Seated(s) \cup front
        /\ Waiting(t) = Waiting(s) \ front
  BY AdmitGroups
<1>2. /\ front \subseteq Waiting(s)
      /\ Cardinality(front) <= FreeSeats(s)
      /\ front # Waiting(s) => Cardinality(front) = FreeSeats(s)
  BY DEF FirstInLine
<1>3. Seated(s) \cap front = {}
  BY <1>2 DEF Seated, Waiting
<1>4. IsFiniteSet(front) /\ Cardinality(front) \in Nat
  BY <1>2, FiniteGroups, FS_Subset, FS_CardinalityType
<1>5. Cardinality(Seated(t)) = Cardinality(Seated(s)) + Cardinality(front)
  <2>1. Cardinality(Seated(s) \cap front) = 0
    BY <1>3, FS_EmptySet
  <2>2. Cardinality(Seated(s) \cup front) =
          Cardinality(Seated(s)) + Cardinality(front) - Cardinality(Seated(s) \cap front)
    BY <1>4, FiniteGroups, FS_Union
  <2> QED
    BY <1>1, <1>4, <2>1, <2>2, FiniteGroups
<1>6. FreeSeats(s) = Capacity - Cardinality(Seated(s))
  BY DEF FreeSeats
<1> QED
  BY <1>1, <1>2, <1>4, <1>5, <1>6, FiniteGroups, AccessAssumption

LEMMA ReconciledFills ==
    ASSUME NEW s \in Db, NEW now \in Nat, NEW t \in Reconciled(s, now),
           Cardinality(Seated(s)) <= Capacity
    PROVE  /\ Cardinality(Seated(t)) <= Capacity
           /\ Waiting(t) # {} => Cardinality(Seated(t)) = Capacity
<1>1. PICK b \in BumpUnused(ExpireSeats(s, now), now) :
        t \in AdmitWaiting(DropAbsent(b, now), now)
  BY DEF Reconciled
<1>2. /\ DropAbsent(b, now) \in Db
      /\ Seated(DropAbsent(b, now)) \subseteq Seated(s)
  BY SweepUnseats
<1>3. Cardinality(Seated(DropAbsent(b, now))) <= Capacity
  BY <1>2, FiniteGroups, FS_Subset, AccessAssumption
<1> QED
  BY <1>1, <1>2, <1>3, AdmitFills

\* Nor does the statement between two reconciles seat anybody.
LEMMA BetweenUnseats ==
    ASSUME NEW s \in Db, NEW m \in Db, Between(s, m)
    PROVE  \A u \in Seated(m) : u \in Seated(s) /\ m.row[u].started_at = s.row[u].started_at
<1>1. \A u \in Users : s.row[u] \in Row
  BY DEF Db
<1>2. ASSUME NEW u \in Users, NEW now \in Nat, m = Enqueued(s, u, now)
      PROVE  \A v \in Seated(m) : v \in Seated(s) /\ m.row[v] = s.row[v]
  BY <1>1, <1>2 DEF Enqueued, Seated, Db
<1>3. ASSUME NEW u \in Users, NEW now \in Nat, NEW present \in BOOLEAN,
             m = Beaten(s, u, present, now)
      PROVE  \A v \in Seated(m) : v \in Seated(s) /\ m.row[v].started_at = s.row[v].started_at
  BY <1>1, <1>3 DEF Beaten, Seated, Db, Row
<1>4. ASSUME NEW u \in Users, m = GivenUp(s, u)
      PROVE  \A v \in Seated(m) : v \in Seated(s) /\ m.row[v] = s.row[v]
  BY <1>4, GivenUpLeaves DEF Seated
<1> QED
  BY <1>2, <1>3, <1>4 DEF Between

SeatInv == CapacityRespected /\ NoSeatLeftEmpty

LEMMA SeatInvStep == TypeOK /\ SeatInv /\ [Next]_vars => SeatInv'
<1> SUFFICES ASSUME TypeOK, SeatInv, [Next]_vars
             PROVE  SeatInv'
  OBVIOUS
<1>1. CASE UNCHANGED db
  BY <1>1 DEF SeatInv, CapacityRespected, NoSeatLeftEmpty, Seated, Waiting
<1>2. ASSUME NEW now \in Nat, NEW s \in Reconciled(db, now), db' = s
      PROVE  SeatInv'
  BY <1>2, ReconciledFills, ZenonT(60) DEF SeatInv, CapacityRespected, NoSeatLeftEmpty, TypeOK, Seated, Waiting
<1>3. ASSUME NEW now \in Nat, NEW s \in Reconciled(db, now),
             NEW m \in Db, Between(s, m), db' \in Reconciled(m, now)
      PROVE  SeatInv'
  <2>1. s \in Db
    BY ReconciledType DEF TypeOK
  <2>2. Cardinality(Seated(s)) <= Capacity
    BY ReconciledFills DEF SeatInv, CapacityRespected, TypeOK
  <2>3. Seated(m) \subseteq Seated(s)
    BY <1>3, <2>1, BetweenUnseats
  <2>4. Cardinality(Seated(m)) <= Capacity
    BY <2>2, <2>3, FiniteGroups, FS_Subset, AccessAssumption
  <2> QED
    BY <1>3, <2>4, ReconciledFills DEF SeatInv, CapacityRespected, NoSeatLeftEmpty, Seated, Waiting
<1> QED
  BY <1>1, <1>2, <1>3, NextIsOperation DEF OperationStep

LEMMA SeatsCorrect == Spec => []SeatInv
<1>1. Init => SeatInv
  <2> SUFFICES ASSUME Init PROVE SeatInv
    OBVIOUS
  <2>1. Seated(db) = {} /\ Waiting(db) = {}
    BY DEF Init, NoRow, Seated, Waiting
  <2> QED
    BY <2>1, FS_EmptySet, AccessAssumption DEF SeatInv, CapacityRespected, NoSeatLeftEmpty
<1> QED
  BY <1>1, SeatInvStep, TypeCorrect, PTL DEF Spec

\* Ten means ten: for any number of users and seats, and whatever operations
\* run in whatever order, no more people are seated than there are seats.
THEOREM CapacityIsRespected == Spec => []CapacityRespected
<1>1. SeatInv => CapacityRespected
  BY DEF SeatInv
<1> QED
  BY <1>1, SeatsCorrect, PTL

\* No operation leaves a seat empty while somebody waits in line.
THEOREM SeatsAreFilled == Spec => []NoSeatLeftEmpty
<1>1. SeatInv => NoSeatLeftEmpty
  BY DEF SeatInv
<1> QED
  BY <1>1, SeatsCorrect, PTL

-----------------------------------------------------------------------------
(* The line.                                                               *)

\* Everybody waiting in t waited in s under the same number, or drew a later
\* one than any drawn so far.
NumbersKept(s, t) ==
    /\ t.nextSeq >= s.nextSeq
    /\ \A u \in Waiting(t) :
          \/ u \in Waiting(s) /\ t.row[u].queue_seq = s.row[u].queue_seq
          \/ t.row[u].queue_seq >= s.nextSeq

\* Everybody seated in t already sat in s, in the same sitting.
NobodySeated(s, t) ==
    \A u \in Seated(t) : u \in Seated(s) /\ t.row[u].started_at = s.row[u].started_at

\* v waits in both tables under one number; u sits in t but not so in s.
Overtakes(s, t, u, v) ==
    /\ u \in Seated(t)
    /\ ~(u \in Seated(s) /\ t.row[u].started_at = s.row[u].started_at)
    /\ v \in Waiting(s) /\ v \in Waiting(t)
    /\ t.row[v].queue_seq = s.row[v].queue_seq
    /\ ~(u \in Waiting(s) /\ s.row[u].queue_seq < s.row[v].queue_seq)

Fair(s, t) == \A u, v \in Users : ~Overtakes(s, t, u, v)

LEMMA ExpireLine ==
    ASSUME NEW s \in Db, NEW now \in Nat, LineOrdered(s)
    PROVE  LET e == ExpireSeats(s, now)
           IN  LineOrdered(e) /\ NumbersKept(s, e) /\ NobodySeated(s, e)
<1> DEFINE e == ExpireSeats(s, now)
<1>1. \A u \in Users : s.row[u] \in Row
  BY DEF Db
<1>2. \A u \in Users : Finished(s.row[u]).state = "idle"
  BY <1>1 DEF Finished, Row
<1>3. e.nextSeq = s.nextSeq /\ \A u \in Users : e.row[u] \in {s.row[u], Finished(s.row[u])}
  BY DEF ExpireSeats, Db
<1>4. \A u \in Waiting(e) : u \in Waiting(s) /\ e.row[u] = s.row[u]
  BY <1>2, <1>3 DEF Waiting
<1>5. \A u \in Seated(e) : u \in Seated(s) /\ e.row[u] = s.row[u]
  BY <1>2, <1>3 DEF Seated
<1>6. s.nextSeq \in Nat
  BY DEF Db
<1> HIDE DEF e
<1> QED
  BY <1>3, <1>4, <1>5, <1>6 DEF LineOrdered, NumbersKept, NobodySeated, e

LEMMA BumpLine ==
    ASSUME NEW s \in Db, NEW now \in Nat, NEW b \in BumpUnused(s, now), LineOrdered(s)
    PROVE  LineOrdered(b) /\ NumbersKept(s, b) /\ NobodySeated(s, b)
<1>1. /\ s.nextSeq \in Nat /\ b.nextSeq \in Nat /\ b.nextSeq >= s.nextSeq
      /\ \A u \in Users : s.row[u] \in Row
  BY BumpRows DEF Db
<1>2. \A u \in Seated(b) : u \in Seated(s) /\ b.row[u] = s.row[u]
  BY BumpRows DEF Seated
<1>3. \A u \in Waiting(b) :
        \/ u \in Waiting(s) /\ b.row[u] = s.row[u]
        \/ SeatIsUnused(s.row[u], now) /\ b.row[u].queue_seq \in s.nextSeq..(b.nextSeq - 1)
  BY BumpRows DEF Waiting
<1>4. \A u \in Waiting(s) : s.row[u].queue_seq \in 1..(s.nextSeq - 1)
  BY DEF LineOrdered
<1>5. NumbersKept(s, b)
  BY <1>1, <1>3 DEF NumbersKept
<1>6. \A u \in Waiting(b) : b.row[u].queue_seq \in 1..(b.nextSeq - 1)
  <2>1. s.nextSeq >= 1
    BY DEF Db
  <2> QED
    BY <1>1, <1>3, <1>4, <2>1
<1>7. ASSUME NEW u \in Waiting(b), NEW v \in Waiting(b), b.row[u].queue_seq = b.row[v].queue_seq
      PROVE  u = v
  <2>1. u \in Users /\ v \in Users
    BY DEF Waiting
  <2>2. CASE SeatIsUnused(s.row[u], now) /\ SeatIsUnused(s.row[v], now)
    BY <1>7, <2>1, <2>2, BumpRows
  <2>3. CASE ~SeatIsUnused(s.row[u], now) /\ ~SeatIsUnused(s.row[v], now)
    BY <1>3, <1>7, <2>1, <2>3 DEF LineOrdered
  <2>4. CASE SeatIsUnused(s.row[u], now) /\ ~SeatIsUnused(s.row[v], now)
    <3>1. b.row[v] = s.row[v] /\ b.row[v].queue_seq \in 1..(s.nextSeq - 1)
      BY <1>3, <1>4, <2>1, <2>4
    <3>2. b.row[u].queue_seq \in s.nextSeq..(b.nextSeq - 1)
      BY <2>1, <2>4, BumpRows
    <3> QED
      BY <1>1, <1>7, <3>1, <3>2
  <2>5. CASE ~SeatIsUnused(s.row[u], now) /\ SeatIsUnused(s.row[v], now)
    <3>1. b.row[u] = s.row[u] /\ b.row[u].queue_seq \in 1..(s.nextSeq - 1)
      BY <1>3, <1>4, <2>1, <2>5
    <3>2. b.row[v].queue_seq \in s.nextSeq..(b.nextSeq - 1)
      BY <2>1, <2>5, BumpRows
    <3> QED
      BY <1>1, <1>7, <3>1, <3>2
  <2> QED
    BY <2>2, <2>3, <2>4, <2>5
<1> QED
  BY <1>2, <1>5, <1>6, <1>7 DEF LineOrdered, NobodySeated

LEMMA DropLine ==
    ASSUME NEW s \in Db, NEW now \in Nat, LineOrdered(s)
    PROVE  LET d == DropAbsent(s, now)
           IN  LineOrdered(d) /\ NumbersKept(s, d) /\ NobodySeated(s, d)
<1> DEFINE d    == DropAbsent(s, now)
           gone(u) == [s.row[u] EXCEPT !.state = "idle", !.queue_seq = NULL]
<1>1. \A u \in Users : s.row[u] \in Row
  BY DEF Db
<1>2. \A u \in Users : gone(u).state = "idle"
  BY <1>1 DEF Row
<1>3. d.nextSeq = s.nextSeq /\ \A u \in Users : d.row[u] \in {s.row[u], gone(u)}
  BY DEF DropAbsent, Db
<1> HIDE DEF gone
<1>4. \A u \in Waiting(d) : u \in Waiting(s) /\ d.row[u] = s.row[u]
  BY <1>2, <1>3 DEF Waiting
<1>5. \A u \in Seated(d) : u \in Seated(s) /\ d.row[u] = s.row[u]
  BY <1>2, <1>3 DEF Seated
<1>6. s.nextSeq \in Nat
  BY DEF Db
<1> HIDE DEF d
<1> QED
  BY <1>3, <1>4, <1>5, <1>6 DEF LineOrdered, NumbersKept, NobodySeated, d

LEMMA AdmitLine ==
    ASSUME NEW s \in Db, NEW now \in Nat, NEW t \in AdmitWaiting(s, now), LineOrdered(s)
    PROVE  LineOrdered(t) /\ NumbersKept(s, t) /\ Fair(s, t)
<1>1. PICK front \in FirstInLine(s, FreeSeats(s)) :
        /\ Seated(t) = Seated(s) \cup front
        /\ Waiting(t) = Waiting(s) \ front
        /\ t.nextSeq = s.nextSeq
        /\ \A u \in front : t.row[u] = Admitted(s.row[u], now)
        /\ \A u \in Users \ front : t.row[u] = s.row[u]
  BY AdmitGroups
<1>2. /\ front \subseteq Waiting(s)
      /\ \A u \in front, v \in Waiting(s) \ front : s.row[u].queue_seq < s.row[v].queue_seq
  BY DEF FirstInLine
<1>3. /\ s.nextSeq \in Nat
      /\ Waiting(t) \subseteq Users \ front
      /\ Seated(t) \subseteq Users
  BY <1>1 DEF Db, Waiting, Seated
<1>4. LineOrdered(t) /\ NumbersKept(s, t)
  BY <1>1, <1>3 DEF LineOrdered, NumbersKept
<1>5. Fair(s, t)
  BY <1>1, <1>2, <1>3 DEF Fair, Overtakes
<1> QED
  BY <1>4, <1>5

\* Steps that seat nobody, followed by a fair step, are a fair step; and so on.
LEMMA FairChain ==
    ASSUME NEW s \in Db, NEW m \in Db, NEW n \in Db, NEW t \in Db,
           LineOrdered(s), LineOrdered(m), LineOrdered(n),
           Fair(s, m), NumbersKept(s, m),
           NobodySeated(m, n), NumbersKept(m, n),
           Fair(n, t), NumbersKept(n, t)
    PROVE  Fair(s, t)
<1> SUFFICES ASSUME NEW u \in Users, NEW v \in Users, Overtakes(s, t, u, v)
             PROVE  FALSE
  BY DEF Fair
<1>1. /\ s.nextSeq \in Nat /\ m.nextSeq \in Nat /\ n.nextSeq \in Nat
      /\ m.nextSeq >= s.nextSeq /\ n.nextSeq >= m.nextSeq
  BY DEF Db, NumbersKept
<1> DEFINE k == s.row[v].queue_seq
<1>2. k \in Nat /\ k < s.nextSeq
  BY DEF Overtakes, LineOrdered, Db
<1>3. v \in Waiting(n) /\ n.row[v].queue_seq = k
  BY <1>1, <1>2 DEF Overtakes, NumbersKept
<1>4. v \in Waiting(m) /\ m.row[v].queue_seq = k
  BY <1>1, <1>2, <1>3 DEF NumbersKept
<1>5. CASE u \in Seated(n) /\ t.row[u].started_at = n.row[u].started_at
  <2>1. u \in Seated(m) /\ t.row[u].started_at = m.row[u].started_at
    BY <1>5 DEF NobodySeated
  <2>2. Overtakes(s, m, u, v)
    BY <1>4, <2>1 DEF Overtakes
  <2> QED
    BY <2>2 DEF Fair
<1>6. CASE ~(u \in Seated(n) /\ t.row[u].started_at = n.row[u].started_at)
  <2>1. u \in Waiting(n) /\ n.row[u].queue_seq < k
    BY <1>3, <1>6 DEF Fair, Overtakes
  <2>2. n.row[u].queue_seq \in Nat
    BY <2>1 DEF LineOrdered
  <2>3. u \in Waiting(m) /\ m.row[u].queue_seq = n.row[u].queue_seq
    BY <1>1, <1>2, <2>1, <2>2 DEF NumbersKept
  <2>4. u \in Waiting(s) /\ s.row[u].queue_seq = n.row[u].queue_seq
    BY <1>1, <1>2, <2>1, <2>2, <2>3 DEF NumbersKept
  <2> QED
    BY <2>1, <2>4 DEF Overtakes
<1> QED
  BY <1>5, <1>6

LEMMA KeptChain ==
    ASSUME NEW s \in Db, NEW m \in Db, NEW t \in Db, LineOrdered(t)
    PROVE  /\ NumbersKept(s, m) /\ NumbersKept(m, t) => NumbersKept(s, t)
           /\ NobodySeated(s, m) /\ NobodySeated(m, t) => NobodySeated(s, t)
<1>1. ASSUME NumbersKept(s, m), NumbersKept(m, t)
      PROVE  NumbersKept(s, t)
  <2>1. /\ s.nextSeq \in Nat /\ m.nextSeq \in Nat /\ t.nextSeq \in Nat
        /\ m.nextSeq >= s.nextSeq /\ t.nextSeq >= m.nextSeq
    BY <1>1 DEF Db, NumbersKept
  <2>2. \A u \in Waiting(t) : t.row[u].queue_seq \in Nat
    BY DEF LineOrdered
  <2> QED
    BY <1>1, <2>1, <2>2 DEF NumbersKept
<1>2. ASSUME NobodySeated(s, m), NobodySeated(m, t)
      PROVE  NobodySeated(s, t)
  BY <1>2 DEF NobodySeated
<1> QED
  BY <1>1, <1>2

LEMMA ReconciledLine ==
    ASSUME NEW s \in Db, NEW now \in Nat, NEW t \in Reconciled(s, now), LineOrdered(s)
    PROVE  LineOrdered(t) /\ NumbersKept(s, t) /\ Fair(s, t)
<1> DEFINE e == ExpireSeats(s, now)
<1>1. PICK b \in BumpUnused(e, now) : t \in AdmitWaiting(DropAbsent(b, now), now)
  BY DEF Reconciled
<1> DEFINE d == DropAbsent(b, now)
<1>2. e \in Db /\ b \in Db /\ d \in Db /\ t \in Db
  BY <1>1, ExpireType, BumpType, DropType, AdmitType
<1>3. LineOrdered(e) /\ NumbersKept(s, e) /\ NobodySeated(s, e)
  BY ExpireLine
<1>4. LineOrdered(b) /\ NumbersKept(e, b) /\ NobodySeated(e, b)
  BY <1>2, <1>3, BumpLine
<1>5. LineOrdered(d) /\ NumbersKept(b, d) /\ NobodySeated(b, d)
  BY <1>2, <1>4, DropLine
<1>6. LineOrdered(t) /\ NumbersKept(d, t) /\ Fair(d, t)
  BY <1>1, <1>2, <1>5, AdmitLine
<1> HIDE DEF e, d
<1>7. NumbersKept(s, d) /\ NobodySeated(s, d)
  BY <1>2, <1>3, <1>4, <1>5, KeptChain
<1>8. NumbersKept(s, t)
  BY <1>2, <1>6, <1>7, KeptChain
<1>9. Fair(s, s) /\ NumbersKept(s, s)
  BY DEF Fair, Overtakes, NumbersKept, Db
<1>10. Fair(s, t)
  BY <1>2, <1>5, <1>6, <1>7, <1>9, FairChain
<1> QED
  BY <1>6, <1>8, <1>10

LEMMA BetweenLine ==
    ASSUME NEW s \in Db, NEW m \in Db, Between(s, m), LineOrdered(s)
    PROVE  LineOrdered(m) /\ NumbersKept(s, m) /\ NobodySeated(s, m)
<1>1. NobodySeated(s, m)
  BY BetweenUnseats DEF NobodySeated
<1>2. /\ s.nextSeq \in Nat /\ s.nextSeq >= 1
      /\ \A u \in Users : s.row[u] \in Row
  BY DEF Db
<1>3. ASSUME NEW u \in Users, NEW now \in Nat, s.row[u].state = "idle", m = Enqueued(s, u, now)
      PROVE  LineOrdered(m) /\ NumbersKept(s, m)
  <2>1. /\ m.nextSeq = s.nextSeq + 1
        /\ m.row[u].state = "queued" /\ m.row[u].queue_seq = s.nextSeq
        /\ \A v \in Users \ {u} : m.row[v] = s.row[v]
    BY <1>3 DEF Enqueued, Db
  <2>2. Waiting(m) = Waiting(s) \cup {u} /\ u \notin Waiting(s)
    BY <1>3, <2>1 DEF Waiting
  <2>3. \A v \in Waiting(s) : v # u /\ m.row[v] = s.row[v] /\ s.row[v].queue_seq \in 1..(s.nextSeq - 1)
    BY <2>1, <2>2 DEF LineOrdered, Waiting
  <2>4. \A v \in Waiting(m) : m.row[v].queue_seq \in 1..(m.nextSeq - 1)
    BY <1>2, <2>1, <2>2, <2>3
  <2>5. \A v, w \in Waiting(m) : m.row[v].queue_seq = m.row[w].queue_seq => v = w
    BY <1>2, <2>1, <2>2, <2>3 DEF LineOrdered
  <2>6. NumbersKept(s, m)
    BY <1>2, <2>1, <2>2, <2>3 DEF NumbersKept
  <2> QED
    BY <2>4, <2>5, <2>6 DEF LineOrdered
<1>4. ASSUME m.nextSeq = s.nextSeq,
             \A v \in Users : \/ m.row[v].state # "queued"
                              \/ /\ s.row[v].state = "queued"
                                 /\ m.row[v].queue_seq = s.row[v].queue_seq
      PROVE  LineOrdered(m) /\ NumbersKept(s, m)
  BY <1>2, <1>4 DEF LineOrdered, NumbersKept, Waiting
<1>5. ASSUME NEW u \in Users, NEW now \in Nat, NEW present \in BOOLEAN,
             m = Beaten(s, u, present, now)
      PROVE  LineOrdered(m) /\ NumbersKept(s, m)
  <2>1. /\ m.nextSeq = s.nextSeq
        /\ \A v \in Users : /\ m.row[v].state = s.row[v].state
                            /\ m.row[v].queue_seq = s.row[v].queue_seq
    BY <1>2, <1>5 DEF Beaten, Db, Row
  <2> QED
    BY <1>4, <2>1
<1>6. ASSUME NEW u \in Users, m = GivenUp(s, u)
      PROVE  LineOrdered(m) /\ NumbersKept(s, m)
  <2>1. /\ m.nextSeq = s.nextSeq
        /\ \A v \in Users : m.row[v].state = "idle" \/ m.row[v] = s.row[v]
    BY <1>6, GivenUpLeaves
  <2> QED
    BY <1>4, <2>1
<1> QED
  BY <1>1, <1>3, <1>5, <1>6 DEF Between

LEMMA LineStep ==
    ASSUME TypeOK, LineIsOrdered, [Next]_vars
    PROVE  LineIsOrdered' /\ Fair(db, db') /\ NumbersKept(db, db')
<1>1. CASE UNCHANGED db
  <2>1. Fair(db, db') /\ NumbersKept(db, db')
    BY <1>1 DEF Fair, Overtakes, NumbersKept, TypeOK, Db
  <2> QED
    BY <1>1, <2>1 DEF LineIsOrdered
<1>2. ASSUME NEW now \in Nat, NEW s \in Reconciled(db, now), db' = s
      PROVE  LineIsOrdered' /\ Fair(db, db') /\ NumbersKept(db, db')
  BY <1>2, ReconciledLine DEF LineIsOrdered, TypeOK
<1>3. ASSUME NEW now \in Nat, NEW s \in Reconciled(db, now),
             NEW m \in Db, Between(s, m), db' \in Reconciled(m, now)
      PROVE  LineIsOrdered' /\ Fair(db, db') /\ NumbersKept(db, db')
  <2>1. db \in Db /\ s \in Db /\ db' \in Db
    BY <1>3, ReconciledType DEF TypeOK
  <2>2. LineOrdered(s) /\ NumbersKept(db, s) /\ Fair(db, s)
    BY <2>1, ReconciledLine DEF LineIsOrdered
  <2>3. LineOrdered(m) /\ NumbersKept(s, m) /\ NobodySeated(s, m)
    BY <1>3, <2>1, <2>2, BetweenLine
  <2>4. LineOrdered(db') /\ NumbersKept(m, db') /\ Fair(m, db')
    BY <1>3, <2>1, <2>3, ReconciledLine
  <2>5. Fair(db, db')
    BY <2>1, <2>2, <2>3, <2>4, FairChain DEF LineIsOrdered
  <2>6. NumbersKept(db, m)
    BY <2>1, <2>2, <2>3, <2>4, KeptChain
  <2> QED
    BY <2>1, <2>4, <2>5, <2>6, KeptChain DEF LineIsOrdered
<1> QED
  BY <1>1, <1>2, <1>3, NextIsOperation DEF OperationStep

\* Everybody in line has a number of their own, and no number is still to be
\* drawn that would put its owner ahead of anybody.
THEOREM LineStaysOrdered == Spec => []LineIsOrdered
<1>1. Init => LineIsOrdered
  BY DEF Init, NoRow, LineIsOrdered, LineOrdered, Waiting
<1>2. TypeOK /\ LineIsOrdered /\ [Next]_vars => LineIsOrdered'
  BY LineStep
<1> QED
  BY <1>1, <1>2, TypeCorrect, PTL DEF Spec

\* Seats go in the order of the line: in every step of every operation, nobody
\* is admitted past someone who keeps a place.
THEOREM NobodyIsOvertaken == Spec => FirstComeFirstSeated
<1>1. TypeOK /\ LineIsOrdered /\ [Next]_vars =>
        [\A u, v \in Users : JustAdmitted(u) /\ KeepsPlace(v) =>
            /\ u \in Waiting(db)
            /\ db.row[u].queue_seq < db.row[v].queue_seq]_vars
  <2> SUFFICES ASSUME TypeOK, LineIsOrdered, [Next]_vars, ~UNCHANGED vars,
                      NEW u \in Users, NEW v \in Users, JustAdmitted(u), KeepsPlace(v)
               PROVE  u \in Waiting(db) /\ db.row[u].queue_seq < db.row[v].queue_seq
    OBVIOUS
  <2>1. ~Overtakes(db, db', u, v)
    BY LineStep DEF Fair
  <2>2. v \in Waiting(db) /\ v \in Waiting(db') /\ db'.row[v].queue_seq = db.row[v].queue_seq
    BY DEF KeepsPlace, Waiting
  <2>3. /\ u \in Seated(db')
        /\ ~(u \in Seated(db) /\ db'.row[u].started_at = db.row[u].started_at)
    BY DEF JustAdmitted, Seated
  <2> QED
    BY <2>1, <2>2, <2>3 DEF Overtakes
<1> QED
  BY <1>1, TypeCorrect, LineStaysOrdered, PTL DEF Spec, FirstComeFirstSeated

-----------------------------------------------------------------------------
(* The history.  Every operation ends with a reconcile at its own clock,   *)
(* and the statement before that one concerns one user.                    *)

Says(s, u, now, m) ==
    \/ s.row[u].state = "idle" /\ m = Enqueued(s, u, now)
    \/ \E present \in BOOLEAN : m = Beaten(s, u, present, now)
    \/ m = GivenUp(s, u)

Operated(now) ==
    \E s \in Reconciled(db, now) :
        \/ db' = s
        \/ \E u \in Users, m \in Db : Says(s, u, now, m) /\ db' \in Reconciled(m, now)

LEMMA HistoryIsOperation ==
    ASSUME TypeOK, [HNext]_hvars
    PROVE  \/ UNCHANGED <<db, asOf, spent>>
           \/ /\ asOf' \in Nat /\ Operated(asOf')
              /\ spent' = [u \in Users |-> SpentAfter(u, asOf')]
<1> DEFINE Goal == /\ asOf' \in Nat /\ Operated(asOf')
                   /\ spent' = [u \in Users |-> SpentAfter(u, asOf')]
<1>1. CASE HTick \/ UNCHANGED hvars
  BY <1>1 DEF HTick, Tick, hvars
<1>2. \A now \in TxTimes : now \in Nat
  BY DEF TxTimes, TypeOK
<1>3. ASSUME NEW now \in TxTimes, HStatus(now)
      PROVE  Goal
  <2>1. now \in Nat /\ asOf' = now /\ spent' = [u \in Users |-> SpentAfter(u, now)]
    BY <1>2, <1>3 DEF HStatus, Recorded
  <2>2. Operated(now)
    BY <1>3 DEF HStatus, Status, Commit, Operated
  <2> QED
    BY <2>1, <2>2
<1>4. ASSUME NEW now \in TxTimes, NEW u \in Users, HRequest(u, now)
      PROVE  Goal
  <2>1. now \in Nat /\ asOf' = now /\ spent' = [v \in Users |-> SpentAfter(v, now)]
    BY <1>2, <1>4 DEF HRequest, Recorded
  <2>2. PICK s \in Reconciled(db, now) :
          \/ Commit(s)
          \/ s.row[u].state = "idle" /\ \E t \in Reconciled(Enqueued(s, u, now), now) : Commit(t)
    BY <1>4 DEF HRequest, Request
  <2>3. Enqueued(s, u, now) \in Db
    BY <2>1, ReconciledType, EnqueuedType DEF TypeOK
  <2>4. Operated(now)
    BY <2>2, <2>3 DEF Commit, Operated, Says
  <2> QED
    BY <2>1, <2>4
<1>5. ASSUME NEW now \in TxTimes, NEW u \in Users, NEW present \in BOOLEAN, HHeartbeat(u, present, now)
      PROVE  Goal
  <2>1. now \in Nat /\ asOf' = now /\ spent' = [v \in Users |-> SpentAfter(v, now)]
    BY <1>2, <1>5 DEF HHeartbeat, Recorded
  <2>2. PICK s \in Reconciled(db, now) :
          \E t \in Reconciled(Beaten(s, u, present, now), now) : Commit(t)
    BY <1>5 DEF HHeartbeat, Heartbeat
  <2>3. Beaten(s, u, present, now) \in Db
    BY <2>1, ReconciledType, BeatenType DEF TypeOK
  <2>4. Operated(now)
    BY <2>2, <2>3 DEF Commit, Operated, Says
  <2> QED
    BY <2>1, <2>4
<1>6. ASSUME NEW now \in TxTimes, NEW u \in Users, HRelease(u, now)
      PROVE  Goal
  <2>1. now \in Nat /\ asOf' = now /\ spent' = [v \in Users |-> SpentAfter(v, now)]
    BY <1>2, <1>6 DEF HRelease, Recorded
  <2>2. PICK s \in Reconciled(db, now) : \E t \in Reconciled(GivenUp(s, u), now) : Commit(t)
    BY <1>6 DEF HRelease, Release
  <2>3. GivenUp(s, u) \in Db
    BY <2>1, ReconciledType, GivenUpType DEF TypeOK
  <2>4. Operated(now)
    BY <2>2, <2>3 DEF Commit, Operated, Says
  <2> QED
    BY <2>1, <2>4
<1> QED
  BY <1>1, <1>3, <1>4, <1>5, <1>6 DEF HNext

(* The history only watches.                                               *)
LEMMA HistoryRefines == HSpec => Spec
<1>1. HInit => Init
  BY DEF HInit
<1>2. [HNext]_hvars => [Next]_vars
  BY DEF HNext, HTick, HStatus, HRequest, HHeartbeat, HRelease, Next, hvars, vars
<1> QED
  BY <1>1, <1>2, PTL DEF HSpec, Spec

-----------------------------------------------------------------------------
(* Entitlement.                                                            *)

Entitled(r, now) ==
    /\ r.expires_at > now
    /\ r.last_seen_at >= now - GraceMs
    /\ r.last_active_at >= now - IdleMs

\* What is seated after a reconcile has been looked at by it.
LEMMA ReconciledEntitles ==
    ASSUME NEW s \in Db, NEW now \in Nat, NEW t \in Reconciled(s, now)
    PROVE  \A u \in Seated(t) : Entitled(t.row[u], now)
<1> DEFINE e == ExpireSeats(s, now)
<1>1. PICK b \in BumpUnused(e, now) : t \in AdmitWaiting(DropAbsent(b, now), now)
  BY DEF Reconciled
<1> DEFINE d == DropAbsent(b, now)
<1>2. e \in Db /\ b \in Db /\ d \in Db /\ t \in Db
  BY <1>1, ExpireType, BumpType, DropType, AdmitType
<1>3. ASSUME NEW u \in Users, e.row[u].state = "active"
      PROVE  ~SeatIsOver(e.row[u], now)
  <2>1. s.row[u] \in Row
    BY DEF Db
  <2>2. Finished(s.row[u]).state = "idle"
    BY <2>1 DEF Finished, Row
  <2>3. e.row[u] = IF SeatIsOver(s.row[u], now) THEN Finished(s.row[u]) ELSE s.row[u]
    BY DEF ExpireSeats, Db
  <2> QED
    BY <1>3, <2>2, <2>3
<1> HIDE DEF e
<1>4. ASSUME NEW u \in Seated(d)
      PROVE  d.row[u] = e.row[u] /\ ~SeatIsUnused(e.row[u], now)
  <2>1. u \in Users /\ d.row[u].state = "active" /\ b.row[u] \in Row
    BY <1>2 DEF Seated, Db
  <2>2. d.row[u] \in {b.row[u], [b.row[u] EXCEPT !.state = "idle", !.queue_seq = NULL]}
    BY <1>2, <2>1 DEF DropAbsent, Db
  <2>3. d.row[u] = b.row[u]
    BY <2>1, <2>2 DEF Row
  <2> QED
    BY <1>2, <2>1, <2>3, BumpRows
<1> HIDE DEF d
<1>5. ASSUME NEW u \in Seated(d)
      PROVE  Entitled(d.row[u], now)
  <2>1. d.row[u] \in Row /\ d.row[u].state = "active"
    BY <1>2 DEF Seated, Db
  <2>2. ~SeatIsOver(d.row[u], now) /\ ~SeatIsUnused(d.row[u], now)
    BY <1>3, <1>4, <2>1 DEF Seated
  <2> QED
    BY <2>1, <2>2, AccessAssumption DEF SeatIsOver, SeatIsUnused, Entitled, Row
<1>6. PICK front \in FirstInLine(d, FreeSeats(d)) :
        /\ Seated(t) = Seated(d) \cup front
        /\ \A u \in front : t.row[u] = Admitted(d.row[u], now)
        /\ \A u \in Users \ front : t.row[u] = d.row[u]
  BY <1>1, <1>2, AdmitGroups DEF d
<1>7. ASSUME NEW u \in front
      PROVE  Entitled(Admitted(d.row[u], now), now)
  <2>1. d.row[u] \in Row
    BY <1>2 DEF FirstInLine, Waiting, Db
  <2> DEFINE granted == IF d.row[u].carry_ms = NULL THEN SessionMs ELSE d.row[u].carry_ms
             a == Admitted(d.row[u], now)
  <2>2. granted \in Nat /\ granted > 0
    BY <2>1, AccessAssumption DEF Row, NULL
  <2>3. a.expires_at = now + granted /\ a.last_seen_at = now /\ a.last_active_at = now
    BY <2>1 DEF Admitted, Row
  <2> HIDE DEF a, granted
  <2>4. Entitled(a, now)
    BY <2>2, <2>3, AccessAssumption DEF Entitled
  <2> QED
    BY <2>4 DEF a
<1>8. Seated(d) \subseteq Users
  BY DEF Seated
<1> QED
  BY <1>5, <1>6, <1>7, <1>8

\* Whoever an operation leaves seated is entitled to the seat at its clock.
THEOREM SeatsAreEarned == HSpec => []SeatedAreEntitled
<1>1. HInit => SeatedAreEntitled
  BY DEF HInit, Init, NoRow, SeatedAreEntitled, Seated
<1>2. TypeOK /\ SeatedAreEntitled /\ [HNext]_hvars => SeatedAreEntitled'
  <2> SUFFICES ASSUME TypeOK, SeatedAreEntitled, [HNext]_hvars
               PROVE  SeatedAreEntitled'
    OBVIOUS
  <2>1. CASE UNCHANGED <<db, asOf, spent>>
    BY <2>1 DEF SeatedAreEntitled, Seated
  <2>2. CASE asOf' \in Nat /\ Operated(asOf')
    <3>1. PICK m \in Db : db' \in Reconciled(m, asOf')
      BY <2>2, ReconciledType DEF Operated, TypeOK
    <3>2. \A u \in Seated(db') : Entitled(db'.row[u], asOf')
      BY <2>2, <3>1, ReconciledEntitles
    <3> QED
      BY <3>2 DEF SeatedAreEntitled, Entitled, Seated
  <2> QED
    BY <2>1, <2>2, HistoryIsOperation
<1> QED
  BY <1>1, <1>2, HistoryRefines, TypeCorrect, PTL DEF HSpec

-----------------------------------------------------------------------------
(* The hour.                                                               *)

\* What is granted to somebody who sits, or will be to somebody who waits.
Granted(r) ==
    IF r.state = "active" THEN r.expires_at - r.started_at
    ELSE IF r.carry_ms = NULL THEN SessionMs ELSE r.carry_ms

\* No turn has more than a session left of what it spent; one that was never
\* interrupted has spent nothing.
HourInv ==
    /\ spent \in [Users -> Int]
    /\ \A u \in Users :
          /\ db.row[u].state # "idle" => spent[u] + Granted(db.row[u]) <= SessionMs
          /\ db.row[u].last_reason = "none" => spent[u] = 0

\* The turn goes on, in its seat or in line, or is over.
GoesOn(r, q) ==
    q.state # "idle" =>
        /\ r.state # "idle"
        /\ Granted(q) = Granted(r)
        /\ q.last_reason = r.last_reason

\* The turn is interrupted and goes on with the rest of its hour, or is over.
Interrupted(r, q, now) ==
    q.state # "idle" =>
        /\ Granted(q) = r.expires_at - now
        /\ q.last_reason = "idle"

LEMMA AdmittedGoesOn ==
    ASSUME NEW r \in Row, NEW now \in Nat, r.state = "queued"
    PROVE  GoesOn(r, Admitted(r, now))
<1> DEFINE granted == IF r.carry_ms = NULL THEN SessionMs ELSE r.carry_ms
           a == Admitted(r, now)
<1>1. granted \in Nat
  BY AccessAssumption DEF Row
<1>2. a.state = "active" /\ a.expires_at = now + granted /\ a.started_at = now /\ a.last_reason = r.last_reason
  BY DEF Admitted, Row
<1> HIDE DEF a
<1>3. Granted(a) = granted
  <2> HIDE DEF granted
  <2> QED
    BY <1>1, <1>2 DEF Granted
<1>4. Granted(r) = granted
  BY DEF Granted
<1> QED
  BY <1>2, <1>3, <1>4 DEF GoesOn, a

LEMMA ReconciledRows ==
    ASSUME NEW s \in Db, NEW now \in Nat, NEW t \in Reconciled(s, now), NEW u \in Users
    PROVE  IF SeatIsUnused(s.row[u], now) /\ ~SeatIsOver(s.row[u], now)
           THEN Interrupted(s.row[u], t.row[u], now)
           ELSE GoesOn(s.row[u], t.row[u])
<1> DEFINE e == ExpireSeats(s, now)
<1>1. PICK b \in BumpUnused(e, now) : t \in AdmitWaiting(DropAbsent(b, now), now)
  BY DEF Reconciled
<1> DEFINE d == DropAbsent(b, now)
<1>2. e \in Db /\ b \in Db /\ d \in Db /\ t \in Db
  BY <1>1, ExpireType, BumpType, DropType, AdmitType
<1>3. s.row[u] \in Row /\ e.row[u] \in Row /\ b.row[u] \in Row /\ d.row[u] \in Row
  BY <1>2 DEF Db
<1>4. e.row[u] = IF SeatIsOver(s.row[u], now) THEN Finished(s.row[u]) ELSE s.row[u]
  BY DEF ExpireSeats, Db
<1>5. Finished(s.row[u]).state = "idle"
  BY <1>3 DEF Finished, Row
<1>6. GoesOn(b.row[u], d.row[u])
  <2>1. d.row[u] \in {b.row[u], [b.row[u] EXCEPT !.state = "idle", !.queue_seq = NULL]}
    BY <1>2 DEF DropAbsent, Db
  <2>2. [b.row[u] EXCEPT !.state = "idle", !.queue_seq = NULL].state = "idle"
    BY <1>3 DEF Row
  <2> QED
    BY <2>1, <2>2 DEF GoesOn
<1>7. GoesOn(d.row[u], t.row[u])
  <2>1. PICK front \in FirstInLine(d, FreeSeats(d)) :
          /\ \A v \in front : t.row[v] = Admitted(d.row[v], now)
          /\ \A v \in Users \ front : t.row[v] = d.row[v]
    BY <1>1, <1>2, AdmitGroups
  <2>2. CASE u \in front
    <3>1. d.row[u].state = "queued"
      BY <2>2 DEF FirstInLine, Waiting
    <3> QED
      BY <1>3, <2>1, <2>2, <3>1, AdmittedGoesOn
  <2>3. CASE u \notin front
    BY <2>1, <2>3 DEF GoesOn
  <2> QED
    BY <2>2, <2>3
<1>8. CASE SeatIsUnused(s.row[u], now) /\ ~SeatIsOver(s.row[u], now)
  <2>1. e.row[u] = s.row[u]
    BY <1>4, <1>8
  <2> HIDE DEF e
  <2>2. PICK n : b.row[u] = Bumped(e.row[u], n, now)
    <3> DEFINE out == {v \in Users : SeatIsUnused(e.row[v], now)}
    <3>1. PICK f : b = [row     |-> [v \in Users |-> IF v \in out THEN Bumped(e.row[v], f[v], now)
                                                                  ELSE e.row[v]],
                        nextSeq |-> e.nextSeq + Cardinality(out)]
      BY DEF BumpUnused
    <3>2. u \in out
      BY <1>8, <2>1
    <3> QED
      BY <3>1, <3>2
  <2>3. s.row[u].expires_at - now \in Nat /\ s.row[u].expires_at - now # NULL
    BY <1>3, <1>8 DEF SeatIsUnused, Row, NULL
  <2>4. /\ b.row[u].state = "queued" /\ b.row[u].carry_ms = s.row[u].expires_at - now
        /\ b.row[u].last_reason = "idle"
    BY <1>3, <2>1, <2>2 DEF Bumped, Row
  <2>5. Granted(b.row[u]) = s.row[u].expires_at - now
    BY <2>3, <2>4 DEF Granted
  <2> QED
    BY <1>6, <1>7, <1>8, <2>4, <2>5 DEF Interrupted, GoesOn
<1>9. CASE ~(SeatIsUnused(s.row[u], now) /\ ~SeatIsOver(s.row[u], now))
  <2>1. CASE SeatIsOver(s.row[u], now)
    <3>1. e.row[u].state = "idle"
      BY <1>4, <1>5, <2>1
    <3>2. ~SeatIsUnused(e.row[u], now)
      BY <3>1 DEF SeatIsUnused
    <3> HIDE DEF e
    <3>3. b.row[u] = e.row[u]
      BY <1>2, <3>2, BumpRows
    <3> QED
      BY <1>6, <1>7, <1>9, <3>1, <3>3 DEF GoesOn
  <2>2. CASE ~SeatIsOver(s.row[u], now)
    <3>1. e.row[u] = s.row[u] /\ ~SeatIsUnused(e.row[u], now)
      BY <1>4, <1>9, <2>2
    <3> HIDE DEF e
    <3>2. b.row[u] = s.row[u]
      BY <1>2, <3>1, BumpRows
    <3> QED
      BY <1>6, <1>7, <1>9, <3>2 DEF GoesOn
  <2> QED
    BY <2>1, <2>2
<1> QED
  BY <1>8, <1>9

\* The statement in the middle of an operation opens a turn for one who had
\* none, or leaves what is granted as it is; and it makes nobody idle.
LEMMA SaysRows ==
    ASSUME NEW s \in Db, NEW now \in Nat, NEW v \in Users, NEW m \in Db, Says(s, v, now, m),
           \A u \in Seated(s) : Entitled(s.row[u], now), NEW u \in Users
    PROVE  /\ \/ GoesOn(s.row[u], m.row[u])
              \/ Granted(m.row[u]) = SessionMs /\ m.row[u].last_reason = "none" /\ m.row[u].state = "queued"
           /\ ~SeatIsUnused(m.row[u], now)
<1>1. s.row[u] \in Row /\ m.row[u] \in Row /\ s.row[v] \in Row
  BY DEF Db
<1>2. ~SeatIsUnused(s.row[u], now)
  BY <1>1, AccessAssumption DEF Seated, Entitled, SeatIsUnused, Row
<1>3. CASE m.row[u] = s.row[u]
  BY <1>2, <1>3 DEF GoesOn
<1>4. CASE m.row[u] # s.row[u]
  <2>1. CASE m = Enqueued(s, v, now)
    <3>1. u = v
      BY <1>4, <2>1 DEF Enqueued, Db
    <3>2. m.row[u].state = "queued" /\ m.row[u].carry_ms = NULL /\ m.row[u].last_reason = "none"
      BY <2>1, <3>1 DEF Enqueued, Db
    <3> QED
      BY <3>2 DEF Granted, SeatIsUnused
  <2>2. ASSUME NEW present \in BOOLEAN, m = Beaten(s, v, present, now)
        PROVE  GoesOn(s.row[u], m.row[u]) /\ ~SeatIsUnused(m.row[u], now)
    <3> DEFINE active == IF present THEN now ELSE s.row[u].last_active_at
               r == [s.row[v] EXCEPT !.last_seen_at = now,
                                     !.last_active_at = IF present THEN now ELSE @]
    <3>0. m \in {s, [s EXCEPT !.row = [@ EXCEPT ![v] = r]]}
      BY <2>2, BeatenSays
    <3>1. m.row[u] = [s.row[u] EXCEPT !.last_seen_at = now, !.last_active_at = active]
      <4>1. u = v /\ m = [s EXCEPT !.row = [@ EXCEPT ![v] = r]]
        <5> HIDE DEF r
        <5> QED
          BY <1>4, <3>0 DEF Db
      <4>2. m.row[u] = r
        <5> HIDE DEF r
        <5> QED
          BY <4>1 DEF Db
      <4> QED
        BY <4>1, <4>2
    <3>2. active \in Nat
      BY <1>1 DEF Row
    <3>3. active = now \/ active = s.row[u].last_active_at
      OBVIOUS
    <3> HIDE DEF active
    <3>4. /\ m.row[u].state = s.row[u].state /\ m.row[u].expires_at = s.row[u].expires_at
          /\ m.row[u].started_at = s.row[u].started_at /\ m.row[u].carry_ms = s.row[u].carry_ms
          /\ m.row[u].last_reason = s.row[u].last_reason /\ m.row[u].last_active_at = active
      BY <1>1, <3>1, <3>2 DEF Row
    <3>5. GoesOn(s.row[u], m.row[u])
      BY <3>4 DEF GoesOn, Granted
    <3>6. ~SeatIsUnused(m.row[u], now)
      BY <1>1, <1>2, <3>2, <3>3, <3>4, AccessAssumption DEF SeatIsUnused, Row
    <3> QED
      BY <3>5, <3>6
  <2>3. CASE m = GivenUp(s, v)
    <3>1. m.row[u].state = "idle"
      BY <1>4, <2>3, GivenUpLeaves
    <3> QED
      BY <3>1 DEF GoesOn, SeatIsUnused
  <2> QED
    BY <2>1, <2>2, <2>3 DEF Says
<1> QED
  BY <1>3, <1>4

\* What an operation makes of a turn.
LEMMA OperatedRows ==
    ASSUME TypeOK, NEW now \in Nat, Operated(now), NEW u \in Users
    PROVE  \/ Granted(db'.row[u]) = SessionMs /\ db'.row[u].last_reason = "none"
           \/ IF JustBumped(u, now) THEN Interrupted(db.row[u], db'.row[u], now)
              ELSE GoesOn(db.row[u], db'.row[u])
<1>1. PICK s \in Reconciled(db, now) :
        \/ db' = s
        \/ \E v \in Users, m \in Db : Says(s, v, now, m) /\ db' \in Reconciled(m, now)
  BY DEF Operated
<1>2. db \in Db /\ s \in Db
  BY <1>1, ReconciledType DEF TypeOK
<1>3. IF JustBumped(u, now) THEN Interrupted(db.row[u], s.row[u], now) ELSE GoesOn(db.row[u], s.row[u])
  BY <1>1, <1>2, ReconciledRows DEF JustBumped
<1>4. CASE db' = s
  BY <1>3, <1>4
<1>5. ASSUME NEW v \in Users, NEW m \in Db, Says(s, v, now, m), db' \in Reconciled(m, now)
      PROVE  \/ Granted(db'.row[u]) = SessionMs /\ db'.row[u].last_reason = "none"
             \/ IF JustBumped(u, now) THEN Interrupted(db.row[u], db'.row[u], now)
                ELSE GoesOn(db.row[u], db'.row[u])
  <2>1. \A w \in Seated(s) : Entitled(s.row[w], now)
    BY <1>1, <1>2, ReconciledEntitles
  <2>2. /\ \/ GoesOn(s.row[u], m.row[u])
           \/ Granted(m.row[u]) = SessionMs /\ m.row[u].last_reason = "none" /\ m.row[u].state = "queued"
        /\ ~SeatIsUnused(m.row[u], now)
    BY <1>2, <1>5, <2>1, SaysRows
  <2>3. GoesOn(m.row[u], db'.row[u])
    BY <1>5, <2>2, ReconciledRows
  <2> QED
    BY <1>3, <2>2, <2>3 DEF GoesOn, Interrupted
<1> QED
  BY <1>1, <1>4, <1>5

\* Going idle is no way to dodge the hour, however often a turn is interrupted.
THEOREM NoHourIsExtended == HSpec => []HourIsNeverExtended
<1>1. HInit => HourInv
  BY AccessAssumption DEF HInit, Init, NoRow, HourInv
<1>2. TypeOK /\ HourInv /\ [HNext]_hvars => HourInv'
  <2> SUFFICES ASSUME TypeOK, HourInv, [HNext]_hvars
               PROVE  HourInv'
    OBVIOUS
  <2>1. CASE UNCHANGED <<db, asOf, spent>>
    BY <2>1 DEF HourInv
  <2>2. CASE /\ asOf' \in Nat /\ Operated(asOf')
             /\ spent' = [u \in Users |-> SpentAfter(u, asOf')]
    <3> DEFINE now == asOf'
    <3>1. now \in Nat /\ Operated(now) /\ SessionMs \in Nat
      BY <2>2, AccessAssumption
    <3>2. ASSUME NEW u \in Users
          PROVE  /\ spent'[u] \in Int
                 /\ db'.row[u].state # "idle" => spent'[u] + Granted(db'.row[u]) <= SessionMs
                 /\ db'.row[u].last_reason = "none" => spent'[u] = 0
      <4> DEFINE r == db.row[u]
                 q == db'.row[u]
      <4>1. r \in Row /\ spent[u] \in Int /\ spent'[u] = SpentAfter(u, now)
        BY <2>2 DEF TypeOK, Db, HourInv
      <4>2. /\ r.state # "idle" => spent[u] + Granted(r) <= SessionMs
            /\ r.last_reason = "none" => spent[u] = 0
        BY DEF HourInv
      <4>3. \/ Granted(q) = SessionMs /\ q.last_reason = "none"
            \/ IF JustBumped(u, now) THEN Interrupted(r, q, now) ELSE GoesOn(r, q)
        BY <3>1, OperatedRows
      <4>4. JustBumped(u, now) => r.state = "active"
        BY DEF JustBumped, SeatIsUnused
      <4>5. spent'[u] = IF q.last_reason = "none" THEN 0
                        ELSE IF JustBumped(u, now) THEN spent[u] + (now - r.started_at) ELSE spent[u]
        BY <4>1 DEF SpentAfter
      <4>6. r.started_at \in Int /\ r.expires_at \in Int /\ Granted(r) \in Int
        BY <4>1, <3>1 DEF Row, Granted
      <4>7. r.state = "active" => Granted(r) = r.expires_at - r.started_at
        BY DEF Granted
      <4> HIDE DEF r, q, now
      <4>8. spent'[u] \in Int
        BY <3>1, <4>1, <4>5, <4>6
      <4>9. ASSUME q.state # "idle"
            PROVE  spent'[u] + Granted(q) <= SessionMs
        <5>1. CASE Granted(q) = SessionMs /\ q.last_reason = "none"
          BY <3>1, <4>5, <5>1
        <5>2. CASE JustBumped(u, now) /\ Interrupted(r, q, now)
          <6>1. Granted(q) = r.expires_at - now /\ q.last_reason = "idle"
            BY <4>9, <5>2 DEF Interrupted
          <6>2. spent[u] + (r.expires_at - r.started_at) <= SessionMs
            BY <4>2, <4>4, <4>7, <5>2
          <6>3. spent'[u] = spent[u] + (now - r.started_at)
            BY <4>5, <5>2, <6>1
          <6> QED
            BY <3>1, <4>1, <4>6, <6>1, <6>2, <6>3
        <5>3. CASE ~JustBumped(u, now) /\ GoesOn(r, q)
          <6>1. r.state # "idle" /\ Granted(q) = Granted(r) /\ q.last_reason = r.last_reason
            BY <4>9, <5>3 DEF GoesOn
          <6>2. spent'[u] = spent[u]
            BY <4>2, <4>5, <5>3, <6>1
          <6> QED
            BY <4>2, <6>1, <6>2
        <5> QED
          BY <4>3, <5>1, <5>2, <5>3
      <4> QED
        BY <4>5, <4>8, <4>9 DEF q
    <3>3. spent' \in [Users -> Int]
      BY <2>2, <3>2
    <3> QED
      BY <3>2, <3>3 DEF HourInv
  <2> QED
    BY <2>1, <2>2, HistoryIsOperation
<1>3. TypeOK /\ HourInv => HourIsNeverExtended
  <2> SUFFICES ASSUME TypeOK, HourInv, NEW u \in Users
               PROVE  /\ u \in Seated(db) =>
                            spent[u] + (db.row[u].expires_at - db.row[u].started_at) <= SessionMs
                      /\ u \in Waiting(db) => spent[u] + db.row[u].carry_ms <= SessionMs
    BY DEF HourIsNeverExtended
  <2>1. db.row[u] \in Row /\ spent[u] \in Int /\ SessionMs \in Nat
    BY AccessAssumption DEF TypeOK, Db, HourInv
  <2>2. db.row[u].state # "idle" => spent[u] + Granted(db.row[u]) <= SessionMs
    BY DEF HourInv
  <2>3. u \in Waiting(db) => Granted(db.row[u]) \in Int /\ db.row[u].carry_ms <= Granted(db.row[u])
    BY <2>1 DEF Waiting, Granted, Row, NULL
  <2>4. db.row[u].carry_ms \in Nat
    BY <2>1 DEF Row
  <2>5. u \in Seated(db) => Granted(db.row[u]) = db.row[u].expires_at - db.row[u].started_at
    BY DEF Seated, Granted
  <2>6. u \in Seated(db) \cup Waiting(db) => db.row[u].state # "idle"
    BY DEF Seated, Waiting
  <2> QED
    BY <2>1, <2>2, <2>3, <2>4, <2>5, <2>6
<1> QED
  BY <1>1, <1>2, <1>3, HistoryRefines, TypeCorrect, PTL DEF HSpec

-----------------------------------------------------------------------------
(* The place in line.                                                      *)

\* Whoever waits and is there keeps waiting under the same number, or is
\* seated and heard.
LEMMA ReconciledKeeps ==
    ASSUME NEW s \in Db, NEW now \in Nat, NEW t \in Reconciled(s, now), NEW u \in Waiting(s),
           ~HasStoppedWaiting(s.row[u], now)
    PROVE  t.row[u] = s.row[u] \/ t.row[u].state = "active"
<1> DEFINE e == ExpireSeats(s, now)
<1>1. PICK b \in BumpUnused(e, now) : t \in AdmitWaiting(DropAbsent(b, now), now)
  BY DEF Reconciled
<1> DEFINE d == DropAbsent(b, now)
<1>2. e \in Db /\ b \in Db /\ d \in Db /\ t \in Db
  BY <1>1, ExpireType, BumpType, DropType, AdmitType
<1>3. u \in Users /\ s.row[u].state = "queued"
  BY DEF Waiting
<1>4. e.row[u] = s.row[u]
  BY <1>3 DEF ExpireSeats, SeatIsOver, Db
<1> HIDE DEF e
<1>5. b.row[u] = s.row[u]
  BY <1>2, <1>3, <1>4, BumpRows DEF SeatIsUnused
<1>6. d.row[u] = s.row[u]
  BY <1>2, <1>3, <1>5 DEF DropAbsent, Db
<1>7. d.row[u] \in Row
  BY <1>2, <1>3 DEF Db
<1>8. PICK front \in FirstInLine(d, FreeSeats(d)) :
        /\ \A v \in front : t.row[v] = Admitted(d.row[v], now)
        /\ \A v \in Users \ front : t.row[v] = d.row[v]
  BY <1>1, <1>2, AdmitGroups
<1> HIDE DEF d
<1>9. Admitted(d.row[u], now).state = "active"
  BY <1>7 DEF Admitted, Row
<1> QED
  BY <1>3, <1>6, <1>8, <1>9

\* Nobody is in line after a reconcile who was not before it, except for idleness.
LEMMA ReconciledQueues ==
    ASSUME NEW s \in Db, NEW now \in Nat, NEW t \in Reconciled(s, now), NEW u \in Users,
           ~SeatIsUnused(s.row[u], now), t.row[u].state = "queued"
    PROVE  s.row[u].state = "queued" /\ t.row[u].queue_seq = s.row[u].queue_seq
<1> DEFINE e == ExpireSeats(s, now)
<1>1. PICK b \in BumpUnused(e, now) : t \in AdmitWaiting(DropAbsent(b, now), now)
  BY DEF Reconciled
<1> DEFINE d == DropAbsent(b, now)
<1>2. e \in Db /\ b \in Db /\ d \in Db /\ t \in Db
  BY <1>1, ExpireType, BumpType, DropType, AdmitType
<1>3. s.row[u] \in Row /\ b.row[u] \in Row /\ d.row[u] \in Row
  BY <1>2 DEF Db
<1>4. e.row[u] = s.row[u] \/ e.row[u].state = "idle"
  BY <1>3 DEF ExpireSeats, Finished, Row, Db
<1> HIDE DEF e
<1>5. b.row[u] = e.row[u]
  <2>1. ~SeatIsUnused(e.row[u], now)
    BY <1>4 DEF SeatIsUnused
  <2> QED
    BY <1>2, <2>1, BumpRows
<1>6. d.row[u] = b.row[u] \/ d.row[u].state = "idle"
  BY <1>2, <1>3 DEF DropAbsent, Row, Db
<1>7. PICK front \in FirstInLine(d, FreeSeats(d)) :
        /\ \A v \in front : t.row[v] = Admitted(d.row[v], now)
        /\ \A v \in Users \ front : t.row[v] = d.row[v]
  BY <1>1, <1>2, AdmitGroups
<1> HIDE DEF d
<1>8. Admitted(d.row[u], now).state = "active"
  BY <1>3 DEF Admitted, Row
<1> QED
  BY <1>4, <1>5, <1>6, <1>7, <1>8

LEMMA OperatedKeeps ==
    ASSUME TypeOK, NEW now \in Nat, Operated(now),
           NEW u \in Waiting(db), u \in Waiting(db'), ~HasStoppedWaiting(db.row[u], now)
    PROVE  db'.row[u].queue_seq = db.row[u].queue_seq
<1>1. PICK s \in Reconciled(db, now) :
        \/ db' = s
        \/ \E v \in Users, m \in Db : Says(s, v, now, m) /\ db' \in Reconciled(m, now)
  BY DEF Operated
<1>2. db \in Db /\ s \in Db /\ u \in Users /\ db'.row[u].state = "queued"
  BY <1>1, ReconciledType DEF TypeOK, Waiting
<1>3. s.row[u] = db.row[u] \/ s.row[u].state = "active"
  BY <1>1, <1>2, ReconciledKeeps
<1>4. CASE db' = s
  BY <1>2, <1>3, <1>4
<1>5. ASSUME NEW v \in Users, NEW m \in Db, Says(s, v, now, m), db' \in Reconciled(m, now)
      PROVE  db'.row[u].queue_seq = db.row[u].queue_seq
  <2>1. \A w \in Seated(s) : Entitled(s.row[w], now)
    BY <1>1, <1>2, ReconciledEntitles
  <2>2. ~SeatIsUnused(m.row[u], now)
    BY <1>2, <1>5, <2>1, SaysRows
  <2>3. m.row[u].state = "queued" /\ db'.row[u].queue_seq = m.row[u].queue_seq
    BY <1>2, <1>5, <2>2, ReconciledQueues
  <2>4. s.row[u] \in Row /\ s.row[u].state # "idle"
    BY <1>2, <1>3 DEF Db, Waiting
  <2>5. s.row[u].state = "queued" /\ m.row[u].queue_seq = s.row[u].queue_seq
    <3>1. CASE s.row[v].state = "idle" /\ m = Enqueued(s, v, now)
      <4>1. m.row[u] = s.row[u]
        BY <1>2, <2>4, <3>1 DEF Enqueued, Db
      <4> QED
        BY <2>3, <4>1
    <3>2. ASSUME NEW present \in BOOLEAN, m = Beaten(s, v, present, now)
          PROVE  s.row[u].state = "queued" /\ m.row[u].queue_seq = s.row[u].queue_seq
      <4>1. m.row[u].state = s.row[u].state /\ m.row[u].queue_seq = s.row[u].queue_seq
        BY <1>2, <2>4, <3>2 DEF Beaten, Db, Row
      <4> QED
        BY <2>3, <4>1
    <3>3. CASE m = GivenUp(s, v)
      <4>1. m.row[u] = s.row[u] \/ m.row[u].state = "idle"
        BY <1>2, <2>4, <3>3 DEF GivenUp, Finished, Db, Row
      <4> QED
        BY <2>3, <4>1
    <3> QED
      BY <1>5, <3>1, <3>2, <3>3 DEF Says
  <2> QED
    BY <1>3, <2>3, <2>5
<1> QED
  BY <1>1, <1>4, <1>5

\* The place somebody who is there is shown never gets worse.
THEOREM PlacesOnlyImprove == HSpec => PlaceNeverWorsens
<1>1. TypeOK /\ LineIsOrdered /\ [HNext]_hvars =>
        [\A u \in Waiting(db) \cap Waiting(db)' :
            ~HasStoppedWaiting(db.row[u], asOf') => Position(db', u) <= Position(db, u)]_hvars
  <2> SUFFICES ASSUME TypeOK, LineIsOrdered, [HNext]_hvars, ~UNCHANGED hvars,
                      NEW u \in Waiting(db), u \in Waiting(db'), ~HasStoppedWaiting(db.row[u], asOf')
               PROVE  Position(db', u) <= Position(db, u)
    BY DEF Waiting
  <2>1. CASE UNCHANGED db
    <3>1. Position(db', u) = Position(db, u)
      BY <2>1
    <3>2. Position(db, u) \in Nat
      <4>1. IsFiniteSet({v \in Waiting(db) : db.row[v].queue_seq < db.row[u].queue_seq})
        BY FiniteGroups, FS_Subset
      <4> QED
        BY <4>1, FS_CardinalityType DEF Position, NULL
    <3> QED
      BY <3>1, <3>2
  <2>2. CASE asOf' \in Nat /\ Operated(asOf')
    <3> DEFINE ahead == {v \in Waiting(db) : db.row[v].queue_seq < db.row[u].queue_seq}
               left  == {v \in Waiting(db') : db'.row[v].queue_seq < db'.row[u].queue_seq}
    <3>1. db'.row[u].queue_seq = db.row[u].queue_seq
      BY <2>2, OperatedKeeps
    <3>2. db.row[u].queue_seq \in 1 .. (db.nextSeq - 1)
      BY DEF LineIsOrdered, LineOrdered
    <3>3. LineIsOrdered' /\ NumbersKept(db, db')
      <4>1. [Next]_vars
        BY DEF HNext, HTick, HStatus, HRequest, HHeartbeat, HRelease, Next, hvars, vars
      <4> QED
        BY <4>1, LineStep
    <3>4. left \subseteq ahead
      <4> SUFFICES ASSUME NEW v \in left PROVE v \in ahead
        OBVIOUS
      <4>1. v \in Waiting(db') /\ db'.row[v].queue_seq \in Nat /\ db.nextSeq \in Nat
        BY <3>3 DEF LineIsOrdered, LineOrdered, TypeOK, Db
      <4> QED
        BY <3>1, <3>2, <3>3, <4>1 DEF NumbersKept
    <3>5. IsFiniteSet(ahead) /\ IsFiniteSet(left)
      BY FiniteGroups, FS_Subset
    <3>6. Cardinality(left) <= Cardinality(ahead) /\ Cardinality(left) \in Nat /\ Cardinality(ahead) \in Nat
      BY <3>4, <3>5, FS_Subset, FS_CardinalityType
    <3>7. Position(db, u) = Cardinality(ahead) + 1 /\ Position(db', u) = Cardinality(left) + 1
      BY DEF Position, Waiting
    <3> QED
      BY <3>6, <3>7
  <2> QED
    BY <2>1, <2>2, HistoryIsOperation
<1> QED
  BY <1>1, HistoryRefines, TypeCorrect, LineStaysOrdered, PTL DEF HSpec, PlaceNeverWorsens

-----------------------------------------------------------------------------
(* The promise of SeatService.                                             *)

Present(s) == Seated(s) \cup Waiting(s)

\* Some of those present in s left, and some left their seat for a place in
\* line under a number nobody has drawn.
Swept(s, b) ==
    /\ Seated(b) \subseteq Seated(s)
    /\ Waiting(b) \subseteq Present(s)
    /\ \A u \in Waiting(b) :
          IF u \in Waiting(s) THEN b.row[u].queue_seq = s.row[u].queue_seq
                              ELSE b.row[u].queue_seq >= s.nextSeq

\* Some at the head of b's line sit in t, and nothing else moved.
Filled(b, t) ==
    /\ t.nextSeq = b.nextSeq
    /\ Seated(b) \subseteq Seated(t)
    /\ Waiting(t) \subseteq Waiting(b)
    /\ Present(t) = Present(b)
    /\ \A v \in Waiting(t) : t.row[v].queue_seq = b.row[v].queue_seq
    /\ \A u \in Waiting(b) \ Waiting(t), v \in Waiting(t) :
          b.row[u].queue_seq < b.row[v].queue_seq

\* The table a turn comes to before it fills any seat: s after it was swept, with
\* one newcomer behind everybody or with none.
Rearranged(s, w) ==
    \E b \in Db :
        /\ LineOrdered(b)
        /\ Swept(s, b)
        /\ \/ w = b
           \/ \E u \in Users \ Present(b), now \in Nat : w = Enqueued(b, u, now)

\* A reconcile at `now` would take no seat and no place from anybody.
Fresh(s, now) ==
    \A u \in Users : /\ ~SeatIsOver(s.row[u], now)
                     /\ ~SeatIsUnused(s.row[u], now)
                     /\ ~HasStoppedWaiting(s.row[u], now)

LEMMA Apart ==
    ASSUME NEW s
    PROVE  /\ Seated(s) \cap Waiting(s) = {}
           /\ Seated(s) \subseteq Users /\ Waiting(s) \subseteq Users
BY DEF Seated, Waiting

\* Who waits ahead of whom.
LEMMA AheadIs ==
    ASSUME NEW s
    PROVE  /\ Ahead(s) \subseteq Waiting(s) \X Waiting(s)
           /\ \A u, v \in Waiting(s) :
                 <<u, v>> \in Ahead(s) <=> s.row[u].queue_seq < s.row[v].queue_seq
BY DEF Ahead

LEMMA AdmitIsFilled ==
    ASSUME NEW s \in Db, NEW now \in Nat, NEW t \in AdmitWaiting(s, now)
    PROVE  Filled(s, t)
<1>1. PICK front \in FirstInLine(s, FreeSeats(s)) :
        /\ Seated(t) = Seated(s) \cup front
        /\ Waiting(t) = Waiting(s) \ front
        /\ t.nextSeq = s.nextSeq
        /\ \A u \in Users \ front : t.row[u] = s.row[u]
  BY AdmitGroups
<1>2. /\ front \subseteq Waiting(s)
      /\ \A u \in front, v \in Waiting(s) \ front : s.row[u].queue_seq < s.row[v].queue_seq
  BY DEF FirstInLine
<1>3. Waiting(t) \subseteq Users \ front
  BY <1>1, Apart
<1> QED
  BY <1>1, <1>2, <1>3 DEF Filled, Present

\* Filling seats and then filling seats is filling seats.
LEMMA FilledChain ==
    ASSUME NEW b, NEW s, NEW t, Filled(b, s), Filled(s, t)
    PROVE  Filled(b, t)
<1>1. ASSUME NEW u \in Waiting(b) \ Waiting(t), NEW v \in Waiting(t)
      PROVE  b.row[u].queue_seq < b.row[v].queue_seq
  <2>1. v \in Waiting(s) /\ v \in Waiting(b)
    BY DEF Filled
  <2>2. CASE u \in Waiting(s)
    BY <2>1, <2>2 DEF Filled
  <2>3. CASE u \notin Waiting(s)
    BY <2>1, <2>3 DEF Filled
  <2> QED
    BY <2>2, <2>3
<1> QED
  BY <1>1 DEF Filled

LEMMA SweepIsSwept ==
    ASSUME NEW s \in Db, NEW now \in Nat, LineOrdered(s),
           NEW b \in BumpUnused(ExpireSeats(s, now), now)
    PROVE  LET d == DropAbsent(b, now)
           IN  d \in Db /\ LineOrdered(d) /\ Swept(s, d)
<1> DEFINE e == ExpireSeats(s, now)
           d == DropAbsent(b, now)
           left(u) == [b.row[u] EXCEPT !.state = "idle", !.queue_seq = NULL]
<1>1. e \in Db /\ b \in Db /\ d \in Db
  BY ExpireType, BumpType, DropType
<1>2. LineOrdered(d)
  BY <1>1, ExpireLine, BumpLine, DropLine
<1>3. \A u \in Users : s.row[u] \in Row /\ b.row[u] \in Row
  BY <1>1 DEF Db
<1>4. \A u \in Users : Finished(s.row[u]).state = "idle" /\ left(u).state = "idle"
  BY <1>3 DEF Finished, Row
<1>5. e.nextSeq = s.nextSeq /\ \A u \in Users : e.row[u] \in {s.row[u], Finished(s.row[u])}
  BY DEF ExpireSeats, Db
<1>6. \A u \in Users : d.row[u] \in {b.row[u], left(u)}
  BY <1>1 DEF DropAbsent, Db
<1> HIDE DEF e, left
<1>7. \A u \in Users :
        \/ b.row[u] = e.row[u]
        \/ /\ e.row[u].state = "active" /\ b.row[u].state = "queued"
           /\ b.row[u].queue_seq >= e.nextSeq
  <2>1. e.nextSeq \in Nat /\ \A u \in Users : e.row[u] \in Row
    BY <1>1 DEF Db
  <2>2. /\ b.nextSeq \in Nat
        /\ \A u \in Users :
              IF SeatIsUnused(e.row[u], now)
              THEN b.row[u].state = "queued" /\ b.row[u].queue_seq \in e.nextSeq..(b.nextSeq - 1)
              ELSE b.row[u] = e.row[u]
    BY <1>1, BumpRows DEF e
  <2> QED
    BY <2>1, <2>2 DEF SeatIsUnused
<1> HIDE DEF d
<1>8. ASSUME NEW u \in Users, d.row[u].state # "idle"
      PROVE  \/ d.row[u] = s.row[u]
             \/ /\ s.row[u].state = "active" /\ d.row[u].state = "queued"
                /\ d.row[u].queue_seq >= s.nextSeq
  <2>1. d.row[u] = b.row[u]
    BY <1>4, <1>6, <1>8
  <2>2. e.row[u] = s.row[u]
    BY <1>4, <1>5, <1>7, <1>8, <2>1
  <2> QED
    BY <1>5, <1>7, <2>1, <2>2
<1>9. Swept(s, d)
  BY <1>8 DEF Swept, Present, Seated, Waiting
<1> QED
  BY <1>1, <1>2, <1>9 DEF d

\* A reconcile sweeps, and then it fills.
LEMMA ReconcileIsATurn ==
    ASSUME NEW s \in Db, NEW now \in Nat, NEW t \in Reconciled(s, now), LineOrdered(s)
    PROVE  \E b \in Db : LineOrdered(b) /\ Swept(s, b) /\ Filled(b, t)
<1>1. PICK b \in BumpUnused(ExpireSeats(s, now), now) : t \in AdmitWaiting(DropAbsent(b, now), now)
  BY DEF Reconciled
<1>2. /\ DropAbsent(b, now) \in Db
      /\ LineOrdered(DropAbsent(b, now)) /\ Swept(s, DropAbsent(b, now))
  BY SweepIsSwept
<1> QED
  BY <1>1, <1>2, AdmitIsFilled

\* What a reconcile leaves, it would leave again.
LEMMA ReconcileIsFresh ==
    ASSUME NEW s \in Db, NEW now \in Nat, NEW t \in Reconciled(s, now)
    PROVE  Fresh(t, now)
<1>1. PICK b \in BumpUnused(ExpireSeats(s, now), now) : t \in AdmitWaiting(DropAbsent(b, now), now)
  BY DEF Reconciled
<1> DEFINE d == DropAbsent(b, now)
<1>2. b \in Db /\ d \in Db /\ t \in Db
  BY <1>1, ExpireType, BumpType, DropType, AdmitType
<1> SUFFICES ASSUME NEW u \in Users
             PROVE  /\ ~SeatIsOver(t.row[u], now)
                    /\ ~SeatIsUnused(t.row[u], now)
                    /\ ~HasStoppedWaiting(t.row[u], now)
  BY DEF Fresh
<1>3. t.row[u] \in Row /\ d.row[u] \in Row /\ b.row[u] \in Row
  BY <1>2 DEF Db
<1>4. ~SeatIsOver(t.row[u], now) /\ ~SeatIsUnused(t.row[u], now)
  <2>1. t.row[u].state = "active" => Entitled(t.row[u], now)
    BY ReconciledEntitles DEF Seated
  <2> QED
    BY <1>3, <2>1, AccessAssumption DEF SeatIsOver, SeatIsUnused, Entitled, Row
<1>5. ~HasStoppedWaiting(d.row[u], now)
  BY <1>2, <1>3 DEF DropAbsent, HasStoppedWaiting, Db, Row
<1>6. PICK front \in FirstInLine(d, FreeSeats(d)) :
        /\ \A v \in front : t.row[v] = Admitted(d.row[v], now)
        /\ \A v \in Users \ front : t.row[v] = d.row[v]
  BY <1>1, <1>2, AdmitGroups
<1> HIDE DEF d
<1>7. Admitted(d.row[u], now).state = "active"
  BY <1>3 DEF Admitted, Row
<1>8. ~HasStoppedWaiting(t.row[u], now)
  BY <1>5, <1>6, <1>7 DEF HasStoppedWaiting
<1> QED
  BY <1>4, <1>8

\* A reconcile of a fresh table only fills.
LEMMA FreshIsFilled ==
    ASSUME NEW s \in Db, NEW now \in Nat, Fresh(s, now), NEW t \in Reconciled(s, now)
    PROVE  Filled(s, t)
<1> DEFINE e == ExpireSeats(s, now)
<1>1. PICK b \in BumpUnused(e, now) : t \in AdmitWaiting(DropAbsent(b, now), now)
  BY DEF Reconciled
<1> DEFINE d == DropAbsent(b, now)
<1>2. e \in Db /\ b \in Db /\ d \in Db
  BY <1>1, ExpireType, BumpType, DropType
<1>3. e.nextSeq = s.nextSeq /\ \A u \in Users : e.row[u] = s.row[u]
  BY DEF Fresh, ExpireSeats, Db
<1>4. b.nextSeq = e.nextSeq
  <2>1. {u \in Users : SeatIsUnused(e.row[u], now)} = {}
    BY <1>3 DEF Fresh
  <2>2. Cardinality({u \in Users : SeatIsUnused(e.row[u], now)}) = 0
    BY <2>1, FS_EmptySet
  <2>3. b.nextSeq = e.nextSeq + Cardinality({u \in Users : SeatIsUnused(e.row[u], now)})
    BY DEF BumpUnused
  <2>4. e.nextSeq \in Nat
    BY <1>2 DEF Db
  <2> QED
    BY <2>2, <2>3, <2>4
<1>5. \A u \in Users : b.row[u] = s.row[u]
  BY <1>2, <1>3, BumpRows DEF Fresh
<1>6. d.nextSeq = b.nextSeq /\ \A u \in Users : d.row[u] = s.row[u]
  BY <1>2, <1>5 DEF Fresh, DropAbsent, Db
<1>7. Filled(d, t)
  BY <1>1, <1>2, AdmitIsFilled
<1> HIDE DEF d, e
<1>8. Seated(d) = Seated(s) /\ Waiting(d) = Waiting(s)
  BY <1>6 DEF Seated, Waiting
<1> QED
  BY <1>3, <1>4, <1>6, <1>7, <1>8, Apart DEF Filled, Present

\* The statement of an operation leaves everybody who is there heard from, so the
\* second reconcile takes nothing from anybody.
LEMMA SaysFresh ==
    ASSUME NEW s \in Db, NEW now \in Nat, NEW u \in Users, NEW m \in Db, Says(s, u, now, m),
           Fresh(s, now)
    PROVE  Fresh(m, now)
<1> SUFFICES ASSUME NEW v \in Users
             PROVE  /\ ~SeatIsOver(m.row[v], now)
                    /\ ~SeatIsUnused(m.row[v], now)
                    /\ ~HasStoppedWaiting(m.row[v], now)
  BY DEF Fresh
<1>1. s.row[v] \in Row /\ m.row[v] \in Row
  BY DEF Db
<1>2. CASE m.row[v] = s.row[v]
  BY <1>2 DEF Fresh
<1>3. CASE m.row[v].state = "idle"
  BY <1>3 DEF SeatIsOver, SeatIsUnused, HasStoppedWaiting
<1>4. CASE m = Enqueued(s, u, now)
  <2>1. m.row[v] = s.row[v] \/ (m.row[v].state = "queued" /\ m.row[v].last_seen_at = now)
    BY <1>4 DEF Enqueued, Db
  <2> QED
    BY <1>2, <2>1, AccessAssumption DEF SeatIsOver, SeatIsUnused, HasStoppedWaiting
<1>5. ASSUME NEW present \in BOOLEAN, m = Beaten(s, u, present, now), m.row[v] # s.row[v]
      PROVE  /\ ~SeatIsOver(m.row[v], now)
             /\ ~SeatIsUnused(m.row[v], now)
             /\ ~HasStoppedWaiting(m.row[v], now)
  <2> DEFINE active == IF present THEN now ELSE s.row[u].last_active_at
             r == [s.row[u] EXCEPT !.last_seen_at = now,
                                   !.last_active_at = IF present THEN now ELSE @]
  <2>1. m \in {s, [s EXCEPT !.row = [@ EXCEPT ![u] = r]]}
    BY <1>5, BeatenSays
  <2> HIDE DEF r
  <2>2. v = u /\ m.row[v] = r
    BY <1>5, <2>1 DEF Db
  <2> USE DEF r
  <2>3. m.row[v] = [s.row[v] EXCEPT !.last_seen_at = now, !.last_active_at = active]
    BY <2>2
  <2>4. active = now \/ active = s.row[v].last_active_at
    BY <2>2
  <2> HIDE DEF active, r
  <2>5. /\ m.row[v].state = s.row[v].state /\ m.row[v].expires_at = s.row[v].expires_at
        /\ m.row[v].last_seen_at = now /\ m.row[v].last_active_at = active
    BY <1>1, <2>3 DEF Row
  <2> QED
    BY <1>1, <2>4, <2>5, AccessAssumption DEF Fresh, SeatIsOver, SeatIsUnused, HasStoppedWaiting, Row
<1>6. CASE m = GivenUp(s, u)
  BY <1>2, <1>3, <1>6, GivenUpLeaves
<1> QED
  BY <1>2, <1>4, <1>5, <1>6 DEF Says

\* A heartbeat changes who is heard from, and neither seats nor line.
LEMMA BeatenIsFilled ==
    ASSUME NEW s \in Db, NEW now \in Nat, NEW u \in Users, NEW present \in BOOLEAN
    PROVE  Filled(s, Beaten(s, u, present, now))
<1> DEFINE m == Beaten(s, u, present, now)
<1>1. /\ m.nextSeq = s.nextSeq
      /\ \A v \in Users : /\ m.row[v].state = s.row[v].state
                          /\ m.row[v].queue_seq = s.row[v].queue_seq
  BY DEF Beaten, Db, Row
<1> HIDE DEF m
<1>2. Seated(m) = Seated(s) /\ Waiting(m) = Waiting(s)
  BY <1>1 DEF Seated, Waiting
<1>3. Filled(s, m)
  BY <1>1, <1>2, Apart DEF Filled, Present
<1> QED
  BY <1>3 DEF m

\* Who gives up a seat or a place is there no more; nobody else notices.
LEMMA GivenUpGroups ==
    ASSUME NEW s \in Db, NEW u \in Users
    PROVE  LET m == GivenUp(s, u)
           IN  /\ m.nextSeq = s.nextSeq
               /\ Seated(m) = Seated(s) \ {u}
               /\ Waiting(m) = Waiting(s) \ {u}
               /\ \A v \in Users \ {u} : m.row[v] = s.row[v]
<1> DEFINE m == GivenUp(s, u)
           f == Finished(s.row[u])
           r == [s.row[u] EXCEPT !.state = "idle", !.queue_seq = NULL, !.carry_ms = NULL]
<1>1. s.row[u] \in Row
  BY DEF Db
<1>2. f.state = "idle" /\ r.state = "idle"
  BY <1>1 DEF Finished, Row
<1>3. m \in {s, [s EXCEPT !.row = [@ EXCEPT ![u] = f]], [s EXCEPT !.row = [@ EXCEPT ![u] = r]]}
  BY GivenUpSays
<1>4. m = s => s.row[u].state \notin {"active", "queued"}
  <2> SUFFICES ASSUME m = s PROVE s.row[u].state \notin {"active", "queued"}
    OBVIOUS
  <2>1. m.row[u].state = s.row[u].state
    OBVIOUS
  <2>2. s.row[u].state = "active" => m = [s EXCEPT !.row[u] = f]
    BY DEF GivenUp
  <2>3. s.row[u].state = "queued" =>
          m = [s EXCEPT !.row[u].state = "idle", !.row[u].queue_seq = NULL, !.row[u].carry_ms = NULL]
    BY DEF GivenUp
  <2>4. s.row[u].state = "active" => m.row[u] = f
    <3> HIDE DEF m, f
    <3> QED
      BY <2>2 DEF Db
  <2>5. s.row[u].state = "queued" => m.row[u].state = "idle"
    <3> SUFFICES ASSUME s.row[u].state = "queued" PROVE m.row[u].state = "idle"
      OBVIOUS
    <3>0. s.row \in [Users -> Row]
      BY DEF Db
    <3>1. m = [s EXCEPT !.row = [@ EXCEPT ![u] = r]]
      <4>1. [s EXCEPT !.row[u].state = "idle", !.row[u].queue_seq = NULL, !.row[u].carry_ms = NULL]
              = [s EXCEPT !.row = [@ EXCEPT ![u] = r]]
        BY <1>1, <3>0 DEF Db, Row
      <4> HIDE DEF m, r
      <4> QED
        BY <2>3, <4>1
    <3> HIDE DEF m, r
    <3>2. m.row[u] = r
      BY <3>1 DEF Db
    <3> QED
      BY <1>2, <3>2
  <2> QED
    BY <1>2, <2>1, <2>4, <2>5
<1> HIDE DEF m, f, r
<1>5. m.nextSeq = s.nextSeq /\ \A v \in Users \ {u} : m.row[v] = s.row[v]
  BY <1>3 DEF Db
<1>6. m.row[u].state = "idle" \/ m = s
  BY <1>2, <1>3 DEF Db
<1>7. u \notin Seated(m) /\ u \notin Waiting(m)
  BY <1>4, <1>6 DEF Seated, Waiting
<1>8. Seated(m) = Seated(s) \ {u} /\ Waiting(m) = Waiting(s) \ {u}
  BY <1>5, <1>7 DEF Seated, Waiting
<1> QED
  BY <1>5, <1>8 DEF m

\* Leaving before the seats were filled comes to the same as leaving after.
LEMMA GivenUpFilled ==
    ASSUME NEW b \in Db, NEW s \in Db, NEW u \in Users, Filled(b, s)
    PROVE  Filled(GivenUp(b, u), GivenUp(s, u))
<1> DEFINE c == GivenUp(b, u)
           m == GivenUp(s, u)
<1>1. /\ c.nextSeq = b.nextSeq /\ Seated(c) = Seated(b) \ {u} /\ Waiting(c) = Waiting(b) \ {u}
      /\ \A v \in Users \ {u} : c.row[v] = b.row[v]
  BY GivenUpGroups
<1>2. /\ m.nextSeq = s.nextSeq /\ Seated(m) = Seated(s) \ {u} /\ Waiting(m) = Waiting(s) \ {u}
      /\ \A v \in Users \ {u} : m.row[v] = s.row[v]
  BY GivenUpGroups
<1> HIDE DEF c, m
<1>3. Waiting(b) \subseteq Users /\ Waiting(s) \subseteq Users
  BY Apart
<1>4. Seated(c) \subseteq Seated(m) /\ Waiting(m) \subseteq Waiting(c) /\ Present(m) = Present(c)
  BY <1>1, <1>2 DEF Filled, Present
<1>5. \A v \in Waiting(m) : m.row[v].queue_seq = c.row[v].queue_seq
  BY <1>1, <1>2, <1>3 DEF Filled
<1>6. ASSUME NEW v \in Waiting(c) \ Waiting(m), NEW w \in Waiting(m)
      PROVE  c.row[v].queue_seq < c.row[w].queue_seq
  <2>1. v \in Waiting(b) \ Waiting(s) /\ w \in Waiting(s) /\ w \in Waiting(b) /\ v # u /\ w # u
    BY <1>1, <1>2 DEF Filled
  <2>2. b.row[v].queue_seq < b.row[w].queue_seq
    BY <2>1 DEF Filled
  <2> QED
    BY <1>1, <1>3, <2>1, <2>2
<1> QED
  BY <1>1, <1>2, <1>4, <1>5, <1>6 DEF Filled, c, m

LEMMA GivenUpSwept ==
    ASSUME NEW s \in Db, NEW b \in Db, NEW u \in Users, Swept(s, b), LineOrdered(b)
    PROVE  GivenUp(b, u) \in Db /\ LineOrdered(GivenUp(b, u)) /\ Swept(s, GivenUp(b, u))
<1> DEFINE c == GivenUp(b, u)
<1>1. /\ c.nextSeq = b.nextSeq /\ Seated(c) = Seated(b) \ {u} /\ Waiting(c) = Waiting(b) \ {u}
      /\ \A v \in Users \ {u} : c.row[v] = b.row[v]
  BY GivenUpGroups
<1>2. c \in Db
  BY GivenUpType
<1> HIDE DEF c
<1>3. Waiting(b) \subseteq Users
  BY Apart
<1>4. \A v \in Waiting(c) : v \in Waiting(b) /\ c.row[v] = b.row[v]
  BY <1>1, <1>3
<1>5. LineOrdered(c)
  BY <1>1, <1>4 DEF LineOrdered
<1>6. Swept(s, c)
  BY <1>1, <1>4 DEF Swept
<1> QED
  BY <1>2, <1>5, <1>6 DEF c

\* What a newcomer changes.
LEMMA EnqueuedGroups ==
    ASSUME NEW s \in Db, NEW u \in Users, u \notin Present(s), NEW now \in Nat
    PROVE  LET m == Enqueued(s, u, now)
           IN  /\ m.nextSeq = s.nextSeq + 1
               /\ Seated(m) = Seated(s)
               /\ Waiting(m) = Waiting(s) \cup {u}
               /\ m.row[u].queue_seq = s.nextSeq
               /\ \A v \in Users \ {u} : m.row[v] = s.row[v]
<1> DEFINE m == Enqueued(s, u, now)
<1>1. /\ m.nextSeq = s.nextSeq + 1
      /\ m.row[u].state = "queued" /\ m.row[u].queue_seq = s.nextSeq
      /\ \A v \in Users \ {u} : m.row[v] = s.row[v]
  BY DEF Enqueued, Db
<1> HIDE DEF m
<1>2. Seated(m) = Seated(s) /\ Waiting(m) = Waiting(s) \cup {u}
  BY <1>1 DEF Seated, Waiting, Present
<1> QED
  BY <1>1, <1>2 DEF m

\* A newcomer is behind everybody, so joining before the seats are filled comes to
\* the same as joining after.
LEMMA EnqueuedFilled ==
    ASSUME NEW b \in Db, NEW s \in Db, NEW u \in Users, NEW now \in Nat,
           u \notin Present(s), Filled(b, s), LineOrdered(b)
    PROVE  Filled(Enqueued(b, u, now), Enqueued(s, u, now))
<1> DEFINE c == Enqueued(b, u, now)
           m == Enqueued(s, u, now)
<1>1. u \notin Present(b)
  BY DEF Filled
<1>2. /\ c.nextSeq = b.nextSeq + 1 /\ Seated(c) = Seated(b) /\ Waiting(c) = Waiting(b) \cup {u}
      /\ c.row[u].queue_seq = b.nextSeq /\ \A v \in Users \ {u} : c.row[v] = b.row[v]
  BY <1>1, EnqueuedGroups
<1>3. /\ m.nextSeq = s.nextSeq + 1 /\ Seated(m) = Seated(s) /\ Waiting(m) = Waiting(s) \cup {u}
      /\ m.row[u].queue_seq = s.nextSeq /\ \A v \in Users \ {u} : m.row[v] = s.row[v]
  BY EnqueuedGroups
<1> HIDE DEF c, m
<1>4. /\ Waiting(b) \subseteq Users \ {u} /\ Waiting(s) \subseteq Users \ {u}
  BY <1>1, Apart DEF Present
<1>5. Seated(c) \subseteq Seated(m) /\ Waiting(m) \subseteq Waiting(c) /\ Present(m) = Present(c)
  BY <1>2, <1>3 DEF Filled, Present
<1>6. m.nextSeq = c.nextSeq /\ \A v \in Waiting(m) : m.row[v].queue_seq = c.row[v].queue_seq
  BY <1>2, <1>3, <1>4 DEF Filled
<1>7. ASSUME NEW v \in Waiting(c) \ Waiting(m), NEW w \in Waiting(m)
      PROVE  c.row[v].queue_seq < c.row[w].queue_seq
  <2>1. v \in Waiting(b) \ Waiting(s) /\ v \in Users \ {u}
    BY <1>2, <1>3, <1>4
  <2>2. CASE w = u
    <3>1. b.row[v].queue_seq \in 1..(b.nextSeq - 1) /\ b.nextSeq \in Nat
      BY <2>1 DEF LineOrdered, Db
    <3> QED
      BY <1>2, <2>1, <2>2, <3>1
  <2>3. CASE w # u
    <3>1. w \in Waiting(s) /\ w \in Users \ {u}
      BY <1>3, <1>4, <2>3
    <3>2. b.row[v].queue_seq < b.row[w].queue_seq
      BY <2>1, <3>1 DEF Filled
    <3> QED
      BY <1>2, <2>1, <3>1, <3>2
  <2> QED
    BY <2>2, <2>3
<1> QED
  BY <1>5, <1>6, <1>7 DEF Filled, c, m

\* Whatever an operation does between its reconciles, it might have done before it
\* filled any seat.
LEMMA SaysIsFilled ==
    ASSUME NEW r \in Db, NEW b \in Db, NEW s \in Db, NEW now \in Nat, NEW u \in Users, NEW m,
           LineOrdered(b), Swept(r, b), Filled(b, s), Says(s, u, now, m)
    PROVE  \E w : Rearranged(r, w) /\ Filled(w, m)
<1>1. Rearranged(r, b)
  BY DEF Rearranged
<1>2. CASE s.row[u].state = "idle" /\ m = Enqueued(s, u, now)
  <2>1. u \notin Present(s) /\ u \notin Present(b)
    BY <1>2 DEF Present, Seated, Waiting, Filled
  <2>2. Filled(Enqueued(b, u, now), m)
    BY <1>2, <2>1, EnqueuedFilled
  <2>3. Rearranged(r, Enqueued(b, u, now))
    BY <2>1 DEF Rearranged
  <2> QED
    BY <2>2, <2>3
<1>3. ASSUME NEW present \in BOOLEAN, m = Beaten(s, u, present, now)
      PROVE  Filled(b, m)
  BY <1>3, BeatenIsFilled, FilledChain
<1>4. CASE m = GivenUp(s, u)
  <2>1. Filled(GivenUp(b, u), m)
    BY <1>4, GivenUpFilled
  <2>2. Rearranged(r, GivenUp(b, u))
    BY GivenUpSwept DEF Rearranged
  <2> QED
    BY <2>1, <2>2
<1> QED
  BY <1>1, <1>2, <1>3, <1>4 DEF Says

\* Every operation rearranges the table and then fills the seats.
LEMMA OperationIsATurn ==
    ASSUME TypeOK, LineIsOrdered, NEW now \in Nat, Operated(now)
    PROVE  db' \in Db /\ \E w : Rearranged(db, w) /\ Filled(w, db')
<1>1. PICK s \in Reconciled(db, now) :
        \/ db' = s
        \/ \E u \in Users, m \in Db : Says(s, u, now, m) /\ db' \in Reconciled(m, now)
  BY DEF Operated
<1>2. db \in Db /\ s \in Db /\ LineOrdered(db)
  BY <1>1, ReconciledType DEF TypeOK, LineIsOrdered
<1>3. PICK b \in Db : LineOrdered(b) /\ Swept(db, b) /\ Filled(b, s)
  BY <1>1, <1>2, ReconcileIsATurn
<1>4. CASE db' = s
  BY <1>2, <1>3, <1>4 DEF Rearranged
<1>5. ASSUME NEW u \in Users, NEW m \in Db, Says(s, u, now, m), db' \in Reconciled(m, now)
      PROVE  db' \in Db /\ \E w : Rearranged(db, w) /\ Filled(w, db')
  <2>1. PICK w : Rearranged(db, w) /\ Filled(w, m)
    BY <1>2, <1>3, <1>5, SaysIsFilled
  <2>2. Fresh(m, now)
    BY <1>1, <1>2, <1>5, ReconcileIsFresh, SaysFresh
  <2>3. db' \in Db /\ Filled(m, db')
    BY <1>5, <2>2, ReconciledType, FreshIsFilled
  <2> QED
    BY <2>1, <2>3, FilledChain
<1> QED
  BY <1>1, <1>4, <1>5

\* What a turn of SeatService needs to know of the table that is rearranged: who
\* joins, and that nobody else moved.
LEMMA RearrangedGroups ==
    ASSUME NEW s \in Db, NEW w, Rearranged(s, w)
    PROVE  \E b \in Db : \E joins \in {{}} \cup {{u} : u \in Users \ Present(b)} :
              /\ LineOrdered(b) /\ Swept(s, b)
              /\ Seated(w) = Seated(b) /\ Waiting(w) = Waiting(b) \cup joins
              /\ \A v \in Waiting(b) : w.row[v] = b.row[v]
              /\ \A v \in Waiting(b), u \in joins : w.row[v].queue_seq < w.row[u].queue_seq
              /\ \A u \in joins : w.row[u].queue_seq \in Nat
<1>1. PICK b \in Db :
        /\ LineOrdered(b)
        /\ Swept(s, b)
        /\ \/ w = b
           \/ \E u \in Users \ Present(b), now \in Nat : w = Enqueued(b, u, now)
  BY DEF Rearranged
<1>2. CASE w = b
  <2>1. {} \in {{}} \cup {{u} : u \in Users \ Present(b)}
    OBVIOUS
  <2> QED
    BY <1>1, <1>2, <2>1
<1>3. ASSUME NEW u \in Users \ Present(b), NEW now \in Nat, w = Enqueued(b, u, now)
      PROVE  /\ Seated(w) = Seated(b) /\ Waiting(w) = Waiting(b) \cup {u}
             /\ \A v \in Waiting(b) : w.row[v] = b.row[v]
             /\ \A v \in Waiting(b) : w.row[v].queue_seq < w.row[u].queue_seq
             /\ w.row[u].queue_seq \in Nat
  <2>1. /\ Seated(w) = Seated(b) /\ Waiting(w) = Waiting(b) \cup {u}
        /\ w.row[u].queue_seq = b.nextSeq
        /\ \A v \in Users \ {u} : w.row[v] = b.row[v]
    BY <1>3, EnqueuedGroups
  <2>2. Waiting(b) \subseteq Users \ {u}
    BY <1>3, Apart DEF Present
  <2>3. b.nextSeq \in Nat /\ \A v \in Waiting(b) : b.row[v].queue_seq \in 1..(b.nextSeq - 1)
    BY <1>1 DEF LineOrdered, Db
  <2> QED
    BY <2>1, <2>2, <2>3
<1>4. ASSUME NEW u \in Users \ Present(b), NEW now \in Nat, w = Enqueued(b, u, now)
      PROVE  \E joins \in {{}} \cup {{x} : x \in Users \ Present(b)} :
              /\ Seated(w) = Seated(b) /\ Waiting(w) = Waiting(b) \cup joins
              /\ \A v \in Waiting(b) : w.row[v] = b.row[v]
              /\ \A v \in Waiting(b), x \in joins : w.row[v].queue_seq < w.row[x].queue_seq
              /\ \A x \in joins : w.row[x].queue_seq \in Nat
  <2>1. {u} \in {{}} \cup {{x} : x \in Users \ Present(b)}
    BY <1>4
  <2> QED
    BY <1>3, <1>4, <2>1
<1> QED
  BY <1>1, <1>2, <1>4

\* The line of a table, restricted to some of those who wait, is a line of them.
LEMMA AheadIsALine ==
    ASSUME NEW b \in Db, LineOrdered(b), NEW S \in SUBSET Waiting(b)
    PROVE  Promise!Among(Ahead(b), S) \in Promise!Lines(S)
<1> DEFINE o == Promise!Among(Ahead(b), S)
<1>1. \A u \in S : u \in Waiting(b) /\ b.row[u].queue_seq \in Nat
  BY DEF LineOrdered, Waiting, Db, Row
<1>2. \A u, v \in S : <<u, v>> \in o <=> b.row[u].queue_seq < b.row[v].queue_seq
  BY <1>1, AheadIs DEF Promise!Among
<1>3. o \in SUBSET (S \X S)
  BY DEF Promise!Among
<1> HIDE DEF o
<1>4. \A u \in S : <<u, u>> \notin o
  BY <1>1, <1>2
<1>5. \A u, v \in S : u # v => <<u, v>> \in o \/ <<v, u>> \in o
  BY <1>1, <1>2 DEF LineOrdered
<1>6. \A u, v, x \in S : <<u, v>> \in o /\ <<v, x>> \in o => <<u, x>> \in o
  BY <1>1, <1>2
<1> QED
  BY <1>3, <1>4, <1>5, <1>6 DEF Promise!Lines, o

\* The order of a rearranged line, put together the way SeatService does: those who
\* kept their place, then those who lost their seat, then the newcomer.
Lineup(s, b, kept, bumped, joins) ==
    Promise!Among(Ahead(s), kept) \cup Promise!Among(Ahead(b), bumped)
        \cup (kept \X bumped) \cup ((kept \cup bumped) \X joins)

LEMMA OrderIsAhead ==
    ASSUME NEW s \in Db, LineOrdered(s), NEW b \in Db, LineOrdered(b), Swept(s, b),
           NEW w, NEW joins, joins \cap Waiting(b) = {},
           joins = {} \/ \E u \in Users : joins = {u},
           Waiting(w) = Waiting(b) \cup joins,
           \A v \in Waiting(b) : w.row[v] = b.row[v],
           \A v \in Waiting(b), u \in joins : w.row[v].queue_seq < w.row[u].queue_seq,
           \A u \in joins : w.row[u].queue_seq \in Nat,
           NEW kept, kept = Waiting(s) \cap Waiting(b),
           NEW bumped, bumped = Waiting(b) \ Waiting(s)
    PROVE  Lineup(s, b, kept, bumped, joins) = Ahead(w)
<1> DEFINE one == Promise!Among(Ahead(s), kept)
           two == Promise!Among(Ahead(b), bumped)
           all == one \cup two \cup (kept \X bumped) \cup ((kept \cup bumped) \X joins)
           at(u) == w.row[u].queue_seq
<1>1. kept \cup bumped = Waiting(b) /\ kept \cap bumped = {}
  OBVIOUS
<1>2. all \subseteq Waiting(w) \X Waiting(w)
  BY <1>1 DEF Promise!Among
<1>3. \A u \in Waiting(w) : at(u) \in Nat
  BY DEF LineOrdered
<1>4. \A u, v \in kept : <<u, v>> \in one <=> at(u) < at(v)
  <2>1. \A u \in kept : s.row[u].queue_seq = at(u) /\ u \in Waiting(s)
    BY DEF Swept
  <2> QED
    BY <2>1, AheadIs DEF Promise!Among
<1>5. \A u, v \in bumped : <<u, v>> \in two <=> at(u) < at(v)
  <2>1. \A u \in bumped : b.row[u].queue_seq = at(u) /\ u \in Waiting(b)
    OBVIOUS
  <2> QED
    BY <2>1, AheadIs DEF Promise!Among
<1>6. \A u \in kept, v \in bumped : at(u) < at(v)
  <2> SUFFICES ASSUME NEW u \in kept, NEW v \in bumped PROVE at(u) < at(v)
    OBVIOUS
  <2>1. at(u) = s.row[u].queue_seq /\ at(u) \in 1..(s.nextSeq - 1) /\ s.nextSeq \in Nat
    BY DEF Swept, LineOrdered, Db
  <2>2. at(v) >= s.nextSeq /\ at(v) \in Nat
    BY <1>1, <1>3 DEF Swept
  <2> QED
    BY <2>1, <2>2
<1>7. \A u \in kept \cup bumped, v \in joins : at(u) < at(v)
  BY <1>1
<1>8. one \subseteq kept \X kept /\ two \subseteq bumped \X bumped
  BY DEF Promise!Among
<1>9. joins \cap kept = {} /\ joins \cap bumped = {} /\ \A u, v \in joins : u = v
  BY <1>1
<1> HIDE DEF one, two, at
<1>10. ASSUME NEW u \in Waiting(w), NEW v \in Waiting(w)
       PROVE  <<u, v>> \in all <=> at(u) < at(v)
  <2>1. u \in kept \/ u \in bumped \/ u \in joins
    BY <1>1
  <2>2. v \in kept \/ v \in bumped \/ v \in joins
    BY <1>1
  <2>3. CASE u \in kept /\ v \in kept
    BY <1>1, <1>4, <1>8, <1>9, <2>3
  <2>4. CASE u \in bumped /\ v \in bumped
    BY <1>1, <1>5, <1>8, <1>9, <2>4
  <2>5. CASE u \in kept /\ v \in bumped
    BY <1>6, <2>5
  <2>6. CASE u \in kept \cup bumped /\ v \in joins
    BY <1>7, <2>6
  <2>7. CASE u \in bumped /\ v \in kept
    <3>1. <<u, v>> \notin all
      BY <1>1, <1>8, <1>9, <2>7
    <3> QED
      BY <1>3, <1>6, <2>7, <3>1
  <2>8. CASE u \in joins /\ v \in kept \cup bumped
    <3>1. <<u, v>> \notin all
      BY <1>1, <1>8, <1>9, <2>8
    <3> QED
      BY <1>3, <1>7, <2>8, <3>1
  <2>9. CASE u \in joins /\ v \in joins
    <3>1. <<u, v>> \notin all /\ u = v
      BY <1>1, <1>8, <1>9, <2>9
    <3> QED
      BY <1>3, <3>1
  <2> QED
    BY <2>1, <2>2, <2>3, <2>4, <2>5, <2>6, <2>7, <2>8, <2>9
<1> HIDE DEF all
<1>11. \A u, v \in Waiting(w) : <<u, v>> \in Ahead(w) <=> at(u) < at(v)
  BY AheadIs DEF at
<1>12. all = Ahead(w)
  <2>1. Ahead(w) \subseteq Waiting(w) \X Waiting(w)
    BY AheadIs
  <2>2. \A u, v \in Waiting(w) : <<u, v>> \in all <=> <<u, v>> \in Ahead(w)
    BY <1>10, <1>11
  <2>3. ASSUME NEW p \in Waiting(w) \X Waiting(w)
        PROVE  p \in all <=> p \in Ahead(w)
    <3>1. PICK u \in Waiting(w), v \in Waiting(w) : p = <<u, v>>
      OBVIOUS
    <3> QED
      BY <2>2, <3>1
  <2> QED
    BY <1>2, <2>1, <2>3
<1> QED
  BY <1>12 DEF all, one, two, Lineup

\* SeatService counts as the controller does.
LEMMA SameSize ==
    ASSUME NEW S
    PROVE  Promise!Cardinality(S) = Cardinality(S)
BY DEF Promise!Cardinality, Cardinality

\* A table that was rearranged and filled as far as the seats or the people go is
\* a turn of SeatService.
LEMMA TurnOfTables ==
    ASSUME TypeOK, LineIsOrdered, db' \in Db, SeatInv',
           NEW w, Rearranged(db, w), Filled(w, db')
    PROVE  Promise!Turn
<1> DEFINE s == db
           t == db'
<1>1. PICK b \in Db : \E joins \in {{}} \cup {{u} : u \in Users \ Present(b)} :
        /\ LineOrdered(b) /\ Swept(s, b)
        /\ Seated(w) = Seated(b) /\ Waiting(w) = Waiting(b) \cup joins
        /\ \A v \in Waiting(b) : w.row[v] = b.row[v]
        /\ \A v \in Waiting(b), u \in joins : w.row[v].queue_seq < w.row[u].queue_seq
        /\ \A u \in joins : w.row[u].queue_seq \in Nat
  BY RearrangedGroups DEF TypeOK
<1>2. PICK joins \in {{}} \cup {{u} : u \in Users \ Present(b)} :
        /\ LineOrdered(b) /\ Swept(s, b)
        /\ Seated(w) = Seated(b) /\ Waiting(w) = Waiting(b) \cup joins
        /\ \A v \in Waiting(b) : w.row[v] = b.row[v]
        /\ \A v \in Waiting(b), u \in joins : w.row[v].queue_seq < w.row[u].queue_seq
        /\ \A u \in joins : w.row[u].queue_seq \in Nat
  BY <1>1
<1> DEFINE gone   == Present(s) \ Present(b)
           kept   == Waiting(s) \cap Waiting(b)
           bumped == Waiting(b) \ Waiting(s)
           back   == Promise!Among(Ahead(b), bumped)
           people == Waiting(b) \cup joins
           front  == Waiting(w) \ Waiting(t)
           order  == Lineup(s, b, kept, bumped, joins)
<1>3. s \in Db /\ t \in Db /\ LineOrdered(s)
  BY DEF TypeOK, LineIsOrdered
<1>4. joins \cap Present(b) = {} /\ joins \subseteq Users /\ (joins = {} \/ \E u \in Users : joins = {u})
  BY <1>2
<1>5. /\ Seated(s) \cap Waiting(s) = {} /\ Seated(b) \cap Waiting(b) = {}
      /\ Seated(t) \cap Waiting(t) = {} /\ Seated(w) \cap Waiting(w) = {}
  BY Apart
<1>6. Seated(b) \subseteq Seated(s) /\ Waiting(b) \subseteq Present(s)
  BY <1>2 DEF Swept
<1>7. order = Ahead(w)
  <2>1. joins \cap Waiting(b) = {}
    BY <1>4 DEF Present
  <2>2. kept = Waiting(s) \cap Waiting(b) /\ bumped = Waiting(b) \ Waiting(s)
    OBVIOUS
  <2> HIDE DEF s, kept, bumped
  <2> QED
    BY <1>2, <1>3, <1>4, <2>1, <2>2, OrderIsAhead
<1>8. back \in Promise!Lines(bumped)
  BY <1>2, AheadIsALine
<1>9. /\ gone \in SUBSET (Seated(s) \cup Waiting(s))
      /\ bumped \in SUBSET (Seated(s) \ gone)
      /\ kept = Waiting(s) \ gone
      /\ kept \cup bumped = Waiting(b)
      /\ Seated(b) = Seated(s) \ (gone \cup bumped)
  BY <1>5, <1>6 DEF Present
<1>10. joins \in {{}} \cup {{u} : u \in (Users \ (Seated(s) \cup Waiting(s))) \cup gone}
  <2>1. CASE joins = {}
    BY <2>1
  <2>2. CASE joins # {}
    <3>1. PICK u \in Users \ Present(b) : joins = {u}
      BY <1>2, <2>2
    <3>2. u \in (Users \ (Seated(s) \cup Waiting(s))) \cup gone
      BY <3>1 DEF Present
    <3> QED
      BY <3>1, <3>2
  <2> QED
    BY <2>1, <2>2
<1>11. /\ front \in SUBSET people /\ people \ front = Waiting(t)
       /\ Seated(t) = Seated(b) \cup front
  BY <1>2, <1>5 DEF Filled, Present
<1>12. \A u \in front, v \in people \ front : <<u, v>> \in order
  <2>1. \A u \in front, v \in Waiting(t) : w.row[u].queue_seq < w.row[v].queue_seq
    BY DEF Filled
  <2>2. front \subseteq Waiting(w) /\ Waiting(t) \subseteq Waiting(w)
    BY DEF Filled
  <2>3. \A u, v \in Waiting(w) :
          <<u, v>> \in Ahead(w) <=> w.row[u].queue_seq < w.row[v].queue_seq
    BY AheadIs
  <2>4. \A u \in front, v \in Waiting(t) : <<u, v>> \in Ahead(w)
    BY <2>1, <2>2, <2>3
  <2> HIDE DEF order, front, people
  <2> QED
    BY <1>7, <1>11, <2>4
<1>13. Ahead(t) = Promise!Among(order, people \ front)
  <2>1. Waiting(t) \subseteq Waiting(w) /\ \A u \in Waiting(t) : t.row[u].queue_seq = w.row[u].queue_seq
    BY DEF Filled
  <2>2. \A u, v \in Waiting(t) : <<u, v>> \in Ahead(t) <=> <<u, v>> \in Ahead(w)
    BY <2>1, AheadIs
  <2>3. Ahead(t) \subseteq Waiting(t) \X Waiting(t)
    BY AheadIs
  <2>4. Ahead(t) = Ahead(w) \cap (Waiting(t) \X Waiting(t))
    BY <2>2, <2>3
  <2> QED
    BY <1>7, <1>11, <2>4 DEF Promise!Among
<1>14. /\ Cardinality(Seated(b) \cup front) <= Capacity
       /\ front # people => Cardinality(Seated(b) \cup front) = Capacity
  BY <1>11 DEF SeatInv, CapacityRespected, NoSeatLeftEmpty
<1> HIDE DEF gone, kept, bumped, back, people, front, order
<1>15. Promise!Fill(Seated(b), people, order)
  <2>1. Seated(db)' = Seated(t) /\ Waiting(db)' = Waiting(t) /\ Ahead(db)' = Ahead(t)
    BY DEF Seated, Waiting, Ahead
  <2> QED
    BY <1>11, <1>12, <1>13, <1>14, <2>1, SameSize DEF Promise!Fill
<1>16. people = kept \cup bumped \cup joins
  BY <1>9 DEF people
<1>17. Promise!Fill(Seated(s) \ (gone \cup bumped), kept \cup bumped \cup joins,
           Promise!Among(Ahead(s), kept) \cup back \cup (kept \X bumped)
                         \cup ((kept \cup bumped) \X joins))
  BY <1>9, <1>15, <1>16 DEF order, back, Lineup
<1>18. Promise!Fill(Seated(s) \ (gone \cup bumped), (Waiting(s) \ gone) \cup bumped \cup joins,
           Promise!Among(Ahead(s), Waiting(s) \ gone) \cup back \cup ((Waiting(s) \ gone) \X bumped)
                         \cup (((Waiting(s) \ gone) \cup bumped) \X joins))
  BY <1>9, <1>17
<1> QED
  BY <1>8, <1>9, <1>10, <1>18 DEF Promise!Turn

\* The seat controller of access.ts implements SeatService, for any number of users
\* and seats and any lengths of time: whatever is expired, bumped, dropped and
\* admitted, by two reconciles and what a request says between them, comes to one
\* turn in which some leave, some go to the back, one joins, and the seats are filled
\* from the front of the line.
THEOREM SeatsAreAService == HSpec => ImplementsSeatService
<1>1. Init => Promise!SInit
  <2> SUFFICES ASSUME Init PROVE Promise!SInit
    OBVIOUS
  <2>1. Seated(db) = {} /\ Waiting(db) = {}
    BY DEF Init, NoRow, Seated, Waiting
  <2> QED
    BY <2>1, AheadIs DEF Promise!SInit
<1>2. TypeOK /\ LineIsOrdered /\ SeatInv /\ [HNext]_hvars => [Promise!Turn]_(Promise!svars)
  <2> SUFFICES ASSUME TypeOK, LineIsOrdered, SeatInv, [HNext]_hvars
               PROVE  [Promise!Turn]_(Promise!svars)
    OBVIOUS
  <2>1. CASE UNCHANGED <<db, asOf, spent>>
    BY <2>1 DEF Promise!svars, Seated, Waiting, Ahead
  <2>2. CASE asOf' \in Nat /\ Operated(asOf')
    <3>1. [Next]_vars
      BY DEF HNext, HTick, HStatus, HRequest, HHeartbeat, HRelease, Next, hvars, vars
    <3>2. SeatInv'
      BY <3>1, SeatInvStep
    <3>3. db' \in Db /\ \E w : Rearranged(db, w) /\ Filled(w, db')
      BY <2>2, OperationIsATurn
    <3> QED
      BY <3>2, <3>3, TurnOfTables
  <2> QED
    BY <2>1, <2>2, HistoryIsOperation
<1>3. HSpec => Spec /\ HInit /\ [][HNext]_hvars
  BY HistoryRefines DEF HSpec
<1>4. HInit => Init
  BY DEF HInit
<1> QED
  BY <1>1, <1>2, <1>3, <1>4, TypeCorrect, LineStaysOrdered, SeatsCorrect, PTL
     DEF ImplementsSeatService, Promise!SSpec
=============================================================================
