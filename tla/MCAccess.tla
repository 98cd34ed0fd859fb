------------------------------ MODULE MCAccess ------------------------------
(***************************************************************************)
(* TLC instance of the seat controller.                                    *)
(*                                                                         *)
(* Only differences of instants are ever compared, and only the order of   *)
(* queue numbers.  Rolling therefore shows TLC a state by how old its      *)
(* stamps are, cut off where every comparison has settled, by places in    *)
(* line, and not by who is who.  States with the same view have the same   *)
(* futures, so the run covers EVERY length of time and of line history,    *)
(* and MaxTime and MaxSeq only have to be out of reach.                    *)
(***************************************************************************)
EXTENDS AccessHistory, TLC

Symm == Permutations(Users)

UpTo(n, bound) == IF n <= bound THEN n ELSE bound
Age(stamp, window) == UpTo(clock - stamp, window + LockWaitMs + 1)

\* Over at the clock of every transaction that can still run.
OverForGood(r) == SeatIsOver(r, clock - LockWaitMs)

RowView(u) ==
    LET r == db.row[u]
    IN  CASE r.state = "idle"   -> <<"idle">>
          [] r.state = "queued" -> <<"queued", Position(db, u), Age(r.last_seen_at, GraceMs),
                                     r.carry_ms, spent[u]>>
          [] OTHER -> IF OverForGood(r) THEN <<"over">>
                      ELSE <<"active", r.expires_at - clock, clock - r.started_at,
                             Age(r.last_seen_at, GraceMs), Age(r.last_active_at, IdleMs),
                             spent[u]>>

\* How many users have each row: users are interchangeable.
Rows == LET seen == {<<RowView(u), u>> : u \in Users}
        IN  [v \in {p[1] : p \in seen} |-> Cardinality({p \in seen : p[1] = v})]

\* SeatedAreEntitled is the one invariant that reads asOf, LineIsOrdered the one
\* that reads the numbers themselves.
Rolling == <<Rows, UpTo(clock, LockWaitMs), SeatedAreEntitled, LineIsOrdered>>
=============================================================================
