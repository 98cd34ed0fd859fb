--------------------------- MODULE AccessHistory ---------------------------
(***************************************************************************)
(* The seat controller with history variables that remember what the table *)
(* does not: when each user was last heard from, the clock of the latest   *)
(* operation, and how much of a turn was already spent when an idle bump   *)
(* interrupted it.  No action reads them.                                  *)
(***************************************************************************)
EXTENDS Access

VARIABLES
    asOf,    \* the `now` of the latest operation
    heard,   \* when each user last asked for a seat or sent a heartbeat
    spent    \* per user, the part of the current turn sat through before the
             \* bump that ended each earlier sitting of it

hvars == <<db, clock, asOf, heard, spent>>

\* This step took u's seat away for idleness (and may have given it back).
JustBumped(u, now) ==
    /\ SeatIsUnused(db.row[u], now)
    /\ ~SeatIsOver(db.row[u], now)

\* request() opens a new turn; it is the only operation that clears last_reason.
SpentAfter(u, now) ==
    IF db'.row[u].last_reason = "none" THEN 0
    ELSE IF JustBumped(u, now) THEN spent[u] + (now - db.row[u].started_at)
    ELSE spent[u]

Recorded(now, speakers) ==
    /\ asOf' = now
    /\ heard' = [u \in Users |-> IF u \in speakers THEN clock ELSE heard[u]]
    /\ spent' = [u \in Users |-> SpentAfter(u, now)]

HInit ==
    /\ Init
    /\ asOf = 0
    /\ heard = [u \in Users |-> 0]
    /\ spent = [u \in Users |-> 0]

HTick == Tick /\ UNCHANGED <<asOf, heard, spent>>

HStatus(now)                == Status(now) /\ Recorded(now, {})
HRequest(u, now)            == Request(u, now) /\ Recorded(now, {u})
HHeartbeat(u, present, now) == Heartbeat(u, present, now) /\ Recorded(now, {u})
HRelease(u, now)            == Release(u, now) /\ Recorded(now, {})

HNext ==
    \/ HTick
    \/ \E now \in TxTimes :
        \/ HStatus(now)
        \/ \E u \in Users :
            \/ HRequest(u, now)
            \/ \E present \in BOOLEAN : HHeartbeat(u, present, now)
            \/ HRelease(u, now)

HSpec == HInit /\ [][HNext]_hvars

-----------------------------------------------------------------------------
(* Properties.                                                             *)

\* "The one check that gates the tool": everyone an operation leaves seated is
\* entitled to the seat at that operation's clock: the hour is not over, and
\* the seat was used and heard from recently enough.
SeatedAreEntitled ==
    \A u \in Seated(db) :
        /\ db.row[u].expires_at > asOf
        /\ db.row[u].last_seen_at >= asOf - GraceMs
        /\ db.row[u].last_active_at >= asOf - IdleMs

\* Going idle is no way to dodge the hour: over all its sittings, one turn is
\* granted at most one session of seat time.
HourIsNeverExtended ==
    \A u \in Users :
        /\ u \in Seated(db) =>
              spent[u] + (db.row[u].expires_at - db.row[u].started_at) <= SessionMs
        /\ u \in Waiting(db) => spent[u] + db.row[u].carry_ms <= SessionMs

\* The place in line the interface shows never gets worse for anyone who keeps
\* saying they are there: not when others leave, and not by asking again.
PlaceNeverWorsens ==
    [][\A u \in Waiting(db) \cap Waiting(db)' :
          ~HasStoppedWaiting(db.row[u], asOf') => Position(db', u) <= Position(db, u)]_hvars

\* An account nothing was heard from for longer than the grace (plus what an
\* operation may lag) does not hold a seat once an operation has run: "no
\* heartbeat at all is someone who has gone, and the seat goes back to the pool".
GoneLosesSeat ==
    \A u \in Seated(db) : heard[u] >= asOf - GraceMs - LockWaitMs
=============================================================================
