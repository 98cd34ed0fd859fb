------------------------------- MODULE Limiter --------------------------------
(* The rate limits on signing in: the fixed-window counters that all instances *)
(* share in Redis (compile-service/src/redis.ts, RedisRateLimiter), and the    *)
(* login route that asks two of them, one for the caller's address and one for *)
(* the account, and forgets the account's when the password is right           *)
(* (auth-routes.ts).                                                           *)
EXTENDS Integers, Sequences, FiniteSets

CONSTANTS
    Logins,         \* the attempts that may be under way at once
    Account, Address, \* the two counters: of one account, of one address
    Limit,          \* attempts each allows in a window
    Period,         \* length of a window
    MaxTime         \* bound: how long the clock runs

Subjects == {Account, Address}

ASSUME LimiterAssumption ==
    Limit \in [Subjects -> Nat \ {0}] /\ Period \in Nat \ {0} /\ MaxTime \in Nat

VARIABLES
    time,
    counter,    \* of a subject: the count of its key, and when the key expires
    up,         \* whether Redis answers
    login,      \* of an attempt: what it has still to ask, whether it was allowed
    passed      \* history: when each subject let an attempt through

limiterVars == <<time, counter, up, login, passed>>

Never == -1
NoKey == [count |-> 0, expires |-> Never]
NoLogin == [asks |-> {}, allowed |-> FALSE, checking |-> FALSE]

LimiterInit ==
    /\ time = 0 /\ up = TRUE
    /\ counter = [s \in Subjects |-> NoKey]
    /\ login = [l \in Logins |-> NoLogin]
    /\ passed = [s \in Subjects |-> <<>>]

(* INCR, and PEXPIRE of a key that is new, in one script.  What is above the   *)
(* limit is not told apart.                                                    *)
(* Mutant: two round trips, the client may die between them.                   *)
CountedInTwoTrips(key, limit) ==
    {[count |-> IF key.count > limit THEN key.count ELSE key.count + 1, expires |-> e] :
        e \in IF key.count = 0 THEN {Never, time + Period} ELSE {key.expires}}

Counted(key, limit) ==
    {[count |-> IF key.count > limit THEN key.count ELSE key.count + 1,
      expires |-> IF key.count = 0 THEN time + Period ELSE key.expires]}

(* POST /auth/login.                                                           *)
Attempt(l) ==
    /\ login[l] = NoLogin
    /\ login' = [login EXCEPT ![l] = [asks |-> Subjects, allowed |-> TRUE, checking |-> TRUE]]
    /\ UNCHANGED <<time, counter, up, passed>>

(* check: a Redis that does not answer allows the attempt, uncounted.          *)
Check(l, s) ==
    /\ s \in login[l].asks
    /\ IF up
       THEN /\ \E key \in Counted(counter[s], Limit[s]) : counter' = [counter EXCEPT ![s] = key]
            /\ LET allowed == counter'[s].count <= Limit[s]
               IN  /\ login' = [login EXCEPT ![l].asks = @ \ {s}, ![l].allowed = @ /\ allowed]
                   /\ passed' = IF allowed THEN [passed EXCEPT ![s] = Append(@, time)] ELSE passed
       ELSE /\ login' = [login EXCEPT ![l].asks = @ \ {s}]
            /\ UNCHANGED <<counter, passed>>
    /\ UNCHANGED <<time, up>>

(* Refused, or the password was wrong; or it was right, and the account's      *)
(* counter is forgotten, if Redis takes the command.                           *)
Finish(l) ==
    /\ login[l].checking /\ login[l].asks = {}
    /\ login' = [login EXCEPT ![l] = NoLogin]
    /\ \/ UNCHANGED <<counter, passed>>
       \/ /\ login[l].allowed /\ up
          /\ counter' = [counter EXCEPT ![Account] = NoKey]
          /\ passed' = [passed EXCEPT ![Account] = <<>>]
    /\ UNCHANGED <<time, up>>

(* Time passes, and keys expire.                                               *)
Expire ==
    /\ time < MaxTime /\ time' = time + 1
    /\ counter' = [s \in Subjects |-> IF counter[s].expires = time' THEN NoKey ELSE counter[s]]
    /\ UNCHANGED <<up, login, passed>>

(* Redis goes away and comes back, with its keys.                              *)
Outage == up' = ~up /\ UNCHANGED <<time, counter, login, passed>>

LimiterNext ==
    \/ \E l \in Logins : Attempt(l) \/ Finish(l) \/ \E s \in Subjects : Check(l, s)
    \/ Expire \/ Outage

LimiterSpec == LimiterInit /\ [][LimiterNext]_limiterVars

-------------------------------------------------------------------------------
(* What the comment on RedisRateLimiter promises of its windows: never more    *)
(* than twice the quota in the time of one window, whichever edges it lies     *)
(* across; and a subject that is counted is counted anew within a window, so   *)
(* that nobody is locked out for longer, however often they are refused.       *)
QuotaHolds ==
    \A s \in Subjects :
        /\ \A i \in DOMAIN passed[s] :
             Cardinality({j \in DOMAIN passed[s] : j >= i /\ passed[s][j] < passed[s][i] + Period})
                <= 2 * Limit[s]
        /\ counter[s].count > 0 => counter[s].expires \in time + 1 .. time + Period
===============================================================================
