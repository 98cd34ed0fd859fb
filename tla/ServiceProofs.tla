----------------------------- MODULE ServiceProofs -----------------------------
(* Proofs about the service: the rate limits, for any limits, any period and   *)
(* any number of attempts under way; start-up and shutdown, for any number of  *)
(* instances of any releases, any requests and any deaths and restarts; and    *)
(* compiles, for any sketches and any number of requests.  And about the       *)
(* installer of the server it runs on, for any number of runs, any settings an *)
(* operator brings along and any domains.                                      *)
EXTENDS Limiter, Compiler, Installer, FiniteSetTheorems, SequenceTheorems, TLAPS

(* Of a key that counts to c of its limit and was new one period before it     *)
(* expires, and of the times at which attempts were let through.               *)
Within(c, limit) == IF c > limit THEN limit ELSE c

Spaced(p, limit) ==
    /\ \A i, j \in 1 .. Len(p) : i <= j => p[i] <= p[j]
    /\ \A i \in 1 .. Len(p) : i + 2 * limit <= Len(p) => p[i] + Period <= p[i + 2 * limit]

Counts(p, key, limit, now) ==
    /\ \A i \in 1 .. Len(p) : p[i] <= now
    /\ key.count = 0 => \A i \in 1 .. Len(p) : i + limit <= Len(p) => p[i] + Period <= now
    /\ key.count > 0 =>
         /\ key.expires \in now + 1 .. now + Period
         /\ \A i \in 1 .. Len(p) :
              /\ i + Within(key.count, limit) <= Len(p) => p[i] <= key.expires - Period
              /\ i + Within(key.count, limit) + limit <= Len(p) => p[i] + 2 * Period <= key.expires

Counters == [count : Nat, expires : Int]

LimiterTypeOK ==
    /\ time \in Nat
    /\ counter \in [Subjects -> Counters]
    /\ login \in [Logins -> [asks : SUBSET Subjects, allowed : BOOLEAN, checking : BOOLEAN]]
    /\ passed \in [Subjects -> Seq(Nat)]

LimiterInv ==
    /\ LimiterTypeOK
    /\ \A s \in Subjects : Spaced(passed[s], Limit[s]) /\ Counts(passed[s], counter[s], Limit[s], time)

-------------------------------------------------------------------------------
(* What an attempt that is counted does to a key, and to who was let through.  *)
LEMMA CountedKey ==
    ASSUME time \in Nat, NEW key \in Counters, NEW limit \in Nat
    PROVE  /\ Counted(key, limit) \subseteq Counters
           /\ \A k \in Counted(key, limit) :
                /\ k.count = IF key.count > limit THEN key.count ELSE key.count + 1
                /\ k.expires = IF key.count = 0 THEN time + Period ELSE key.expires
BY LimiterAssumption DEF Counted, Counters

LEMMA LetThrough ==
    ASSUME time \in Nat, NEW limit \in Nat \ {0}, NEW p \in Seq(Nat), NEW key \in Counters,
           Spaced(p, limit), Counts(p, key, limit, time), NEW k \in Counted(key, limit), k.count <= limit
    PROVE  Spaced(Append(p, time), limit) /\ Counts(Append(p, time), k, limit, time)
<1> DEFINE q == Append(p, time)
           n == Len(p)
<1>1. /\ n \in Nat /\ Len(q) = n + 1 /\ q[n + 1] = time /\ limit \in Nat /\ limit > 0
      /\ \A i \in 1 .. n : q[i] = p[i] /\ p[i] \in Nat
  OBVIOUS
<1>2. /\ k \in Counters /\ k.count = key.count + 1 /\ key.count \in Nat /\ key.count < limit
      /\ k.expires = IF key.count = 0 THEN time + Period ELSE key.expires
      /\ key.expires \in Int /\ k.expires \in Int /\ Period \in Nat /\ Period > 0
  BY LimiterAssumption, CountedKey DEF Counters
<1>3. Within(k.count, limit) = key.count + 1 /\ Within(key.count, limit) = key.count
  BY <1>2 DEF Within
<1>4. \A i \in 1 .. n : p[i] <= time
  BY DEF Counts
<1>5. key.count = 0 => \A i \in 1 .. n : i + limit <= n => p[i] + Period <= time
  BY DEF Counts
<1>6. key.count > 0 =>
         /\ key.expires > time /\ key.expires <= time + Period
         /\ \A i \in 1 .. n :
              /\ i + key.count <= n => p[i] <= key.expires - Period
              /\ i + key.count + limit <= n => p[i] + 2 * Period <= key.expires
  BY <1>2, <1>3 DEF Counts
<1> HIDE DEF q, n
<1>7. ASSUME NEW i \in 1 .. n + 1, i + 2 * limit <= n + 1
      PROVE  q[i] + Period <= q[i + 2 * limit]
  <2>1. CASE i + 2 * limit <= n
    <3>1. i \in 1 .. n /\ i + 2 * limit \in 1 .. n
      BY <1>1, <2>1
    <3>2. p[i] + Period <= p[i + 2 * limit]
      BY <2>1, <3>1 DEF Spaced, n
    <3> QED
      BY <1>1, <3>1, <3>2
  <2>2. CASE i + 2 * limit = n + 1
    <3>1. i \in 1 .. n /\ i + limit <= n /\ i + key.count + limit <= n
      BY <1>1, <1>2, <2>2
    <3>2. p[i] + Period <= time
      <4>1. CASE key.count = 0
        BY <1>5, <3>1, <4>1
      <4>2. CASE key.count > 0
        <5>1. p[i] + 2 * Period <= key.expires /\ key.expires <= time + Period
          BY <1>6, <3>1, <4>2
        <5>2. p[i] \in Nat /\ Period \in Nat /\ key.expires \in Int
          BY <1>1, <1>2, <3>1
        <5> QED
          BY <5>1, <5>2
      <4> QED
        BY <1>2, <4>1, <4>2
    <3> QED
      BY <1>1, <2>2, <3>1, <3>2
  <2> QED
    BY <1>1, <1>7, <2>1, <2>2
<1>8. ASSUME NEW i \in 1 .. n + 1, NEW j \in 1 .. n + 1, i <= j
      PROVE  q[i] <= q[j]
  <2>1. CASE j \in 1 .. n
    BY <1>1, <1>8, <2>1 DEF Spaced, n
  <2>2. CASE j = n + 1
    BY <1>1, <1>4, <2>2
  <2> QED
    BY <1>1, <2>1, <2>2
<1>9. Spaced(q, limit)
  BY <1>1, <1>7, <1>8 DEF Spaced
<1>10. Counts(q, k, limit, time)
  <2>1. \A i \in 1 .. n + 1 : q[i] <= time
    BY <1>1, <1>4
  <2>2. k.expires \in time + 1 .. time + Period
    BY <1>2, <1>6
  <2>3. ASSUME NEW i \in 1 .. n + 1
        PROVE  /\ i + (key.count + 1) <= n + 1 => q[i] <= k.expires - Period
               /\ i + (key.count + 1) + limit <= n + 1 => q[i] + 2 * Period <= k.expires
    <3>1. CASE i = n + 1
      BY <1>1, <1>2, <3>1
    <3>2. CASE i \in 1 .. n /\ key.count = 0
      <4>1. p[i] <= time /\ (i + limit <= n => p[i] + Period <= time) /\ p[i] \in Nat /\ q[i] = p[i]
        BY <1>1, <1>4, <1>5, <3>2
      <4> QED
        BY <1>1, <1>2, <3>2, <4>1
    <3>3. CASE i \in 1 .. n /\ key.count > 0
      <4>1. /\ i + key.count <= n => p[i] <= key.expires - Period
            /\ i + key.count + limit <= n => p[i] + 2 * Period <= key.expires
            /\ q[i] = p[i] /\ p[i] \in Nat
        BY <1>1, <1>6, <3>3
      <4>2. k.expires = key.expires /\ key.expires \in Int /\ Period \in Nat /\ key.count \in Nat
        BY <1>2, <3>3
      <4>3. n \in Nat /\ limit \in Nat /\ i \in Nat
        BY <1>1, <3>3
      <4>4. i + (key.count + 1) <= n + 1 => q[i] <= k.expires - Period
        BY <4>1, <4>2, <4>3
      <4>5. i + (key.count + 1) + limit <= n + 1 => q[i] + 2 * Period <= k.expires
        BY <4>1, <4>2, <4>3
      <4> QED
        BY <4>4, <4>5
    <3> QED
      BY <1>1, <1>2, <3>1, <3>2, <3>3
  <2> QED
    BY <1>1, <1>2, <1>3, <2>1, <2>2, <2>3 DEF Counts
<1> QED
  BY <1>9, <1>10 DEF q

LEMMA Refused ==
    ASSUME time \in Nat, NEW limit \in Nat \ {0}, NEW p \in Seq(Nat), NEW key \in Counters,
           Counts(p, key, limit, time), NEW k \in Counted(key, limit), ~(k.count <= limit)
    PROVE  Counts(p, k, limit, time)
<1>1. /\ k \in Counters /\ key.count >= limit /\ key.count > 0 /\ k.count > 0 /\ k.expires = key.expires
      /\ key.count \in Nat /\ k.count \in Nat
  BY CountedKey DEF Counters
<1>2. Within(k.count, limit) = limit /\ Within(key.count, limit) = limit
  BY <1>1, CountedKey DEF Within, Counters
<1> QED
  BY <1>1, <1>2 DEF Counts

LEMMA TimePasses ==
    ASSUME time \in Nat, NEW limit \in Nat \ {0}, NEW p \in Seq(Nat), NEW key \in Counters,
           Counts(p, key, limit, time)
    PROVE  Counts(p, IF key.expires = time + 1 THEN NoKey ELSE key, limit, time + 1)
<1> DEFINE k == IF key.expires = time + 1 THEN NoKey ELSE key
<1>1. /\ Len(p) \in Nat /\ \A i \in 1 .. Len(p) : p[i] \in Nat
      /\ key.count \in Nat /\ key.expires \in Int /\ Period \in Nat /\ limit \in Nat
  BY LimiterAssumption DEF Counters
<1>2. CASE key.count = 0
  BY <1>1, <1>2 DEF Counts, NoKey
<1>3. CASE key.count > 0 /\ key.expires = time + 1
  <2>1. k.count = 0
    BY <1>3 DEF NoKey
  <2>2. ASSUME NEW i \in 1 .. Len(p), i + limit <= Len(p)
        PROVE  p[i] + Period <= time + 1
    <3>1. i + Within(key.count, limit) <= Len(p)
      BY <1>1, <2>2 DEF Within
    <3> QED
      BY <1>1, <1>3, <3>1 DEF Counts
  <2>3. \A i \in 1 .. Len(p) : p[i] <= time + 1
    BY <1>1 DEF Counts
  <2> QED
    BY <2>1, <2>2, <2>3 DEF Counts
<1>4. CASE key.count > 0 /\ key.expires # time + 1
  <2>1. key.expires \in time + 2 .. time + Period
    BY <1>1, <1>4 DEF Counts
  <2> QED
    BY <1>1, <1>4, <2>1, SMTT(40) DEF Counts
<1> QED
  BY <1>1, <1>2, <1>3, <1>4

LEMMA Forgotten ==
    ASSUME NEW limit \in Nat
    PROVE  /\ Spaced(<<>>, limit) /\ Counts(<<>>, NoKey, limit, time)
           /\ NoKey \in Counters
BY DEF Spaced, Counts, NoKey, Counters, Never
-------------------------------------------------------------------------------
LEMMA LimiterStarts == LimiterInit => LimiterInv
<1> SUFFICES ASSUME LimiterInit
             PROVE  LimiterInv
  OBVIOUS
<1>1. NoKey \in Counters /\ <<>> \in Seq(Nat)
  BY Forgotten
<1>2. LimiterTypeOK
  BY <1>1 DEF LimiterInit, LimiterTypeOK, NoLogin
<1>3. \A s \in Subjects : Limit[s] \in Nat /\ passed[s] = <<>> /\ counter[s] = NoKey
  BY LimiterAssumption DEF LimiterInit
<1> QED
  BY <1>2, <1>3, Forgotten DEF LimiterInv

LEMMA LimiterStep == LimiterInv /\ [LimiterNext]_limiterVars => LimiterInv'
<1> SUFFICES ASSUME LimiterInv, [LimiterNext]_limiterVars
             PROVE  LimiterInv'
  OBVIOUS
<1> USE DEF LimiterInv, LimiterTypeOK
<1>a. \A s \in Subjects : /\ Limit[s] \in Nat \ {0} /\ passed[s] \in Seq(Nat) /\ counter[s] \in Counters
                          /\ counter[s].count \in Nat
  BY LimiterAssumption DEF Counters
<1>b. Account \in Subjects
  BY DEF Subjects
<1>1. ASSUME NEW l \in Logins, Attempt(l)
      PROVE  LimiterInv'
  BY <1>1 DEF Attempt
<1>2. ASSUME NEW l \in Logins, NEW s \in Subjects, Check(l, s)
      PROVE  LimiterInv'
  <2>1. login' \in [Logins -> [asks : SUBSET Subjects, allowed : BOOLEAN, checking : BOOLEAN]]
    <3>1. PICK allowed \in BOOLEAN : login' = [login EXCEPT ![l].asks = @ \ {s}, ![l].allowed = allowed]
      <4>1. CASE up
        <5>1. login' = [login EXCEPT ![l].asks = @ \ {s}, ![l].allowed = @ /\ counter'[s].count <= Limit[s]]
          BY <1>2, <4>1 DEF Check
        <5>2. (login[l].allowed /\ counter'[s].count <= Limit[s]) \in BOOLEAN
          OBVIOUS
        <5> QED
          BY <5>1, <5>2
      <4>2. CASE ~up
        <5>1. login' = [login EXCEPT ![l].asks = @ \ {s}]
          BY <1>2, <4>2 DEF Check
        <5>2. login' = [login EXCEPT ![l].asks = @ \ {s}, ![l].allowed = login[l].allowed]
          BY <5>1
        <5> QED
          BY <5>2
      <4> QED
        BY <4>1, <4>2
    <3> QED
      BY <3>1
  <2>2. CASE ~up
    BY <1>2, <2>1, <2>2 DEF Check
  <2>3. CASE up
    <3>1. PICK k \in Counted(counter[s], Limit[s]) : counter' = [counter EXCEPT ![s] = k]
      BY <1>2, <2>3 DEF Check
    <3>2. k \in Counters /\ counter'[s] = k /\ counter' \in [Subjects -> Counters]
      BY <1>a, <3>1, CountedKey
    <3>3. time' = time
      BY <1>2 DEF Check
    <3>4. CASE k.count <= Limit[s]
      <4>1. passed' = [passed EXCEPT ![s] = Append(@, time)]
        BY <1>2, <2>3, <3>2, <3>4 DEF Check
      <4>2. Spaced(Append(passed[s], time), Limit[s]) /\ Counts(Append(passed[s], time), k, Limit[s], time)
        BY <1>a, <3>4, LetThrough
      <4>3. passed' \in [Subjects -> Seq(Nat)] /\ passed'[s] = Append(passed[s], time)
        BY <1>a, <4>1
      <4> QED
        BY <2>1, <3>1, <3>2, <3>3, <4>1, <4>2, <4>3
    <3>5. CASE ~(k.count <= Limit[s])
      <4>1. passed' = passed
        BY <1>2, <2>3, <3>2, <3>5 DEF Check
      <4>2. Counts(passed[s], k, Limit[s], time)
        BY <1>a, <3>5, Refused
      <4> QED
        BY <2>1, <3>1, <3>2, <3>3, <4>1, <4>2
    <3> QED
      BY <3>4, <3>5
  <2> QED
    BY <2>2, <2>3
<1>3. ASSUME NEW l \in Logins, Finish(l)
      PROVE  LimiterInv'
  <2>1. time' = time /\ login' \in [Logins -> [asks : SUBSET Subjects, allowed : BOOLEAN, checking : BOOLEAN]]
    BY <1>3 DEF Finish, NoLogin
  <2>2. CASE UNCHANGED <<counter, passed>>
    BY <2>1, <2>2
  <2>3. CASE /\ counter' = [counter EXCEPT ![Account] = NoKey]
             /\ passed' = [passed EXCEPT ![Account] = <<>>]
    <3>1. counter' \in [Subjects -> Counters] /\ passed' \in [Subjects -> Seq(Nat)]
      BY LimiterAssumption, <1>b, <2>3, Forgotten
    <3>2. /\ Spaced(<<>>, Limit[Account]) /\ Counts(<<>>, NoKey, Limit[Account], time)
      BY <1>a, <1>b, Forgotten
    <3> QED
      BY <1>b, <2>1, <2>3, <3>1, <3>2
  <2> QED
    BY <1>3, <2>2, <2>3 DEF Finish
<1>4. CASE Expire
  <2>1. time' = time + 1 /\ passed' = passed /\ login' = login
    BY <1>4 DEF Expire
  <2>2. \A s \in Subjects : counter'[s] = IF counter[s].expires = time + 1 THEN NoKey ELSE counter[s]
    BY <1>4 DEF Expire
  <2>3. \A s \in Subjects : counter'[s] \in Counters /\ Counts(passed[s], counter'[s], Limit[s], time + 1)
    BY <1>a, <2>2, TimePasses, Forgotten
  <2>4. counter' \in [Subjects -> Counters]
    BY <1>4, <2>3 DEF Expire
  <2> QED
    BY <2>1, <2>3, <2>4
<1>5. CASE Outage
  BY <1>5 DEF Outage
<1>6. CASE UNCHANGED limiterVars
  BY <1>6 DEF limiterVars
<1> QED
  BY <1>1, <1>2, <1>3, <1>4, <1>5, <1>6 DEF LimiterNext

(* Never more than twice the quota in the time of one window, whatever the     *)
(* limits, the period and the outages; and nobody is locked out for longer.    *)
THEOREM QuotasHold == LimiterSpec => []QuotaHolds
<1>1. ASSUME LimiterInv
      PROVE  QuotaHolds
  <2>1. ASSUME NEW s \in Subjects, NEW i \in DOMAIN passed[s]
        PROVE  Cardinality({j \in DOMAIN passed[s] : j >= i /\ passed[s][j] < passed[s][i] + Period})
                 <= 2 * Limit[s]
    <3> DEFINE p == passed[s]
               limit == Limit[s]
               near == {j \in DOMAIN p : j >= i /\ p[j] < p[i] + Period}
    <3>1. /\ p \in Seq(Nat) /\ Len(p) \in Nat /\ DOMAIN p = 1 .. Len(p) /\ \A j \in 1 .. Len(p) : p[j] \in Nat
          /\ limit \in Nat /\ limit > 0 /\ Period \in Nat
      BY LimiterAssumption, <1>1, <2>1 DEF LimiterInv, LimiterTypeOK
    <3>2. Spaced(p, limit)
      BY <1>1 DEF LimiterInv
    <3>3. i \in 1 .. Len(p)
      BY <2>1, <3>1
    <3> HIDE DEF p, limit
    <3>4. ASSUME NEW j \in 1 .. Len(p), j >= i + 2 * limit
          PROVE  ~(p[j] < p[i] + Period)
      <4>1. i + 2 * limit \in 1 .. Len(p)
        BY <3>1, <3>3, <3>4
      <4>2. p[i] + Period <= p[i + 2 * limit] /\ p[i + 2 * limit] <= p[j]
        BY <3>1, <3>2, <3>3, <3>4, <4>1 DEF Spaced
      <4> QED
        BY <3>1, <3>3, <4>1, <4>2
    <3>5. near \subseteq i .. i + 2 * limit - 1
      BY <3>1, <3>3, <3>4
    <3>6. /\ IsFiniteSet(i .. i + 2 * limit - 1)
          /\ Cardinality(i .. i + 2 * limit - 1) = 2 * limit
      <4>1. i \in Int /\ i + 2 * limit - 1 \in Int /\ ~(i > i + 2 * limit - 1)
        BY <3>1, <3>3
      <4>2. /\ IsFiniteSet(i .. i + 2 * limit - 1)
            /\ Cardinality(i .. i + 2 * limit - 1) = (i + 2 * limit - 1) - i + 1
        BY <4>1, FS_Interval
      <4> QED
        BY <3>1, <3>3, <4>2
    <3>7. Cardinality(near) <= 2 * limit
      BY <3>5, <3>6, FS_Subset
    <3> QED
      BY <3>7 DEF p, limit
  <2>2. ASSUME NEW s \in Subjects, counter[s].count > 0
        PROVE  counter[s].expires \in time + 1 .. time + Period
    BY <1>1, <2>2 DEF LimiterInv, Counts
  <2> QED
    BY <2>1, <2>2 DEF QuotaHolds
<1> QED
  BY <1>1, LimiterStarts, LimiterStep, PTL DEF LimiterSpec
-------------------------------------------------------------------------------
Phases == Starting \cup {"serving", "down"} \cup Closing
Serving == {"serving"} \cup Closing
Ids == Nat \ {0}
Stages == {"none", "seat", "look up", "compile", "store", "answered", "cut off"}

ServiceTypeOK ==
    /\ phase \in [Instances -> Phases]
    /\ known \in [Instances -> SUBSET Ids] /\ pending \in [Instances -> SUBSET Ids]
    /\ applied \in SUBSET Ids
    /\ open \in [Instances -> SUBSET {"redis", "pool"}]
    /\ request \in [Requests -> [at : Instances \cup {Nobody}, stage : Stages]]

(* Whoever migrates holds the lock and is alone with it; so what it read of    *)
(* the migrations is still what is applied.                                    *)
LockIsExclusive ==
    /\ \A i \in Instances : i \in lock <=> phase[i] = "migrating"
    /\ \A i, j \in Instances : i \in lock /\ j \in lock => i = j
    /\ \A i \in Instances : i \notin lock => pending[i] = {}
    /\ \A i \in Instances : i \in lock => known[i] = applied

(* What a transaction has applied follows on what is committed, without gaps.  *)
PendingFollows ==
    /\ \A i \in Instances : pending[i] \cap applied = {}
    /\ \A i \in Instances, id \in Ids : id \in pending[i] => 1 .. id \subseteq applied \cup pending[i]
    /\ \A id \in applied : 1 .. id \subseteq applied

ServedIsApplied == \A i \in Instances : phase[i] \in Serving => Known(i) \subseteq applied

(* A request is at an instance that serves or drains, whose connections are    *)
(* open, and only firmware that compiled is on its way to the cache.           *)
AtServers ==
    /\ \A r \in Requests : request[r].at # Nobody => phase[request[r].at] \in {"serving", "draining"}
    /\ \A i \in Instances : phase[i] \in Phases \ {"down", "ending"} => open[i] = {"redis", "pool"}
    /\ \A r \in Requests : request[r].stage = "store" => r \in Sound
    /\ cached \subseteq Sound

ServiceInv == ServiceTypeOK /\ LockIsExclusive /\ PendingFollows /\ ServedIsApplied /\ AtServers

LEMMA ServiceStarts == ServiceInit => ServiceInv
<1> SUFFICES ASSUME ServiceInit
             PROVE  ServiceInv
  OBVIOUS
<1> USE DEF ServiceInit
<1>1. ServiceTypeOK
  <2>1. [at |-> Nobody, stage |-> "none"] \in [at : Instances \cup {Nobody}, stage : Stages]
    BY DEF Stages
  <2> QED
    BY <2>1 DEF ServiceTypeOK, Phases, Starting
<1>2. LockIsExclusive
  BY DEF LockIsExclusive
<1>3. PendingFollows
  BY DEF PendingFollows
<1>4. ServedIsApplied
  BY DEF ServedIsApplied, Serving, Closing
<1>5. AtServers
  BY DEF AtServers
<1> QED
  BY <1>1, <1>2, <1>3, <1>4, <1>5 DEF ServiceInv

(* Steps that only move an instance between the phases before it serves.       *)
LEMMA MovesOn ==
    ASSUME ServiceInv, NEW i \in Instances, NEW from \in Starting \cup {"serving"}, NEW to \in Phases \ {"down", "ending"},
           Move(i, from, to), from # "migrating", to # "migrating",
           to \in Serving => from = "serving" , from = "serving" => to = "draining",
           UNCHANGED <<lock, applied, pending, known, serving>>
    PROVE  ServiceInv'
<1> USE DEF ServiceInv, Move, serving
<1>1. ServiceTypeOK'
  BY DEF ServiceTypeOK, Phases
<1>2. LockIsExclusive'
  BY DEF LockIsExclusive, ServiceTypeOK
<1>3. PendingFollows'
  BY DEF PendingFollows
<1>4. ServedIsApplied'
  BY DEF ServedIsApplied, ServiceTypeOK, Serving, Known
<1>5. AtServers'
  BY DEF AtServers, ServiceTypeOK, Starting
<1> QED
  BY <1>1, <1>2, <1>3, <1>4, <1>5

LEMMA LockStep == ASSUME ServiceInv, NEW i \in Instances, Lock(i)
                  PROVE  ServiceInv'
<1> USE DEF ServiceInv, Lock, Move, serving
<1>1. ServiceTypeOK'
  BY DEF ServiceTypeOK, Phases, Starting
<1>2. LockIsExclusive'
  BY DEF LockIsExclusive, ServiceTypeOK
<1>3. PendingFollows'
  BY DEF PendingFollows
<1>4. ServedIsApplied'
  BY DEF ServedIsApplied, ServiceTypeOK, Serving, Closing, Known
<1>5. AtServers'
  BY DEF AtServers, ServiceTypeOK, Phases, Starting
<1> QED
  BY <1>1, <1>2, <1>3, <1>4, <1>5

LEMMA MigrateStep == ASSUME ServiceInv, NEW i \in Instances, Migrate(i)
                     PROVE  ServiceInv'
<1> PICK id \in Unapplied(i) :
        /\ \A other \in Unapplied(i) : id <= other
        /\ pending' = [pending EXCEPT ![i] = @ \cup {id}]
  BY DEF Migrate
<1> USE DEF ServiceInv, serving
<1>1. /\ phase[i] = "migrating" /\ UNCHANGED <<phase, lock, applied, known, open, request, cached>>
      /\ i \in lock /\ known[i] = applied
  BY DEF Migrate, LockIsExclusive
<1>2. Release[i] \in Nat /\ id \in 1 .. Release[i] /\ id \notin applied /\ id \notin pending[i]
  BY <1>1, ServiceAssumption DEF Unapplied, Known
<1>3. ServiceTypeOK'
  BY <1>1, <1>2 DEF ServiceTypeOK, Ids
<1>4. LockIsExclusive'
  BY <1>1 DEF LockIsExclusive, ServiceTypeOK
<1>5. 1 .. id \subseteq applied \cup pending[i] \cup {id}
  <2>1. ASSUME NEW k \in 1 .. id, k # id, k \notin applied, k \notin pending[i]
        PROVE  FALSE
    <3>1. k \in Unapplied(i)
      BY <1>1, <1>2, <2>1 DEF Unapplied, Known
    <3> QED
      BY <1>2, <2>1, <3>1
  <2> QED
    BY <2>1
<1>6. PendingFollows'
  <2>1. \A j \in Instances : pending'[j] = IF j = i THEN pending[i] \cup {id} ELSE pending[j]
    BY DEF ServiceTypeOK
  <2> QED
    BY <1>1, <1>2, <1>5, <2>1 DEF PendingFollows
<1>7. ServedIsApplied'
  BY <1>1 DEF ServedIsApplied, Known
<1>8. AtServers'
  BY <1>1 DEF AtServers
<1> QED
  BY <1>3, <1>4, <1>6, <1>7, <1>8

LEMMA ListenStep == ASSUME ServiceInv, NEW i \in Instances, Listen(i)
                    PROVE  ServiceInv'
<1> USE DEF ServiceInv, serving
<1>1. /\ phase[i] = "migrating" /\ phase' = [phase EXCEPT ![i] = "serving"]
      /\ UNCHANGED <<known, open, request, cached>>
      /\ applied' = applied \cup pending[i] /\ pending' = [pending EXCEPT ![i] = {}] /\ lock' = lock \ {i}
      /\ i \in lock /\ known[i] = applied
  BY DEF Listen, Move, LockIsExclusive
<1>2. ServiceTypeOK'
  BY <1>1 DEF ServiceTypeOK, Phases
<1>3. \A j \in Instances : j # i => j \notin lock /\ pending[j] = {} /\ pending'[j] = {}
  BY <1>1 DEF LockIsExclusive, ServiceTypeOK
<1>4. LockIsExclusive'
  BY <1>1, <1>3 DEF LockIsExclusive, ServiceTypeOK
<1>5. PendingFollows'
  BY <1>1, <1>3 DEF PendingFollows, ServiceTypeOK
<1>6. ServedIsApplied'
  <2>1. Known(i) \subseteq applied'
    BY <1>1 DEF Listen, Unapplied
  <2> QED
    BY <1>1, <2>1 DEF ServedIsApplied, ServiceTypeOK, Known
<1>7. AtServers'
  BY <1>1 DEF AtServers, ServiceTypeOK, Phases, Starting
<1> QED
  BY <1>2, <1>4, <1>5, <1>6, <1>7

LEMMA ExitStep == ASSUME ServiceInv, NEW i \in Instances, Exit(i)
                  PROVE  ServiceInv'
<1> USE DEF ServiceInv, Exit
<1>1. ServiceTypeOK'
  <2>1. [at |-> Nobody, stage |-> "cut off"] \in [at : Instances \cup {Nobody}, stage : Stages]
    BY DEF Stages
  <2>2. request' \in [Requests -> [at : Instances \cup {Nobody}, stage : Stages]]
    BY <2>1 DEF ServiceTypeOK
  <2>3. "down" \in Phases
    BY DEF Phases
  <2> QED
    BY <2>2, <2>3 DEF ServiceTypeOK
<1>2. LockIsExclusive'
  BY DEF LockIsExclusive, ServiceTypeOK
<1>3. PendingFollows'
  <2>1. \A j \in Instances : pending'[j] = {} \/ pending'[j] = pending[j]
    BY DEF ServiceTypeOK
  <2>2. applied' = applied /\ PendingFollows
    OBVIOUS
  <2> HIDE DEF ServiceInv, Exit
  <2> QED
    BY <2>1, <2>2 DEF PendingFollows
<1>4. ServedIsApplied'
  BY DEF ServedIsApplied, ServiceTypeOK, Serving, Closing, Known
<1>5. AtServers'
  <2>1. ASSUME NEW r \in Requests
        PROVE  \/ request'[r] = request[r] /\ request[r].at # i
               \/ request'[r] = [at |-> Nobody, stage |-> "cut off"]
    BY DEF ServiceTypeOK
  <2>2. \A r \in Requests : request'[r].at # Nobody => phase'[request'[r].at] \in {"serving", "draining"}
    BY <2>1 DEF AtServers, ServiceTypeOK
  <2>3. \A j \in Instances : phase'[j] \in Phases \ {"down", "ending"} => open'[j] = {"redis", "pool"}
    BY DEF AtServers, ServiceTypeOK
  <2>4. \A r \in Requests : request'[r].stage = "store" => r \in Sound
    BY <2>1 DEF AtServers
  <2> QED
    BY <2>2, <2>3, <2>4 DEF AtServers
<1> QED
  BY <1>1, <1>2, <1>3, <1>4, <1>5

(* Steps of a request, at an instance that serves it.                          *)
LEMMA RequestStep ==
    ASSUME ServiceInv, NEW r \in Requests,
           NEW at \in Instances \cup {Nobody}, NEW stage \in Stages,
           request' = [request EXCEPT ![r] = [at |-> at, stage |-> stage]],
           at # Nobody => phase[at] \in {"serving", "draining"},
           stage = "store" => r \in Sound,
           cached' \subseteq Sound, UNCHANGED <<phase, lock, applied, known, pending, open>>
    PROVE  ServiceInv'
<1> USE DEF ServiceInv
<1>1. \A s \in Requests : request'[s] = IF s = r THEN [at |-> at, stage |-> stage] ELSE request[s]
  BY DEF ServiceTypeOK
<1>2. ServiceTypeOK'
  BY DEF ServiceTypeOK
<1>3. LockIsExclusive' /\ PendingFollows' /\ ServedIsApplied'
  BY DEF LockIsExclusive, PendingFollows, ServedIsApplied, Known
<1>4. AtServers'
  BY <1>1 DEF AtServers
<1> QED
  BY <1>2, <1>3, <1>4

LEMMA RestartStep == ASSUME ServiceInv, NEW i \in Instances, Restart(i)
                     PROVE  ServiceInv'
<1> USE DEF ServiceInv, Restart, Move
<1>1. ServiceTypeOK'
  BY DEF ServiceTypeOK, Phases, Starting
<1>2. LockIsExclusive'
  BY DEF LockIsExclusive, ServiceTypeOK
<1>3. PendingFollows'
  BY DEF PendingFollows
<1>4. ServedIsApplied'
  BY DEF ServedIsApplied, ServiceTypeOK, Serving, Closing, Known
<1>5. AtServers'
  BY DEF AtServers, ServiceTypeOK
<1> QED
  BY <1>1, <1>2, <1>3, <1>4, <1>5

(* The server has answered what it had when its connections go.                *)
LEMMA ClosingStep == ASSUME ServiceInv, NEW i \in Instances, Drained(i) \/ Disconnect(i)
                     PROVE  ServiceInv'
<1> USE DEF ServiceInv
<1>1. PICK to \in {"disconnecting", "ending"} :
        /\ Move(i, IF to = "ending" THEN "disconnecting" ELSE "draining", to)
        /\ to = "disconnecting" => InFlight(i) = {} /\ open' = open
        /\ to = "ending" => open' = [open EXCEPT ![i] = @ \ {"redis"}]
  BY DEF Drained, Disconnect, serving
<1>2. UNCHANGED <<lock, applied, known, pending, request, cached>>
  BY DEF Drained, Disconnect, startup, serving
<1>3. ServiceTypeOK'
  BY <1>1, <1>2 DEF ServiceTypeOK, Move, Phases, Closing
<1>4. LockIsExclusive'
  BY <1>1, <1>2 DEF LockIsExclusive, ServiceTypeOK, Move
<1>5. PendingFollows'
  BY <1>2 DEF PendingFollows
<1>6. ServedIsApplied'
  BY <1>1, <1>2 DEF ServedIsApplied, ServiceTypeOK, Serving, Closing, Known, Move
<1>7. AtServers'
  <2>1. ASSUME NEW r \in Requests, request[r].at # Nobody
        PROVE  request[r].at # i /\ phase'[request[r].at] = phase[request[r].at]
    <3>1. request[r].at \in Instances /\ phase[request[r].at] \in {"serving", "draining"}
      BY <2>1 DEF AtServers, ServiceTypeOK
    <3>2. request[r].at # i
      BY <1>1, <3>1 DEF Move, InFlight
    <3> QED
      BY <1>1, <3>1, <3>2 DEF Move, ServiceTypeOK
  <2>2. \A r \in Requests : request'[r].at # Nobody => phase'[request'[r].at] \in {"serving", "draining"}
    BY <1>2, <2>1 DEF AtServers
  <2>3. \A j \in Instances : phase'[j] \in Phases \ {"down", "ending"} => open'[j] = {"redis", "pool"}
    BY <1>1 DEF AtServers, ServiceTypeOK, Move, Phases, Closing
  <2> QED
    BY <1>2, <2>2, <2>3 DEF AtServers
<1> QED
  BY <1>3, <1>4, <1>5, <1>6, <1>7

LEMMA ServingStep ==
    ASSUME ServiceInv, NEW r \in Requests, Seated(r) \/ LookUp(r) \/ Compile(r) \/ Store(r) \/ Forget(r)
    PROVE  ServiceInv'
<1>1. UNCHANGED <<phase, lock, applied, known, pending, open>>
  BY DEF Seated, LookUp, Compile, Store, Forget, startup
<1>2. cached \subseteq Sound /\ (request[r].stage = "store" => r \in Sound)
  BY DEF ServiceInv, AtServers
<1>3. cached' \subseteq Sound
  BY <1>2 DEF Seated, LookUp, Compile, Store, Forget, Reply
<1>4. CASE request' = [request EXCEPT ![r] = [at |-> Nobody, stage |-> "answered"]]
  <2>1. "answered" \in Stages /\ "answered" # "store"
    BY DEF Stages
  <2> QED
    BY <1>1, <1>3, <1>4, <2>1, RequestStep
<1>5. ASSUME NEW to \in Stages, request' = [request EXCEPT ![r].stage = to], to = "store" => r \in Sound
      PROVE  ServiceInv'
  <2>1. /\ request[r] \in [at : Instances \cup {Nobody}, stage : Stages]
        /\ request \in [Requests -> [at : Instances \cup {Nobody}, stage : Stages]]
        /\ request[r].at # Nobody => phase[request[r].at] \in {"serving", "draining"}
    BY DEF ServiceInv, ServiceTypeOK, AtServers
  <2>2. request' = [request EXCEPT ![r] = [at |-> request[r].at, stage |-> to]]
    <3>1. [request[r] EXCEPT !.stage = to] = [at |-> request[r].at, stage |-> to]
      BY <2>1
    <3>2. request' = [request EXCEPT ![r] = [request[r] EXCEPT !.stage = to]]
      BY <1>5, Zenon
    <3> QED
      BY <3>1, <3>2, Zenon
  <2>3. request[r].at \in Instances \cup {Nobody}
    BY <2>1
  <2> QED
    BY <1>1, <1>3, <1>5, <2>1, <2>2, <2>3, RequestStep
<1>6. CASE request' = request
  BY <1>1, <1>3, <1>6 DEF ServiceInv, ServiceTypeOK, LockIsExclusive, PendingFollows, ServedIsApplied, AtServers, Known
<1>7. \/ request' = request
      \/ request' = [request EXCEPT ![r] = [at |-> Nobody, stage |-> "answered"]]
      \/ \E to \in Stages : request' = [request EXCEPT ![r].stage = to] /\ (to = "store" => r \in Sound)
  BY DEF Seated, LookUp, Compile, Store, Forget, Reply, Step, Stages
<1> QED
  BY <1>4, <1>5, <1>6, <1>7

LEMMA ServiceStep == ServiceInv /\ [ServiceNext]_serviceVars => ServiceInv'
<1> SUFFICES ASSUME ServiceInv, [ServiceNext]_serviceVars
             PROVE  ServiceInv'
  OBVIOUS
<1>1. CASE DatabaseComesUp
  BY <1>1 DEF DatabaseComesUp, serving, ServiceInv, ServiceTypeOK, LockIsExclusive, PendingFollows, ServedIsApplied,
              AtServers, Known
<1>2. ASSUME NEW i \in Instances, WaitForDatabase(i) \/ LookForTable(i) \/ CreateTable(i) \/ Signal(i)
      PROVE  ServiceInv'
  <2>1. CASE WaitForDatabase(i)
    BY <2>1, MovesOn DEF WaitForDatabase, startup, Phases, Starting, Serving, Closing
  <2>2. CASE LookForTable(i)
    <3>1. UNCHANGED <<lock, applied, pending, known, serving>>
      BY <2>2 DEF LookForTable, startup
    <3>2. Move(i, "creating", "locking") \/ Move(i, "creating", "colliding")
      BY <2>2 DEF LookForTable
    <3>3. CASE Move(i, "creating", "locking")
      BY <3>1, <3>3, MovesOn DEF Phases, Starting, Serving, Closing
    <3>4. CASE Move(i, "creating", "colliding")
      BY <3>1, <3>4, MovesOn DEF Phases, Starting, Serving, Closing
    <3> QED
      BY <3>2, <3>3, <3>4
  <2>3. CASE CreateTable(i)
    BY <2>3, MovesOn DEF CreateTable, Phases, Starting, Serving, Closing
  <2>4. CASE Signal(i)
    BY <2>4, MovesOn DEF Signal, startup, Phases, Starting, Serving, Closing
  <2> QED
    BY <1>2, <2>1, <2>2, <2>3, <2>4
<1>3. ASSUME NEW i \in Instances, TryInVain(i)
      PROVE  ServiceInv'
  BY <1>3 DEF TryInVain, serving, ServiceInv, ServiceTypeOK, LockIsExclusive, PendingFollows, ServedIsApplied,
              AtServers, Known
<1>4. ASSUME NEW i \in Instances, FailToStart(i) \/ End(i) \/ GiveUp(i)
      PROVE  ServiceInv'
  BY <1>4, ExitStep DEF FailToStart, End, GiveUp
<1>5. ASSUME NEW i \in Instances, Restart(i)
      PROVE  ServiceInv'
  BY <1>5, RestartStep
<1>6. ASSUME NEW i \in Instances, Drained(i) \/ Disconnect(i)
      PROVE  ServiceInv'
  BY <1>6, ClosingStep
<1>7. ASSUME NEW i \in Instances, NEW r \in Requests, Accept(i, r)
      PROVE  ServiceInv'
  <2>1. "seat" \in Stages /\ "seat" # "store" /\ cached \subseteq Sound
    BY DEF Stages, ServiceInv, AtServers
  <2> QED
    BY <1>7, <2>1, RequestStep DEF Accept, startup
<1>8. ASSUME NEW r \in Requests, Seated(r) \/ LookUp(r) \/ Compile(r) \/ Store(r) \/ Forget(r)
      PROVE  ServiceInv'
  BY <1>8, ServingStep
<1>9. CASE UNCHANGED serviceVars
  BY <1>9 DEF serviceVars, startup, serving, ServiceInv, ServiceTypeOK, LockIsExclusive, PendingFollows,
              ServedIsApplied, AtServers, Known
<1> QED
  BY <1>1, <1>2, <1>3, <1>4, <1>5, <1>6, <1>7, <1>8, <1>9, LockStep, MigrateStep, ListenStep DEF ServiceNext

(* Who serves, serves on a schema that has all it knows of, and no migration   *)
(* is applied twice, however many instances start, die and start again.        *)
THEOREM SchemasAreWhole == ServiceSpec => []SchemaIsWhole
<1>1. ServiceInv => SchemaIsWhole
  BY DEF ServiceInv, ServiceTypeOK, LockIsExclusive, PendingFollows, ServedIsApplied, SchemaIsWhole, Serving
<1> QED
  BY <1>1, ServiceStarts, ServiceStep, PTL DEF ServiceSpec

(* A request that was accepted meets open connections until it is answered or  *)
(* its process ends, and only firmware that compiled is cached.                *)
THEOREM RequestsDrain == ServiceSpec => []RequestsAreDrained
<1>1. ServiceInv => RequestsAreDrained
  <2> SUFFICES ASSUME ServiceInv, NEW r \in Requests, request[r].at # Nobody
               PROVE  open[request[r].at] = {"redis", "pool"}
    BY DEF ServiceInv, AtServers, RequestsAreDrained
  <2>1. request[r].at \in Instances
    BY DEF ServiceInv, ServiceTypeOK
  <2>2. phase[request[r].at] \in {"serving", "draining"}
    BY DEF ServiceInv, AtServers
  <2>3. phase[request[r].at] \in Phases \ {"down", "ending"}
    BY <2>2 DEF Phases, Closing
  <2> QED
    BY <2>1, <2>3 DEF ServiceInv, AtServers
<1> QED
  BY <1>1, ServiceStarts, ServiceStep, PTL DEF ServiceSpec

-------------------------------------------------------------------------------
(* Where a compile is, and what may come of it. *)
Made == {"write", "run", "read", "clean"}
Doings == {"nothing", "lookup", "store"} \cup Made
Whys == {"none", "disk", "killed", "daemon", "image", "binary"}
Results == {"none", "ok", "500", "503", "diagnostics"}
Names == Sketches \cup {NoFirmware}
JobRecords ==
    [doing : Doings, sketch : Names, dir : Nat, result : Results, firmware : Names, fault : Whys]
Folders == [sketch : Names, out : Names]

CompilerTypeOK ==
    /\ job \in [Jobs -> JobRecords]
    /\ made \in Nat /\ DOMAIN dirs \subseteq 1 .. made /\ dirs \in [DOMAIN dirs -> Folders]
    /\ litter \subseteq DOMAIN dirs
    /\ toolchain \in {"ready", "daemon", "image", "binary"}
    /\ firmwareOf \in [Sketches -> Names]

(* A request with a directory works in it, and finds there what it put there   *)
(* itself; a result that is known already is the one of its own sketch.        *)
Fair(j) ==
    /\ j.result = "ok" => j.firmware = j.sketch /\ Quality[j.sketch] = "sound"
    /\ j.result = "diagnostics" => Quality[j.sketch] \in {"faulty", "unlinkable"} \/ j.fault = "killed"
    /\ j.result = "503" => j.fault \in {"daemon", "image", "binary"}
    /\ j.result = "500" => j.fault # "none" \/ Quality[j.sketch] \in {"unlinkable", "misnamed"}

InPlace(j, folders, ended) ==
    /\ j.dir # NoDir <=> j.doing \in Made
    /\ j.dir # NoDir => j.dir \in DOMAIN folders \ ended
    /\ j.doing # "nothing" => j.sketch \in Sketches
    /\ j.doing \in {"write", "run", "read"} => Quality[j.sketch] # "misnamed"
    /\ j.doing \in {"run", "read"} => folders[j.dir].sketch = j.sketch
    /\ j.doing = "read" => folders[j.dir].out = j.sketch /\ Quality[j.sketch] = "sound"
    /\ j.doing = "store" => j.result = "ok"

OwnDirs ==
    /\ \A d \in DOMAIN dirs \ litter : \E r \in Jobs : job[r].dir = d
    /\ \A q, r \in Jobs : job[q].dir = job[r].dir => q = r \/ job[r].dir = NoDir

CompilerInv ==
    /\ CompilerTypeOK
    /\ \A r \in Jobs : Fair(job[r]) /\ InPlace(job[r], dirs, litter)
    /\ OwnDirs
    /\ \A s \in Sketches : firmwareOf[s] # NoFirmware => firmwareOf[s] = s /\ Quality[s] = "sound"

-------------------------------------------------------------------------------
LEMMA Moved ==
    ASSUME CompilerTypeOK, NEW r \in Jobs, NEW from, NEW to \in JobRecords, Moves(r, from, to)
    PROVE  /\ job' \in [Jobs -> JobRecords] /\ job[r] \in JobRecords /\ job[r].doing = from
           /\ job'[r] = to /\ \A q \in Jobs : q # r => job'[q] = job[q]
BY DEF CompilerTypeOK, Moves

LEMMA CompilerStarts == CompilerInit => CompilerInv
<1> SUFFICES ASSUME CompilerInit
             PROVE  CompilerInv
  OBVIOUS
<1>1. /\ Untried \in JobRecords /\ Untried.doing = "nothing" /\ Untried.dir = NoDir /\ Untried.result = "none"
      /\ \A r \in Jobs : job[r] = Untried
  BY DEF Untried, JobRecords, Doings, Whys, Results, Names, NoDir, NoFirmware, CompilerInit
<1>2. CompilerTypeOK
  BY <1>1 DEF CompilerTypeOK, CompilerInit, Names, NoFirmware
<1>3. \A r \in Jobs : Fair(job[r]) /\ InPlace(job[r], dirs, litter)
  BY <1>1 DEF Fair, InPlace, Made
<1>4. OwnDirs
  BY <1>1 DEF OwnDirs, CompilerInit
<1> QED
  BY <1>2, <1>3, <1>4 DEF CompilerInv, CompilerInit

(* A step of one request: it touches no directory but its own.                 *)
LEMMA OneMoves ==
    ASSUME CompilerInv, NEW r \in Jobs, NEW from, NEW to \in JobRecords, Moves(r, from, to),
           Fair(to), InPlace(to, dirs', litter), litter' = litter, CompilerTypeOK', OwnDirs',
           \A e \in DOMAIN dirs : e # job[r].dir => e \in DOMAIN dirs' /\ dirs'[e] = dirs[e],
           \A s \in Sketches : firmwareOf'[s] # NoFirmware => firmwareOf'[s] = s /\ Quality[s] = "sound"
    PROVE  CompilerInv'
<1>1. /\ job[r].doing = from /\ job'[r] = to
      /\ \A q \in Jobs : q # r => job'[q] = job[q]
  BY Moved DEF CompilerInv
<1>2. ASSUME NEW q \in Jobs
      PROVE  Fair(job'[q]) /\ InPlace(job'[q], dirs', litter')
  <2>1. CASE q = r
    BY <1>1, <2>1
  <2>2. CASE q # r
    <3>1. Fair(job[q]) /\ InPlace(job[q], dirs, litter) /\ job'[q] = job[q]
      BY <1>1, <2>2 DEF CompilerInv
    <3>2. job[q].dir = NoDir \/ job[q].dir # job[r].dir
      BY <2>2 DEF CompilerInv, OwnDirs
    <3>3. InPlace(job[q], dirs', litter)
      BY <3>1, <3>2 DEF InPlace, Made
    <3> QED
      BY <3>1, <3>3
  <2> QED
    BY <2>1, <2>2
<1> QED
  BY <1>2 DEF CompilerInv

(* A step of one request that makes and removes no directory.                  *)
LEMMA OneStays ==
    ASSUME CompilerInv, NEW r \in Jobs, NEW from, NEW to \in JobRecords, Moves(r, from, to),
           to.dir = job[r].dir, Fair(to), InPlace(to, dirs', litter),
           DOMAIN dirs' = DOMAIN dirs, dirs' \in [DOMAIN dirs -> Folders],
           \A e \in DOMAIN dirs : e # job[r].dir => dirs'[e] = dirs[e],
           UNCHANGED <<made, litter, toolchain, firmwareOf>>
    PROVE  CompilerInv'
<1>1. /\ job' \in [Jobs -> JobRecords] /\ job'[r] = to
      /\ \A q \in Jobs : q # r => job'[q] = job[q]
  BY Moved DEF CompilerInv
<1>2. \A q \in Jobs : job'[q].dir = job[q].dir
  BY <1>1
<1>3. OwnDirs'
  BY <1>2 DEF OwnDirs, CompilerInv
<1>4. CompilerTypeOK'
  BY <1>1 DEF CompilerTypeOK, CompilerInv
<1>5. \A s \in Sketches : firmwareOf'[s] # NoFirmware => firmwareOf'[s] = s /\ Quality[s] = "sound"
  BY DEF CompilerInv
<1>6. \A e \in DOMAIN dirs : e # job[r].dir => e \in DOMAIN dirs' /\ dirs'[e] = dirs[e]
  OBVIOUS
<1> QED
  BY <1>3, <1>4, <1>5, <1>6, OneMoves

(* And one that leaves every directory as it is.                               *)
LEMMA OneAnswers ==
    ASSUME CompilerInv, NEW r \in Jobs, NEW from, NEW to \in JobRecords, Moves(r, from, to),
           to.dir = job[r].dir, Fair(to), InPlace(to, dirs, litter),
           UNCHANGED <<dirs, made, litter, toolchain, firmwareOf>>
    PROVE  CompilerInv'
<1>1. dirs' = dirs /\ dirs \in [DOMAIN dirs -> Folders] /\ UNCHANGED <<made, litter, toolchain, firmwareOf>>
  BY DEF CompilerInv, CompilerTypeOK
<1> QED
  BY <1>1, OneStays

(* An error that is thrown where a directory is.                               *)
LEMMA OneThrows ==
    ASSUME CompilerInv, NEW r \in Jobs, NEW from \in {"write", "run", "read"},
           NEW result \in Results, NEW why \in Whys, Throws(r, from, result, why),
           result # "ok",
           result = "diagnostics" => Quality[job[r].sketch] \in {"faulty", "unlinkable"} \/ why = "killed",
           result = "503" => why \in {"daemon", "image", "binary"},
           result = "500" => why # "none" \/ Quality[job[r].sketch] \in {"unlinkable", "misnamed"},
           UNCHANGED <<dirs, made, litter, toolchain, firmwareOf>>
    PROVE  CompilerInv'
<1> DEFINE to == [job[r] EXCEPT !.doing = "clean", !.result = result, !.fault = why]
<1>1. job[r] \in JobRecords /\ Moves(r, from, to) /\ job[r].doing = from /\ InPlace(job[r], dirs, litter)
  BY DEF CompilerInv, CompilerTypeOK, Throws, Moves
<1>2. /\ to \in JobRecords /\ to.doing = "clean" /\ to.result = result /\ to.fault = why
      /\ to.dir = job[r].dir /\ to.sketch = job[r].sketch
  BY <1>1 DEF JobRecords, Doings, Made
<1> HIDE DEF to
<1>3. Fair(to)
  BY <1>2 DEF Fair
<1>4. InPlace(to, dirs, litter)
  BY <1>1, <1>2 DEF InPlace, Made
<1> QED
  BY <1>1, <1>2, <1>3, <1>4, OneAnswers
-------------------------------------------------------------------------------
LEMMA PostStep == ASSUME CompilerInv, NEW r \in Jobs, Post(r)
                  PROVE  CompilerInv'
<1> PICK s \in Sketches : Moves(r, "nothing", [Untried EXCEPT !.doing = "lookup", !.sketch = s])
  BY DEF Post
<1> DEFINE to == [Untried EXCEPT !.doing = "lookup", !.sketch = s]
<1>1. /\ to \in JobRecords /\ to.doing = "lookup" /\ to.sketch = s /\ to.dir = NoDir /\ to.result = "none"
  BY DEF Untried, JobRecords, Doings, Made, Whys, Results, Names, NoDir, NoFirmware
<1>2. Moves(r, "nothing", to)
  OBVIOUS
<1> HIDE DEF to
<1>3. job[r].dir = NoDir
  <2>1. InPlace(job[r], dirs, litter) /\ job[r].doing = "nothing"
    BY <1>2 DEF CompilerInv, Moves
  <2> QED
    BY <2>1 DEF InPlace, Made
<1>4. Fair(to) /\ InPlace(to, dirs, litter)
  BY <1>1 DEF Fair, InPlace, Made
<1> QED
  BY <1>1, <1>2, <1>3, <1>4, OneAnswers DEF Post

LEMMA HitStep == ASSUME CompilerInv, NEW r \in Jobs, Hit(r)
                 PROVE  CompilerInv'
<1> DEFINE to == [job[r] EXCEPT !.doing = "nothing", !.result = "ok", !.firmware = firmwareOf[job[r].sketch]]
<1>1. /\ job[r] \in JobRecords /\ job[r].doing = "lookup" /\ InPlace(job[r], dirs, litter) /\ Moves(r, "lookup", to)
      /\ firmwareOf \in [Sketches -> Names] /\ firmwareOf[job[r].sketch] # NoFirmware
  BY DEF CompilerInv, CompilerTypeOK, Hit
<1>2. job[r].sketch \in Sketches /\ job[r].dir = NoDir
  BY <1>1 DEF InPlace, Made
<1>3. firmwareOf[job[r].sketch] = job[r].sketch /\ Quality[job[r].sketch] = "sound"
  BY <1>1, <1>2 DEF CompilerInv
<1>4. /\ to \in JobRecords /\ to.doing = "nothing" /\ to.result = "ok" /\ to.firmware = job[r].sketch
      /\ to.dir = NoDir /\ to.sketch = job[r].sketch
  BY <1>1, <1>2, <1>3 DEF JobRecords, Doings, Results
<1> HIDE DEF to
<1>5. Fair(to) /\ InPlace(to, dirs, litter)
  BY <1>3, <1>4 DEF Fair, InPlace, Made
<1> QED
  BY <1>1, <1>2, <1>4, <1>5, OneAnswers DEF Hit

LEMMA MisnamedStep ==
    ASSUME CompilerInv, NEW r \in Jobs, Quality[job[r].sketch] = "misnamed", Answers(r, "lookup", "500"),
           UNCHANGED <<dirs, made, litter, toolchain, firmwareOf>>
    PROVE  CompilerInv'
<1> DEFINE to == [job[r] EXCEPT !.doing = "nothing", !.result = "500"]
<1>1. /\ job[r] \in JobRecords /\ job[r].doing = "lookup" /\ InPlace(job[r], dirs, litter) /\ Moves(r, "lookup", to)
  BY DEF CompilerInv, CompilerTypeOK, Answers, Moves
<1>2. /\ to \in JobRecords /\ to.doing = "nothing" /\ to.result = "500"
      /\ to.dir = job[r].dir /\ to.sketch = job[r].sketch
  BY <1>1 DEF JobRecords, Doings, Results
<1> HIDE DEF to
<1>3. Fair(to) /\ InPlace(to, dirs, litter)
  BY <1>1, <1>2 DEF Fair, InPlace, Made
<1> QED
  BY <1>1, <1>2, <1>3, OneAnswers

LEMMA MkdtempStep ==
    ASSUME CompilerInv, NEW r \in Jobs, job[r].doing = "lookup", Quality[job[r].sketch] # "misnamed", Mkdtemp(r),
           UNCHANGED <<toolchain, firmwareOf, litter>>
    PROVE  CompilerInv'
<1>0. made \in Nat
  BY DEF CompilerInv, CompilerTypeOK
<1> PICK n \in Nat : n = made + 1
  BY <1>0
<1> DEFINE to == [job[r] EXCEPT !.doing = "write", !.dir = n]
           empty == [sketch |-> "none", out |-> NoFirmware]
<1>1. /\ job[r] \in JobRecords /\ InPlace(job[r], dirs, litter) /\ Fair(job[r]) /\ Moves(r, "lookup", to)
      /\ made \in Nat /\ DOMAIN dirs \subseteq 1 .. made /\ dirs \in [DOMAIN dirs -> Folders]
      /\ litter \subseteq DOMAIN dirs /\ made' = n /\ dirs' = Holding(n, empty) /\ n = made + 1
  BY DEF CompilerInv, CompilerTypeOK, Mkdtemp
<1>2. /\ to \in JobRecords /\ to.doing = "write" /\ to.dir = n
      /\ to.sketch = job[r].sketch /\ to.result = job[r].result /\ to.firmware = job[r].firmware
      /\ to.fault = job[r].fault
  BY <1>1 DEF JobRecords, Doings, Made
<1>3. n \notin DOMAIN dirs /\ n \notin litter /\ n # NoDir /\ DOMAIN dirs \cup {n} \subseteq 1 .. n
      /\ NoDir \notin DOMAIN dirs
  <2>1. \A e \in 1 .. made : e # 0 /\ e # n /\ e \in 1 .. n
    BY <1>0, <1>1
  <2>2. n # 0 /\ n \in 1 .. n
    BY <1>0, <1>1
  <2> HIDE DEF to
  <2> QED
    BY <1>0, <1>1, <2>1, <2>2 DEF NoDir
<1>4. empty \in Folders
  BY DEF Folders, Names, NoFirmware
<1> HIDE DEF to, empty
<1>5. /\ DOMAIN dirs' = DOMAIN dirs \cup {n} /\ dirs' \in [DOMAIN dirs' -> Folders]
      /\ \A e \in DOMAIN dirs : dirs'[e] = dirs[e]
  BY <1>1, <1>3, <1>4 DEF Holding
<1>6. /\ job' \in [Jobs -> JobRecords] /\ job'[r] = to
      /\ \A q \in Jobs : q # r => job'[q] = job[q]
  <2>1. CompilerTypeOK /\ to \in JobRecords /\ Moves(r, "lookup", to)
    BY <1>1, <1>2 DEF CompilerInv
  <2> QED
    BY <2>1, Moved
<1>7. \A q \in Jobs : job[q].dir # n
  <2> SUFFICES ASSUME NEW q \in Jobs
               PROVE  job[q].dir # n
    OBVIOUS
  <2>1. InPlace(job[q], dirs, litter)
    BY DEF CompilerInv
  <2> QED
    BY <1>3, <2>1 DEF InPlace
<1>8. job[r].dir = NoDir /\ job[r].sketch \in Sketches
  BY <1>1 DEF InPlace, Made
<1>9. OwnDirs'
  <2>1. ASSUME NEW d \in DOMAIN dirs' \ litter'
        PROVE  \E q \in Jobs : job'[q].dir = d
    <3>1. CASE d = n
      BY <1>2, <1>6, <3>1
    <3>2. CASE d # n
      <4>1. d \in DOMAIN dirs \ litter /\ d # NoDir
        BY <1>3, <1>5, <3>2
      <4>2. PICK q \in Jobs : job[q].dir = d
        BY <4>1 DEF CompilerInv, OwnDirs
      <4>3. q # r
        BY <1>8, <4>1, <4>2
      <4> QED
        BY <1>6, <4>2, <4>3
    <3> QED
      BY <3>1, <3>2
  <2>2. ASSUME NEW p \in Jobs, NEW q \in Jobs, job'[p].dir = job'[q].dir
        PROVE  p = q \/ job'[p].dir = NoDir
    <3>1. CASE p # r /\ q # r
      <4>1. job'[p] = job[p] /\ job'[q] = job[q]
        BY <1>6, <3>1
      <4>2. job[p].dir = job[q].dir
        BY <2>2, <4>1
      <4>3. p = q \/ job[q].dir = NoDir
        BY <4>2 DEF CompilerInv, OwnDirs
      <4> QED
        BY <2>2, <4>1, <4>3
    <3>2. CASE p = r /\ q # r
      BY <1>2, <1>6, <1>7, <2>2, <3>2
    <3>3. CASE p # r /\ q = r
      BY <1>2, <1>6, <1>7, <2>2, <3>3
    <3> QED
      BY <3>1, <3>2, <3>3
  <2> QED
    BY <2>1, <2>2 DEF OwnDirs
<1>10. CompilerTypeOK'
  BY <1>1, <1>3, <1>5, <1>6 DEF CompilerTypeOK, CompilerInv
<1>11. Fair(to)
  BY <1>1, <1>2 DEF Fair
<1>12. InPlace(to, dirs', litter)
  BY <1>2, <1>3, <1>5, <1>8 DEF InPlace, Made
<1>13. \A e \in DOMAIN dirs : e # job[r].dir => e \in DOMAIN dirs' /\ dirs'[e] = dirs[e]
  BY <1>5
<1>14. \A s \in Sketches : firmwareOf'[s] # NoFirmware => firmwareOf'[s] = s /\ Quality[s] = "sound"
  BY DEF CompilerInv
<1> QED
  BY <1>1, <1>2, <1>9, <1>10, <1>11, <1>12, <1>13, <1>14, OneMoves

LEMMA WriteFilesStep == ASSUME CompilerInv, NEW r \in Jobs, WriteFiles(r)
                        PROVE  CompilerInv'
<1> DEFINE to == [job[r] EXCEPT !.doing = "run"]
           d == job[r].dir
<1>1. /\ job[r] \in JobRecords /\ job[r].doing = "write" /\ InPlace(job[r], dirs, litter) /\ Fair(job[r])
      /\ Moves(r, "write", to) /\ dirs \in [DOMAIN dirs -> Folders] /\ d \in DOMAIN dirs
      /\ dirs' = [dirs EXCEPT ![d].sketch = job[r].sketch]
      /\ UNCHANGED <<made, litter, toolchain, firmwareOf>>
  BY DEF CompilerInv, CompilerTypeOK, WriteFiles, Moves
<1>2. /\ to \in JobRecords /\ to.doing = "run" /\ to.result = job[r].result /\ to.firmware = job[r].firmware
      /\ to.dir = job[r].dir /\ to.sketch = job[r].sketch /\ to.fault = job[r].fault
  BY <1>1 DEF JobRecords, Doings, Made
<1>3. /\ DOMAIN dirs' = DOMAIN dirs /\ dirs' \in [DOMAIN dirs -> Folders]
      /\ \A e \in DOMAIN dirs : e # d => dirs'[e] = dirs[e]
      /\ dirs'[d].sketch = job[r].sketch
  BY <1>1 DEF JobRecords, Folders
<1> HIDE DEF to
<1>4. Fair(to)
  BY <1>1, <1>2 DEF Fair
<1>5. InPlace(to, dirs', litter)
  BY <1>1, <1>2, <1>3 DEF InPlace, Made
<1> QED
  BY <1>1, <1>2, <1>3, <1>4, <1>5, OneStays

LEMMA DiskStep == ASSUME CompilerInv, NEW r \in Jobs, DiskFails(r)
                  PROVE  CompilerInv'
<1>1. PICK from \in {"write", "read"} :
        Throws(r, from, "500", IF job[r].dir \notin DOMAIN dirs THEN "none" ELSE "disk")
  BY DEF DiskFails
<1>2. job[r].doing = from /\ InPlace(job[r], dirs, litter)
  BY <1>1 DEF CompilerInv, Throws, Moves
<1>3. job[r].dir \in DOMAIN dirs
  BY <1>2 DEF InPlace, Made
<1>4. Throws(r, from, "500", "disk")
  BY <1>1, <1>3
<1>5. "500" \in Results /\ "disk" \in Whys /\ from \in {"write", "run", "read"}
  BY DEF Results, Whys
<1>6. UNCHANGED <<dirs, made, litter, toolchain, firmwareOf>>
  BY DEF DiskFails
<1> QED
  BY <1>4, <1>5, <1>6, OneThrows

(* The toolchain finds the sketch in the directory the request wrote it to.    *)
LEMMA RunStep == ASSUME CompilerInv, NEW r \in Jobs, RunArduinoCli(r)
                 PROVE  CompilerInv'
<1> DEFINE s == job[r].sketch
           d == job[r].dir
<1>1. /\ job[r] \in JobRecords /\ job[r].doing = "run" /\ InPlace(job[r], dirs, litter) /\ Fair(job[r])
      /\ dirs \in [DOMAIN dirs -> Folders] /\ toolchain \in {"ready", "daemon", "image", "binary"}
      /\ UNCHANGED <<made, litter, toolchain, firmwareOf>>
  BY DEF CompilerInv, CompilerTypeOK, RunArduinoCli
<1>2. d \in DOMAIN dirs /\ dirs[d].sketch = s /\ s \in Sketches
  BY <1>1 DEF InPlace, Made
<1>3. ToolchainProblem(r) \/ Killed(r) \/ Diagnosed(r, s) \/ Unlinked(r, s) \/ Compiled(r, s)
  BY <1>2 DEF RunArduinoCli
<1>4. {"500", "diagnostics", "503"} \subseteq Results /\ "run" \in {"write", "run", "read"} /\ "ok" \notin {"500", "diagnostics", "503"}
      /\ {"none", "killed", "daemon", "image", "binary"} \subseteq Whys
  BY DEF Results, Whys
<1>5. CASE ToolchainProblem(r)
  <2>1. Throws(r, "run", "503", toolchain) /\ toolchain \in {"daemon", "image", "binary"} /\ dirs' = dirs
    BY <1>1, <1>5 DEF ToolchainProblem
  <2> QED
    BY <1>1, <1>4, <2>1, OneThrows
<1>6. CASE Killed(r)
  <2>1. PICK result \in Failures : Throws(r, "run", result, "killed")
    BY <1>6 DEF Killed
  <2>2. dirs' = dirs /\ result \in {"500", "diagnostics"}
    BY <1>6 DEF Killed, Failures
  <2> QED
    BY <1>1, <1>4, <2>1, <2>2, OneThrows
<1>7. CASE Diagnosed(r, s)
  <2>1. Throws(r, "run", "diagnostics", "none") /\ Quality[s] = "faulty" /\ dirs' = dirs
    BY <1>7 DEF Diagnosed
  <2> QED
    BY <1>1, <1>4, <2>1, OneThrows
<1>8. CASE Unlinked(r, s)
  <2>1. PICK result \in Failures : Throws(r, "run", result, "none")
    BY <1>8 DEF Unlinked
  <2>2. Quality[s] = "unlinkable" /\ dirs' = dirs /\ result \in {"500", "diagnostics"}
    BY <1>2, <1>8 DEF Unlinked, Failures
  <2> QED
    BY <1>1, <1>4, <2>1, <2>2, OneThrows
<1>9. CASE Compiled(r, s)
  <2> DEFINE to == [job[r] EXCEPT !.doing = "read"]
  <2>1. Moves(r, "run", to) /\ Quality[s] = "sound" /\ dirs' = [dirs EXCEPT ![d].out = s]
    BY <1>9 DEF Compiled
  <2>2. /\ to \in JobRecords /\ to.doing = "read" /\ to.result = job[r].result /\ to.firmware = job[r].firmware
        /\ to.dir = job[r].dir /\ to.sketch = job[r].sketch /\ to.fault = job[r].fault
    BY <1>1 DEF JobRecords, Doings, Made
  <2>3. /\ DOMAIN dirs' = DOMAIN dirs /\ dirs' \in [DOMAIN dirs -> Folders]
        /\ \A e \in DOMAIN dirs : e # d => dirs'[e] = dirs[e]
        /\ dirs'[d].sketch = s /\ dirs'[d].out = s
    BY <1>1, <1>2, <2>1 DEF Folders, Names
  <2> HIDE DEF to
  <2>4. Fair(to)
    BY <1>1, <2>2 DEF Fair
  <2>5. InPlace(to, dirs', litter)
    BY <1>1, <1>2, <2>1, <2>2, <2>3 DEF InPlace, Made
  <2> QED
    BY <1>1, <2>1, <2>2, <2>3, <2>4, <2>5, OneStays
<1> QED
  BY <1>3, <1>5, <1>6, <1>7, <1>8, <1>9

LEMMA ReadStep == ASSUME CompilerInv, NEW r \in Jobs, ReadFirmware(r)
                  PROVE  CompilerInv'
<1> DEFINE to == [job[r] EXCEPT !.doing = "clean", !.result = "ok", !.firmware = dirs[job[r].dir].out]
<1>1. /\ job[r] \in JobRecords /\ job[r].doing = "read" /\ InPlace(job[r], dirs, litter)
      /\ Moves(r, "read", to) /\ UNCHANGED <<dirs, made, litter, toolchain, firmwareOf>>
  BY DEF CompilerInv, CompilerTypeOK, ReadFirmware, Moves
<1>2. dirs[job[r].dir].out = job[r].sketch /\ Quality[job[r].sketch] = "sound" /\ job[r].sketch \in Names
  BY <1>1 DEF InPlace, JobRecords
<1>3. /\ to \in JobRecords /\ to.doing = "clean" /\ to.result = "ok" /\ to.firmware = job[r].sketch
      /\ to.dir = job[r].dir /\ to.sketch = job[r].sketch
  BY <1>1, <1>2 DEF JobRecords, Doings, Made, Results
<1> HIDE DEF to
<1>4. Fair(to) /\ InPlace(to, dirs, litter)
  BY <1>1, <1>2, <1>3 DEF Fair, InPlace, Made
<1> QED
  BY <1>1, <1>3, <1>4, OneAnswers

LEMMA CleanStep == ASSUME CompilerInv, NEW r \in Jobs, Clean(r)
                   PROVE  CompilerInv'
<1> DEFINE next == IF job[r].result = "ok" THEN "store" ELSE "nothing"
           to == [job[r] EXCEPT !.doing = next, !.dir = NoDir]
           d == job[r].dir
<1>1. /\ job[r] \in JobRecords /\ job[r].doing = "clean" /\ InPlace(job[r], dirs, litter) /\ Fair(job[r])
      /\ Moves(r, "clean", to) /\ dirs' = Without(d) /\ UNCHANGED <<made, litter, toolchain, firmwareOf>>
      /\ made \in Nat /\ DOMAIN dirs \subseteq 1 .. made /\ dirs \in [DOMAIN dirs -> Folders]
      /\ litter \subseteq DOMAIN dirs
  BY DEF CompilerInv, CompilerTypeOK, Clean, Moves
<1>2. /\ to \in JobRecords /\ to.doing = next /\ to.dir = NoDir
      /\ to.result = job[r].result /\ to.firmware = job[r].firmware
      /\ to.sketch = job[r].sketch /\ to.fault = job[r].fault
  BY <1>1 DEF JobRecords, Doings, NoDir
<1> HIDE DEF to
<1>3. d \in DOMAIN dirs \ litter /\ d # NoDir /\ job[r].sketch \in Sketches
  BY <1>1 DEF InPlace, Made
<1>4. /\ DOMAIN dirs' = DOMAIN dirs \ {d} /\ dirs' \in [DOMAIN dirs' -> Folders]
      /\ \A e \in DOMAIN dirs : e # d => e \in DOMAIN dirs' /\ dirs'[e] = dirs[e]
  BY <1>1 DEF Without
<1>5. /\ job' \in [Jobs -> JobRecords] /\ job'[r] = to
      /\ \A q \in Jobs : q # r => job'[q] = job[q]
  <2>1. CompilerTypeOK /\ to \in JobRecords /\ Moves(r, "clean", to)
    BY <1>1, <1>2 DEF CompilerInv
  <2> QED
    BY <2>1, Moved
<1>6. OwnDirs'
  <2>1. ASSUME NEW e \in DOMAIN dirs' \ litter'
        PROVE  \E q \in Jobs : job'[q].dir = e
    <3>1. e \in DOMAIN dirs \ litter /\ e # d
      BY <1>1, <1>4
    <3>2. PICK q \in Jobs : job[q].dir = e
      BY <3>1 DEF CompilerInv, OwnDirs
    <3> QED
      BY <1>5, <3>1, <3>2
  <2>2. ASSUME NEW p \in Jobs, NEW q \in Jobs, job'[p].dir = job'[q].dir
        PROVE  p = q \/ job'[p].dir = NoDir
    <3>1. CASE p # r /\ q # r
      BY <1>5, <2>2, <3>1 DEF CompilerInv, OwnDirs
    <3>2. CASE p = r \/ q = r
      BY <1>2, <1>5, <2>2, <3>2
    <3> QED
      BY <3>1, <3>2
  <2> QED
    BY <2>1, <2>2 DEF OwnDirs
<1>7. CompilerTypeOK'
  <2>1. litter \subseteq DOMAIN dirs \ {d}
    BY <1>1, <1>3
  <2> QED
    BY <1>1, <1>4, <1>5, <2>1 DEF CompilerTypeOK, CompilerInv
<1>8. Fair(to) /\ InPlace(to, dirs', litter)
  BY <1>1, <1>2, <1>3 DEF Fair, InPlace, Made
<1>9. \A s \in Sketches : firmwareOf'[s] # NoFirmware => firmwareOf'[s] = s /\ Quality[s] = "sound"
  BY <1>1 DEF CompilerInv
<1> QED
  BY <1>1, <1>2, <1>4, <1>6, <1>7, <1>8, <1>9, OneMoves

LEMMA StoreFirmwareStep == ASSUME CompilerInv, NEW r \in Jobs, StoreFirmware(r)
                           PROVE  CompilerInv'
<1> DEFINE to == [job[r] EXCEPT !.doing = "nothing"]
           s == job[r].sketch
<1>1. /\ job[r] \in JobRecords /\ job[r].doing = "store" /\ InPlace(job[r], dirs, litter) /\ Fair(job[r])
      /\ Moves(r, "store", to) /\ UNCHANGED <<dirs, made, litter, toolchain>>
      /\ firmwareOf \in [Sketches -> Names]
      /\ firmwareOf' = firmwareOf \/ firmwareOf' = [firmwareOf EXCEPT ![s] = job[r].firmware]
  BY DEF CompilerInv, CompilerTypeOK, StoreFirmware, Moves
<1>2. s \in Sketches /\ job[r].firmware = s /\ Quality[s] = "sound" /\ job[r].dir = NoDir
  BY <1>1 DEF InPlace, Fair, Made
<1>3. /\ to \in JobRecords /\ to.doing = "nothing" /\ to.dir = NoDir
      /\ to.result = job[r].result /\ to.firmware = job[r].firmware
      /\ to.sketch = job[r].sketch /\ to.fault = job[r].fault
  BY <1>1, <1>2 DEF JobRecords, Doings
<1> HIDE DEF to
<1>4. /\ firmwareOf' \in [Sketches -> Names]
      /\ \A z \in Sketches : firmwareOf'[z] # NoFirmware => firmwareOf'[z] = z /\ Quality[z] = "sound"
  BY <1>1, <1>2 DEF CompilerInv, Names
<1>5. /\ job' \in [Jobs -> JobRecords] /\ job'[r] = to
      /\ \A q \in Jobs : q # r => job'[q] = job[q]
  <2>1. CompilerTypeOK /\ to \in JobRecords /\ Moves(r, "store", to)
    BY <1>1, <1>3 DEF CompilerInv
  <2> QED
    BY <2>1, Moved
<1>6. CompilerTypeOK'
  BY <1>1, <1>4, <1>5 DEF CompilerTypeOK, CompilerInv
<1>7. OwnDirs'
  <2>1. \A q \in Jobs : job'[q].dir = job[q].dir
    BY <1>2, <1>3, <1>5
  <2> QED
    BY <1>1, <2>1 DEF OwnDirs, CompilerInv
<1>8. Fair(to) /\ InPlace(to, dirs', litter)
  BY <1>1, <1>3 DEF Fair, InPlace, Made
<1>9. \A e \in DOMAIN dirs : e # job[r].dir => e \in DOMAIN dirs' /\ dirs'[e] = dirs[e]
  BY <1>1
<1> QED
  BY <1>1, <1>3, <1>4, <1>6, <1>7, <1>8, <1>9, OneMoves

LEMMA ProcessEndsStep == ASSUME CompilerInv, ProcessEnds
                         PROVE  CompilerInv'
<1>1. /\ Untried \in JobRecords /\ Untried.doing = "nothing" /\ Untried.dir = NoDir /\ Untried.result = "none"
      /\ job' = [q \in Jobs |-> Untried] /\ litter' = DOMAIN dirs
      /\ UNCHANGED <<dirs, made, toolchain, firmwareOf>>
  BY DEF Untried, JobRecords, Doings, Whys, Results, Names, NoDir, NoFirmware, ProcessEnds
<1>2. CompilerTypeOK'
  BY <1>1 DEF CompilerInv, CompilerTypeOK
<1>3. \A q \in Jobs : Fair(job'[q]) /\ InPlace(job'[q], dirs', litter')
  BY <1>1 DEF Fair, InPlace, Made
<1>4. OwnDirs'
  BY <1>1 DEF OwnDirs
<1> QED
  BY <1>1, <1>2, <1>3, <1>4 DEF CompilerInv

LEMMA CompilerStep == CompilerInv /\ [CompilerNext]_compilerVars => CompilerInv'
<1> SUFFICES ASSUME CompilerInv, [CompilerNext]_compilerVars
             PROVE  CompilerInv'
  OBVIOUS
<1>1. ASSUME NEW r \in Jobs, StartCompile(r)
      PROVE  CompilerInv'
  BY <1>1, MisnamedStep, MkdtempStep DEF StartCompile
<1>2. CASE ToolchainChanges
  <2>1. /\ UNCHANGED <<job, dirs, made, firmwareOf, litter>> /\ toolchain' \in {"ready", "daemon", "image", "binary"}
    BY <1>2 DEF ToolchainChanges
  <2> QED
    BY <2>1 DEF CompilerInv, CompilerTypeOK, OwnDirs
<1>3. CASE EntryExpires
  <2>1. PICK s \in Sketches : firmwareOf' = [firmwareOf EXCEPT ![s] = NoFirmware]
    BY <1>3 DEF EntryExpires
  <2>2. UNCHANGED <<job, dirs, made, toolchain, litter>>
    BY <1>3 DEF EntryExpires
  <2> QED
    BY <2>1, <2>2 DEF CompilerInv, CompilerTypeOK, OwnDirs, Names
<1>4. CASE UNCHANGED compilerVars
  BY <1>4 DEF compilerVars, CompilerInv, CompilerTypeOK, OwnDirs
<1> QED
  BY <1>1, <1>2, <1>3, <1>4, PostStep, HitStep, WriteFilesStep, DiskStep, RunStep, ReadStep, CleanStep,
     StoreFirmwareStep, ProcessEndsStep DEF CompilerNext

(* What a request is told is what became of its own sketch, firmware comes of  *)
(* the sketch it is asked for, and every work directory is one compile's and   *)
(* goes with it, for any number of requests under way at once, any sketches,   *)
(* and a toolchain, a disk and a process that fail at any step.                *)
THEOREM CompilesStayHonest == CompilerSpec => []CompilesAreHonest
<1>1. CompilerInv => CompilesAreHonest
  <2> SUFFICES ASSUME CompilerInv
               PROVE  CompilesAreHonest
    OBVIOUS
  <2>1. FirmwareIsOfItsSketch /\ BlameIsWhereItBelongs
    BY DEF CompilerInv, Fair, FirmwareIsOfItsSketch, BlameIsWhereItBelongs
  <2>2. DirsAreTheCompiles
    <3>1. \A r \in Jobs : job[r].dir # NoDir => job[r].dir \in DOMAIN dirs \ litter
      BY DEF CompilerInv, InPlace
    <3>2. \A d \in DOMAIN dirs \ litter : d # NoDir
      BY DEF CompilerInv, CompilerTypeOK, NoDir
    <3> QED
      BY <3>1, <3>2 DEF CompilerInv, OwnDirs, DirsAreTheCompiles
  <2> QED
    BY <2>1, <2>2 DEF CompilesAreHonest
<1> QED
  BY <1>1, CompilerStarts, CompilerStep, PTL DEF CompilerSpec

(* Start-up, shutdown and the compiles in between keep what they promise       *)
(* together: schema, requests and results (main.ts, server.ts, compiler.ts).   *)
THEOREM ServiceStaysReliable == ServiceSpec /\ CompilerSpec => []ServiceIsReliable
<1>1. SchemaIsWhole /\ RequestsAreDrained /\ CompilesAreHonest => ServiceIsReliable
  BY DEF ServiceIsReliable
<1> QED
  BY <1>1, SchemasAreWhole, RequestsDrain, CompilesStayHonest, PTL

-------------------------------------------------------------------------------
(* The installer of the server the service runs on.                            *)

(* All of these are strings; the provers want to be told of the literal ones.  *)
Values   == STRING \cup {Unset, "", "smtp", "true", "false", "28610", "28710", "unknown",
                         "behind", "edge"}
Envs     == [Keys -> Values]
Services == [up : BOOLEAN, env : Envs]
Servers  == [packages : SUBSET {"git", "docker"}, source : {"none", "clean", "dirty"}, env : Envs, data : Values, service : Services,
             caddy : BOOLEAN, theirs : SUBSET {"web"}]
EditSet  == [how : {"seed", "keep", "set"}, key : Keys, value : Values]
Runs     == [stage : {"packages", "source", "look", "open", "edit", "up", "done"}, dry : BOOLEAN,
             seed : Seq(Keys \X STRING), domain : Values, mode : Values, port : Values,
             todo : Seq(EditSet), dropped : BOOLEAN, env : Envs, before : Servers]
IdleRun  == [stage |-> "idle"]

InstallerTypeOK ==
    /\ server \in Servers
    /\ installer \in Runs \cup {IdleRun}
    /\ launches \in Nat /\ launches <= Len(Passwords)
    /\ installer # IdleRun => launches > 0
    /\ excused \in BOOLEAN

(* A line that was dropped is about to be written again.                       *)
DroppedIsWritten ==
    installer # IdleRun /\ installer.dropped =>
        /\ installer.stage = "edit" /\ installer.todo # <<>>
        /\ Head(installer.todo).how # "keep" /\ ~Kept(Head(installer.todo))

(* The password the database was made with is in the settings, or it is the    *)
(* line that is just being rewritten.                                          *)
PasswordIsThere ==
    ~excused /\ server.data # Unset =>
        \/ server.env["POSTGRES_PASSWORD"] = server.data
        \/ /\ installer # IdleRun /\ ~installer.dry /\ installer.dropped
           /\ Head(installer.todo).key = "POSTGRES_PASSWORD"
           /\ Head(installer.todo).value = server.data

(* What runs was started with settings that open its database.                 *)
RunsOnItsPassword ==
    server.service.up =>
        /\ server.data # Unset
        /\ ~excused => server.service.env["POSTGRES_PASSWORD"] = server.data

(* After the edits in q, the line of key will say v.                           *)
EndsIn(q, env, key, v) ==
    /\ \A i \in 1 .. Len(q) :
         q[i].key = key /\ (\A j \in 1 .. Len(q) : j > i => q[j].key # key)
         => q[i].how = "set" /\ q[i].value = v
    /\ (\A i \in 1 .. Len(q) : q[i].key # key) => env[key] = v

Trusts(domain) == IF domain = "localhost" THEN "false" ELSE "true"

(* What this run answered is in the settings, or still to be written there.    *)
AnswersAreWritten ==
    installer # IdleRun /\ ~installer.dry =>
        /\ installer.stage = "edit" =>
             /\ EndsIn(installer.todo, server.env, "RJ_DOMAIN", installer.domain)
             /\ EndsIn(installer.todo, server.env, "RJ_TRUST_PROXY", Trusts(installer.domain))
        /\ installer.stage = "up" =>
             /\ server.env["RJ_DOMAIN"] = installer.domain
             /\ server.env["RJ_TRUST_PROXY"] = Trusts(installer.domain)
             /\ Accepts(server.env)
        /\ installer.stage = "done" =>
             /\ server.service.up
             /\ server.service.env["RJ_DOMAIN"] = installer.domain
             /\ server.service.env["RJ_TRUST_PROXY"] = Trusts(installer.domain)

(* Until a run starts one itself, for the domain it was given, the Caddy that   *)
(* is up was up before it.                                                     *)
CaddyIsKnown ==
    installer # IdleRun /\ ~installer.dry =>
        /\ installer.mode = "edge" => installer.domain # "localhost"
        /\ server.caddy => \/ installer.before.caddy
                           \/ installer.stage = "done" /\ installer.domain # "localhost"

InstallerInv ==
    /\ InstallerTypeOK
    /\ CaddyIsKnown
    /\ DroppedIsWritten
    /\ PasswordIsThere
    /\ RunsOnItsPassword
    /\ AnswersAreWritten
    /\ DryRunIsDry

-------------------------------------------------------------------------------
(* What a list of edits is.                                                    *)
LEMMA EditsType ==
    ASSUME NEW how \in {"seed", "keep", "set"}, NEW pairs \in Seq(Keys \X Values)
    PROVE  /\ Edits(how, pairs) \in Seq(EditSet) /\ Len(Edits(how, pairs)) = Len(pairs)
           /\ \A i \in 1 .. Len(pairs) :
                Edits(how, pairs)[i] = [how |-> how, key |-> pairs[i][1], value |-> pairs[i][2]]
<1> DEFINE e == Edits(how, pairs)
<1>1. DOMAIN pairs = 1 .. Len(pairs) /\ Len(pairs) \in Nat
  OBVIOUS
<1>2. e = [i \in 1 .. Len(pairs) |-> [how |-> how, key |-> pairs[i][1], value |-> pairs[i][2]]]
  BY <1>1 DEF Edits
<1>3. \A i \in 1 .. Len(pairs) : [how |-> how, key |-> pairs[i][1], value |-> pairs[i][2]] \in EditSet
  BY DEF EditSet
<1> HIDE DEF e
<1>4. e \in Seq(EditSet) /\ Len(e) = Len(pairs)
  BY <1>1, <1>2, <1>3
<1> QED
  BY <1>2, <1>4 DEF e

(* The answers come last of the edits, each line once.                         *)
LEMMA AnswersLast ==
    ASSUME NEW a \in Seq(EditSet), NEW port \in Values, NEW domain \in Values, NEW env,
           NEW key \in {"RJ_DOMAIN", "RJ_TRUST_PROXY"}
    PROVE  LET c == Edits("set", <<<<"RJ_PUBLISH_PORT", port>>, <<"RJ_DOMAIN", domain>>,
                                   <<"RJ_TRUST_PROXY", Trusts(domain)>>>>)
           IN  /\ a \o c \in Seq(EditSet) /\ a \o c # <<>>
               /\ EndsIn(a \o c, env, key, IF key = "RJ_DOMAIN" THEN domain ELSE Trusts(domain))
<1> DEFINE pairs == <<<<"RJ_PUBLISH_PORT", port>>, <<"RJ_DOMAIN", domain>>, <<"RJ_TRUST_PROXY", Trusts(domain)>>>>
           c == Edits("set", pairs)
           q == a \o c
           n == Len(a)
           v == IF key = "RJ_DOMAIN" THEN domain ELSE Trusts(domain)
<1>0. pairs \in Seq(Keys \X Values) /\ Len(pairs) = 3
  <2>1. Trusts(domain) \in Values
    BY DEF Trusts, Values
  <2>2. /\ <<"RJ_PUBLISH_PORT", port>> \in Keys \X Values
        /\ <<"RJ_DOMAIN", domain>> \in Keys \X Values
        /\ <<"RJ_TRUST_PROXY", Trusts(domain)>> \in Keys \X Values
    BY <2>1 DEF Keys
  <2> QED
    BY <2>2
<1>a. /\ pairs[1][1] = "RJ_PUBLISH_PORT"
      /\ pairs[2][1] = "RJ_DOMAIN" /\ pairs[2][2] = domain
      /\ pairs[3][1] = "RJ_TRUST_PROXY" /\ pairs[3][2] = Trusts(domain)
  OBVIOUS
<1> HIDE DEF pairs
<1>1. /\ c \in Seq(EditSet) /\ Len(c) = 3
      /\ \A i \in 1 .. 3 : c[i] = [how |-> "set", key |-> pairs[i][1], value |-> pairs[i][2]]
  BY <1>0, EditsType
<1>2. /\ c[1].key = "RJ_PUBLISH_PORT"
      /\ c[2].key = "RJ_DOMAIN" /\ c[2].value = domain /\ c[2].how = "set"
      /\ c[3].key = "RJ_TRUST_PROXY" /\ c[3].value = Trusts(domain) /\ c[3].how = "set"
  BY <1>1, <1>a
<1> HIDE DEF c
<1>3. /\ q \in Seq(EditSet) /\ n \in Nat /\ Len(q) = n + 3
      /\ q[n + 1] = c[1] /\ q[n + 2] = c[2] /\ q[n + 3] = c[3]
  <2>1. n \in Nat /\ a \in Seq(EditSet)
    OBVIOUS
  <2>2. q \in Seq(EditSet) /\ Len(q) = n + Len(c)
    BY <1>1, <2>1, ConcatProperties
  <2>3. Len(q) = n + 3
    BY <1>1, <2>2
  <2>4. ASSUME NEW i \in 1 .. Len(q), i > n
        PROVE  q[i] = c[i - n]
    BY <1>1, <2>1, <2>2, <2>4, ConcatProperties
  <2> HIDE DEF q, n
  <2> QED
    BY <2>1, <2>2, <2>3, <2>4
<1>4. n + 1 \in 1 .. Len(q) /\ n + 2 \in 1 .. Len(q) /\ n + 3 \in 1 .. Len(q)
  BY <1>3
<1> HIDE DEF q, n
<1>5. ASSUME NEW i \in 1 .. Len(q), q[i].key = key,
             \A j \in 1 .. Len(q) : j > i => q[j].key # key
      PROVE  q[i].how = "set" /\ q[i].value = v
  <2>1. CASE key = "RJ_DOMAIN"
    <3>1. ~(n + 2 > i)
      BY <1>2, <1>3, <1>4, <1>5, <2>1
    <3>2. i # n + 3
      BY <1>2, <1>3, <1>5, <2>1
    <3>3. i = n + 2
      BY <1>3, <3>1, <3>2
    <3> QED
      BY <1>2, <1>3, <2>1, <3>3
  <2>2. CASE key = "RJ_TRUST_PROXY"
    <3>1. ~(n + 3 > i)
      BY <1>2, <1>3, <1>4, <1>5, <2>2
    <3>2. i = n + 3
      BY <1>3, <3>1
    <3> QED
      BY <1>2, <1>3, <2>2, <3>2
  <2> QED
    BY <2>1, <2>2
<1>6. ~ \A i \in 1 .. Len(q) : q[i].key # key
  BY <1>2, <1>3, <1>4
<1>7. EndsIn(q, env, key, v)
  BY <1>5, <1>6 DEF EndsIn
<1>8. q # <<>>
  BY <1>3
<1> QED
  BY <1>3, <1>7, <1>8 DEF q, c, pairs

(* The first edit is carried out.                                              *)
LEMMA EditedFirst ==
    ASSUME NEW q \in Seq(EditSet), q # <<>>, NEW before, NEW after, NEW key, NEW v,
           EndsIn(q, before, key, v),
           Head(q).key # key => after[key] = before[key],
           Head(q).key = key /\ Head(q).how = "set" => after[key] = Head(q).value
    PROVE  EndsIn(Tail(q), after, key, v)
<1> DEFINE t == Tail(q)
<1>1. Len(q) \in Nat /\ Len(q) > 0 /\ Len(t) = Len(q) - 1 /\ Head(q) = q[1]
  OBVIOUS
<1>2. \A i \in 1 .. Len(t) : i + 1 \in 1 .. Len(q) /\ t[i] = q[i + 1]
  OBVIOUS
<1>3. \A j \in 1 .. Len(q) : j > 1 => j - 1 \in 1 .. Len(t) /\ q[j] = t[j - 1]
  BY <1>1, <1>2
<1>4. 1 \in 1 .. Len(q)
  BY <1>1
<1> HIDE DEF t
<1>5. ASSUME NEW i \in 1 .. Len(t), t[i].key = key, \A j \in 1 .. Len(t) : j > i => t[j].key # key
      PROVE  t[i].how = "set" /\ t[i].value = v
  <2>1. i + 1 \in 1 .. Len(q) /\ t[i] = q[i + 1]
    BY <1>2
  <2>2. ASSUME NEW j \in 1 .. Len(q), j > i + 1
        PROVE  q[j].key # key
    <3>1. j - 1 \in 1 .. Len(t) /\ q[j] = t[j - 1] /\ j - 1 > i
      BY <1>1, <1>3, <2>2
    <3> QED
      BY <1>5, <3>1
  <2> QED
    BY <1>5, <2>1, <2>2 DEF EndsIn
<1>6. ASSUME \A i \in 1 .. Len(t) : t[i].key # key
      PROVE  after[key] = v
  <2>1. \A j \in 1 .. Len(q) : j > 1 => q[j].key # key
    BY <1>3, <1>6
  <2>2. CASE q[1].key = key
    <3>1. q[1].how = "set" /\ q[1].value = v
      BY <1>1, <1>4, <2>1, <2>2 DEF EndsIn
    <3> QED
      BY <1>1, <2>2, <3>1
  <2>3. CASE q[1].key # key
    <3>1. \A j \in 1 .. Len(q) : q[j].key # key
      BY <1>1, <2>1, <2>3
    <3> QED
      BY <1>1, <2>3, <3>1 DEF EndsIn
  <2> QED
    BY <2>2, <2>3
<1>7. EndsIn(t, after, key, v)
  BY <1>5, <1>6 DEF EndsIn
<1> QED
  BY <1>7 DEF t

(* The first edit is still to be finished.                                     *)
LEMMA DroppedFirst ==
    ASSUME NEW q \in Seq(EditSet), q # <<>>, NEW before, NEW after, NEW key, NEW v,
           EndsIn(q, before, key, v),
           Head(q).key # key => after[key] = before[key]
    PROVE  EndsIn(q, after, key, v)
<1>1. 1 \in 1 .. Len(q) /\ Head(q) = q[1]
  OBVIOUS
<1>2. CASE Head(q).key = key
  BY <1>1, <1>2 DEF EndsIn
<1>3. CASE Head(q).key # key
  BY <1>3 DEF EndsIn
<1> QED
  BY <1>2, <1>3

-------------------------------------------------------------------------------
(* A run that has a step to take is under way.                                 *)
LEMMA RunUnderWay ==
    ASSUME InstallerTypeOK, installer.stage # "idle"
    PROVE  installer \in Runs /\ installer # IdleRun
BY DEF InstallerTypeOK, IdleRun

LEMMA RunsAreNotIdle == \A r \in Runs : r # IdleRun /\ r.stage # "idle"
BY DEF Runs, IdleRun

LEMMA InstallerStarts == InstallerInit => InstallerInv
<1> SUFFICES ASSUME InstallerInit PROVE InstallerInv
  OBVIOUS
<1>1. Blank \in Envs
  BY DEF Blank, Envs, Values
<1>2. Stopped \in Services
  BY <1>1 DEF Stopped, Services
<1>3. server \in Servers
  BY <1>1, <1>2 DEF InstallerInit, Packages, Servers, Values
<1>4. installer = IdleRun /\ server.data = Unset /\ ~server.service.up
  BY DEF InstallerInit, IdleRun, Stopped
<1>5. Len(Passwords) \in Nat
  BY InstallerAssumption
<1>6. launches = 0 /\ excused = FALSE
  BY DEF InstallerInit
<1>7. InstallerTypeOK
  <2>1. launches \in Nat /\ launches <= Len(Passwords)
    BY <1>5, <1>6
  <2>2. excused \in BOOLEAN
    BY <1>6
  <2> QED
    BY <1>3, <1>4, <2>1, <2>2 DEF InstallerTypeOK
<1> QED
  BY <1>4, <1>7 DEF InstallerInv, DroppedIsWritten, PasswordIsThere, RunsOnItsPassword, AnswersAreWritten,
                    CaddyIsKnown, DryRunIsDry, Stage, IdleRun

(* A run that ends, or is ended, leaves the server as it is.                   *)
LEMMA RunEnds ==
    ASSUME InstallerInv, Dies, UNCHANGED <<server, launches>>, excused' \in BOOLEAN,
           excused => excused', installer # IdleRun /\ installer.dropped => excused' \/
               (installer.dry \/ Head(installer.todo).key # "POSTGRES_PASSWORD")
    PROVE  InstallerInv'
<1>1. installer' = IdleRun
  BY DEF Dies, IdleRun
<1>2. InstallerTypeOK'
  BY <1>1 DEF InstallerInv, InstallerTypeOK
<1>3. PasswordIsThere'
  BY DEF InstallerInv, PasswordIsThere
<1>4. RunsOnItsPassword'
  BY DEF InstallerInv, RunsOnItsPassword
<1> QED
  BY <1>1, <1>2, <1>3, <1>4
     DEF InstallerInv, DroppedIsWritten, AnswersAreWritten, CaddyIsKnown, DryRunIsDry, Stage, IdleRun

LEMMA LaunchStep == InstallerInv /\ Launch => InstallerInv'
<1> SUFFICES ASSUME InstallerInv, Launch PROVE InstallerInv'
  OBVIOUS
<1>1. PICK dry \in BOOLEAN, seed \in Seeds, domain \in Domains :
        installer' = [stage |-> "packages", dry |-> dry, seed |-> seed, domain |-> domain,
                      mode |-> "unknown", port |-> "unknown", todo |-> <<>>, dropped |-> FALSE,
                      env |-> server.env, before |-> server]
  BY DEF Launch
<1>2. server \in Servers /\ installer = IdleRun /\ launches < Len(Passwords) /\ launches' = launches + 1
      /\ UNCHANGED <<server, excused>>
  <2>1. installer.stage = "idle"
    BY DEF Launch, Stage
  <2> QED
    BY <2>1, RunsAreNotIdle DEF InstallerInv, InstallerTypeOK, Launch
<1>3. seed \in Seq(Keys \X Values)
  <2>1. seed \in Seq(Keys \X STRING)
    BY InstallerAssumption
  <2>2. Keys \X STRING \subseteq Keys \X Values
    BY DEF Values
  <2> QED
    BY <2>1, <2>2
<1>4. domain \in Values /\ "unknown" \in Values
  BY InstallerAssumption DEF Values
<1>5. server.env \in Envs /\ <<>> \in Seq(EditSet)
  BY <1>2 DEF Servers
<1>6. installer' \in Runs
  <2>1. dry \in BOOLEAN /\ seed \in Seq(Keys \X STRING)
    BY InstallerAssumption
  <2> HIDE DEF Servers
  <2> QED
    BY <1>1, <1>2, <1>4, <1>5, <2>1 DEF Runs
<1>7. InstallerTypeOK'
  <2>1. Len(Passwords) \in Nat /\ launches \in Nat
    BY InstallerAssumption DEF InstallerInv, InstallerTypeOK
  <2>2. launches' \in Nat /\ launches' <= Len(Passwords) /\ launches' > 0
    BY <1>2, <2>1
  <2> QED
    BY <1>2, <1>6, <2>2 DEF InstallerInv, InstallerTypeOK
<1>8. DroppedIsWritten' /\ AnswersAreWritten'
  BY <1>1 DEF DroppedIsWritten, AnswersAreWritten
<1>9. PasswordIsThere' /\ RunsOnItsPassword'
  BY <1>2 DEF InstallerInv, PasswordIsThere, RunsOnItsPassword
<1>10. DryRunIsDry' /\ CaddyIsKnown'
  BY <1>1, <1>2 DEF DryRunIsDry, CaddyIsKnown, Stage
<1> QED
  BY <1>7, <1>8, <1>9, <1>10 DEF InstallerInv

(* A dry run that has left the stack alone still has.                          *)
LEMMA StaysDry ==
    ASSUME InstallerInv, installer # IdleRun, installer'.dry = installer.dry, installer'.before = installer.before,
           installer.dry => Stack(server') = Stack(server) /\ server.packages \subseteq server'.packages
    PROVE  DryRunIsDry'
<1> SUFFICES ASSUME installer.dry
             PROVE  /\ Stack(server') = Stack(installer.before)
                    /\ installer.before.packages \subseteq server'.packages
  BY DEF DryRunIsDry, Stack
<1>1. ~Stage("idle")
  BY RunsAreNotIdle DEF InstallerInv, InstallerTypeOK, Stage
<1>2. Stack(server) = Stack(installer.before) /\ installer.before.packages \subseteq server.packages
  BY <1>1 DEF InstallerInv, DryRunIsDry
<1> QED
  BY <1>2

LEMMA EarlyStep == InstallerInv /\ (InstallPackages \/ FetchSource \/ Look) => InstallerInv'
<1> SUFFICES ASSUME InstallerInv, InstallPackages \/ FetchSource \/ Look PROVE InstallerInv'
  OBVIOUS
<1>1. /\ installer \in Runs /\ installer # IdleRun /\ server \in Servers /\ ~installer.dropped
      /\ installer.stage \in {"packages", "source", "look"}
  BY RunUnderWay DEF InstallerInv, InstallerTypeOK, DroppedIsWritten, InstallPackages, FetchSource, Look, Stage
<1>2. UNCHANGED <<launches, excused>>
  BY DEF InstallPackages, FetchSource, Look
<1>3. /\ server' \in Servers /\ UNCHANGED <<server.env, server.data, server.service, server.caddy>>
      /\ installer.dry => Stack(server') = Stack(server) /\ server.packages \subseteq server'.packages
  <2>1. CASE FetchSource
    <3>1. PICK source \in {"none", "clean", "dirty"} :
            server' = [server EXCEPT !.source = source] /\ (installer.dry => source = server.source)
      BY <1>1, <2>1 DEF FetchSource, Servers
    <3> QED
      BY <1>1, <3>1 DEF Servers
  <2>2. CASE Look
    BY <1>1, <2>2 DEF Look
  <2>3. CASE InstallPackages
    <3>1. PICK more \in SUBSET {"git", "docker"} : server' = [server EXCEPT !.packages = @ \cup more]
      <4>1. CASE UNCHANGED server
        <5>1. server' = [server EXCEPT !.packages = @ \cup {}]
          BY <1>1, <4>1 DEF Servers
        <5> QED
          BY <5>1
      <4>2. CASE ~UNCHANGED server
        BY <2>3, <4>2 DEF InstallPackages
      <4> QED
        BY <4>1, <4>2
    <3>2. PICK grown \in SUBSET {"git", "docker"} :
            server' = [server EXCEPT !.packages = grown] /\ server.packages \subseteq grown
      BY <1>1, <3>1 DEF Servers
    <3> QED
      BY <1>1, <3>2 DEF Servers, Stack
  <2> QED
    BY <2>1, <2>2, <2>3
<1>4. RunsOnItsPassword'
  BY <1>2, <1>3 DEF InstallerInv, RunsOnItsPassword
<1>5. PasswordIsThere'
  BY <1>1, <1>2, <1>3 DEF InstallerInv, PasswordIsThere
<1>6. CASE Dies
  <2>1. installer' = IdleRun
    BY <1>6 DEF Dies, IdleRun
  <2>2. InstallerTypeOK'
    BY <1>2, <1>3, <2>1 DEF InstallerInv, InstallerTypeOK
  <2> QED
    BY <1>4, <1>5, <2>1, <2>2
       DEF InstallerInv, DroppedIsWritten, AnswersAreWritten, CaddyIsKnown, DryRunIsDry, Stage, IdleRun
<1>7. ASSUME NEW stage \in {"packages", "source", "look", "open"}, NEW mode \in Values, NEW port \in Values,
             mode = "edge" => mode = installer.mode \/ installer.domain # "localhost",
             installer' = [installer EXCEPT !.stage = stage, !.mode = mode, !.port = port]
      PROVE  InstallerInv'
  <2>1. /\ installer' \in Runs /\ installer'.dropped = FALSE /\ installer'.stage = stage
        /\ installer'.dry = installer.dry /\ installer'.before = installer.before
        /\ installer'.domain = installer.domain /\ installer'.mode = mode
    BY <1>1, <1>7 DEF Runs
  <2>2. InstallerTypeOK'
    BY <1>1, <1>2, <1>3, <2>1 DEF InstallerInv, InstallerTypeOK
  <2>3. DroppedIsWritten' /\ AnswersAreWritten'
    BY <2>1 DEF DroppedIsWritten, AnswersAreWritten
  <2>4. DryRunIsDry'
    BY <1>1, <1>3, <2>1, StaysDry
  <2>5. CaddyIsKnown'
    <3>1. ~installer.dry /\ mode = "edge" => installer.domain # "localhost"
      BY <1>1, <1>7 DEF InstallerInv, CaddyIsKnown
    <3> QED
      BY <1>1, <1>3, <2>1, <3>1 DEF InstallerInv, CaddyIsKnown
  <2> QED
    BY <1>4, <1>5, <2>2, <2>3, <2>4, <2>5 DEF InstallerInv
<1>8. ASSUME NEW stage \in {"packages", "source", "look"}, installer' = [installer EXCEPT !.stage = stage]
      PROVE  InstallerInv'
  <2>1. installer' = [installer EXCEPT !.stage = stage, !.mode = installer.mode, !.port = installer.port]
    BY <1>1, <1>8 DEF Runs
  <2>2. installer.mode \in Values /\ installer.port \in Values
    BY <1>1 DEF Runs
  <2> QED
    BY <1>7, <2>1, <2>2
<1>10. CASE (FetchSource \/ InstallPackages) /\ ~Dies
  <2>1. PICK stage \in {"packages", "source", "look"} : installer' = [installer EXCEPT !.stage = stage]
    <3>1. CASE FetchSource
      BY <1>10, <3>1 DEF FetchSource, Goes
    <3>2. CASE InstallPackages /\ UNCHANGED installer
      <4>1. installer.stage = "packages"
        BY <3>2 DEF InstallPackages, Stage
      <4>2. installer' = [installer EXCEPT !.stage = "packages"]
        BY <1>1, <3>2, <4>1 DEF Runs
      <4> QED
        BY <4>2
    <3>3. CASE InstallPackages /\ ~UNCHANGED installer
      BY <1>10, <3>3 DEF InstallPackages, Goes
    <3> QED
      BY <1>10, <3>1, <3>2, <3>3
  <2> QED
    BY <1>8, <2>1
<1>9. CASE Look /\ ~Dies
  <2>1. PICK mode \in {"behind", "edge"}, port \in {"28610", "28710"} :
          /\ mode = "edge" => installer.domain # "localhost"
          /\ installer' = [installer EXCEPT !.stage = "open", !.mode = mode, !.port = port]
    BY <1>9 DEF Look
  <2>2. mode \in Values /\ port \in Values
    BY DEF Values
  <2> QED
    BY <1>7, <2>1, <2>2
<1> QED
  BY <1>6, <1>10, <1>9

LEMMA OpenEnvStep == InstallerInv /\ OpenEnv => InstallerInv'
<1> SUFFICES ASSUME InstallerInv, OpenEnv PROVE InstallerInv'
  OBVIOUS
<1>1. installer \in Runs /\ installer # IdleRun /\ ~installer.dropped /\ UNCHANGED <<server, launches, excused>>
  BY RunUnderWay DEF InstallerInv, DroppedIsWritten, OpenEnv, Stage
<1>2. installer' = [installer EXCEPT !.stage = "edit", !.todo = EnvEdits(installer)]
  BY DEF OpenEnv
<1> DEFINE a == Edits("seed", installer.seed)
                \o Edits("keep", <<<<"POSTGRES_PASSWORD", Passwords[launches]>>, <<"SMTP_HOST", "">>>>)
<1>3. a \in Seq(EditSet)
  <2>1. Passwords[launches] \in Values
    <3>1. launches \in 1 .. Len(Passwords) /\ Passwords \in Seq(STRING)
      BY <1>1, InstallerAssumption DEF InstallerInv, InstallerTypeOK
    <3>2. Passwords[launches] \in STRING
      BY <3>1
    <3> QED
      BY <3>2 DEF Values
  <2>2. <<<<"POSTGRES_PASSWORD", Passwords[launches]>>, <<"SMTP_HOST", "">>>> \in Seq(Keys \X Values)
    <3>1. <<"POSTGRES_PASSWORD", Passwords[launches]>> \in Keys \X Values
      BY <2>1 DEF Keys
    <3>2. <<"SMTP_HOST", "">> \in Keys \X Values
      BY DEF Keys, Values
    <3> DEFINE p == <<"POSTGRES_PASSWORD", Passwords[launches]>>
               s == <<"SMTP_HOST", "">>
               S == Keys \X Values
    <3> HIDE DEF p, s, S
    <3>3. p \in S /\ s \in S
      BY <3>1, <3>2 DEF p, s, S
    <3>4. <<p, s>> \in Seq(S)
      BY <3>3
    <3> QED
      BY <3>4 DEF p, s, S
  <2>3. installer.seed \in Seq(Keys \X Values)
    <3>1. installer.seed \in Seq(Keys \X STRING)
      BY <1>1 DEF Runs
    <3>2. Keys \X STRING \subseteq Keys \X Values
      BY DEF Values
    <3> QED
      BY <3>1, <3>2
  <2>4. Edits("seed", installer.seed) \in Seq(EditSet)
    BY <2>3, EditsType
  <2>5. Edits("keep", <<<<"POSTGRES_PASSWORD", Passwords[launches]>>, <<"SMTP_HOST", "">>>>) \in Seq(EditSet)
    BY <2>2, EditsType
  <2> QED
    BY <2>4, <2>5, ConcatProperties
<1>4. installer.port \in Values /\ installer.domain \in Values
  BY <1>1 DEF Runs
<1> DEFINE c == Edits("set", <<<<"RJ_PUBLISH_PORT", installer.port>>, <<"RJ_DOMAIN", installer.domain>>,
                               <<"RJ_TRUST_PROXY", Trusts(installer.domain)>>>>)
<1>5. EnvEdits(installer) = a \o c
  BY DEF EnvEdits, Trusts
<1> HIDE DEF a
<1>6. /\ a \o c \in Seq(EditSet)
      /\ EndsIn(a \o c, server.env, "RJ_DOMAIN", installer.domain)
  BY <1>3, <1>4, AnswersLast
<1>7. EndsIn(a \o c, server.env, "RJ_TRUST_PROXY", Trusts(installer.domain))
  BY <1>3, <1>4, AnswersLast
<1> HIDE DEF c
<1>8. /\ installer' \in Runs /\ installer'.dropped = FALSE /\ installer'.stage = "edit"
      /\ installer'.dry = installer.dry /\ installer'.before = installer.before
      /\ installer'.todo = a \o c /\ installer'.domain = installer.domain
      /\ installer'.mode = installer.mode
  BY <1>1, <1>2, <1>5, <1>6 DEF Runs
<1>9. InstallerTypeOK'
  BY <1>1, <1>8 DEF InstallerInv, InstallerTypeOK
<1>10. DroppedIsWritten' /\ AnswersAreWritten'
  BY <1>1, <1>6, <1>7, <1>8 DEF DroppedIsWritten, AnswersAreWritten
<1>11. PasswordIsThere' /\ RunsOnItsPassword'
  BY <1>1 DEF InstallerInv, PasswordIsThere, RunsOnItsPassword
<1>12. DryRunIsDry'
  BY <1>1, <1>8, StaysDry
<1>13. CaddyIsKnown'
  BY <1>1, <1>8 DEF InstallerInv, CaddyIsKnown, OpenEnv, Stage
<1> QED
  BY <1>9, <1>10, <1>11, <1>12, <1>13 DEF InstallerInv

-------------------------------------------------------------------------------
(* The settings this run works on, and those of a dry run, are settings.       *)
LEMMA EnvIsTyped == InstallerInv /\ installer # IdleRun => Env \in Envs /\ server \in Servers /\ installer \in Runs
BY DEF InstallerInv, InstallerTypeOK, Env, Runs, Servers

LEMMA EditEnvStep == InstallerInv /\ EditEnv => InstallerInv'
<1> SUFFICES ASSUME InstallerInv, EditEnv PROVE InstallerInv'
  OBVIOUS
<1> DEFINE edit  == Head(installer.todo)
           drops == edit.how # "keep" /\ ~Kept(edit) /\ ~installer.dropped
           value == IF drops THEN Unset ELSE edit.value
           env   == IF Kept(edit) THEN Env ELSE [Env EXCEPT ![edit.key] = value]
           again == Kept(edit) \/ edit.how = "keep" \/ edit.key # "POSTGRES_PASSWORD" \/ installer.dry
                    \/ server.data \in {Unset, edit.value}
<1>1. /\ installer # IdleRun /\ installer.todo # <<>> /\ installer.stage = "edit"
      /\ Env \in Envs /\ server \in Servers /\ installer \in Runs
  BY RunUnderWay, EnvIsTyped DEF InstallerInv, EditEnv, Stage
<1>2. /\ installer' = [installer EXCEPT !.dropped = drops, !.todo = IF drops THEN @ ELSE Tail(@), !.env = env]
      /\ server' = IF installer.dry THEN server ELSE [server EXCEPT !.env = env]
      /\ UNCHANGED launches
  BY DEF EditEnv
<1>3. excused' \in BOOLEAN /\ (excused => excused') /\ (~excused' => again)
  <2>1. excused \in BOOLEAN
    BY DEF InstallerInv, InstallerTypeOK
  <2>2. excused' = (excused \/ ~again)
    BY DEF EditEnv
  <2> HIDE DEF again
  <2> QED
    BY <2>1, <2>2
<1>4. edit \in EditSet /\ installer.todo \in Seq(EditSet) /\ Tail(installer.todo) \in Seq(EditSet)
  <2>1. installer.todo \in Seq(EditSet)
    BY <1>1 DEF Runs
  <2> QED
    BY <1>1, <2>1
<1>5. edit.key \in Keys /\ edit.value \in Values /\ value \in Values
  BY <1>4 DEF EditSet, Values
<1> HIDE DEF edit
<1>6. installer.dropped => edit.how # "keep" /\ ~Kept(edit)
  BY <1>1 DEF InstallerInv, DroppedIsWritten, edit
<1>7. drops \in BOOLEAN
  OBVIOUS
<1>8. env \in Envs
  BY <1>1, <1>5 DEF Envs
<1>9. /\ Kept(edit) => env = Env
      /\ ~Kept(edit) => env[edit.key] = value /\ \A k \in Keys : k # edit.key => env[k] = Env[k]
  BY <1>1, <1>5 DEF Envs
<1>10. drops => edit.how # "keep" /\ ~Kept(edit) /\ value = Unset
  OBVIOUS
<1>11. ~drops => value = edit.value /\ (Kept(edit) \/ edit.how = "keep" \/ installer.dropped)
  OBVIOUS
<1> HIDE DEF value, env
<1>12. /\ installer' \in Runs /\ installer'.dropped = drops /\ installer'.stage = "edit"
       /\ installer'.dry = installer.dry /\ installer'.before = installer.before
       /\ installer'.domain = installer.domain /\ installer'.mode = installer.mode
       /\ installer'.todo = IF drops THEN installer.todo ELSE Tail(installer.todo)
  <2> HIDE DEF drops
  <2> DEFINE todo == IF drops THEN installer.todo ELSE Tail(installer.todo)
  <2>1. todo \in Seq(EditSet)
    BY <1>4
  <2>2. installer' = [installer EXCEPT !.dropped = drops, !.todo = todo, !.env = env]
    BY <1>1, <1>2 DEF Runs
  <2> HIDE DEF todo
  <2>3. installer' \in Runs
    BY <1>1, <1>7, <1>8, <2>1, <2>2 DEF Runs
  <2>4. /\ installer'.dropped = drops /\ installer'.stage = "edit"
        /\ installer'.dry = installer.dry /\ installer'.before = installer.before
        /\ installer'.domain = installer.domain /\ installer'.todo = todo
        /\ installer'.mode = installer.mode
    BY <1>1, <2>2 DEF Runs
  <2> QED
    BY <2>3, <2>4 DEF todo
<1>13. /\ server' \in Servers /\ UNCHANGED <<server.data, server.service, server.caddy>>
       /\ installer.dry => server' = server
       /\ ~installer.dry => server'.env = env /\ Env = server.env
  BY <1>1, <1>2, <1>8 DEF Servers, Env
<1>14. InstallerTypeOK'
  BY <1>1, <1>2, <1>3, <1>12, <1>13 DEF InstallerInv, InstallerTypeOK
<1>15. DroppedIsWritten'
  <2> HIDE DEF drops
  <2>1. CASE drops
    <3>1. installer'.stage = "edit" /\ installer'.todo # <<>> /\ Head(installer'.todo) = edit
      BY <1>1, <1>12, <2>1 DEF edit
    <3>2. edit.how # "keep" /\ ~(edit.how = "seed" /\ edit.value = "")
      BY <1>10, <2>1 DEF Kept
    <3> QED
      BY <3>1, <3>2 DEF DroppedIsWritten, Kept
  <2>2. CASE ~drops
    BY <1>12, <2>2 DEF DroppedIsWritten
  <2> QED
    BY <2>1, <2>2
<1>16. PasswordIsThere'
  <2> SUFFICES ASSUME ~excused', server'.data # Unset,
                      ~(~installer.dry /\ drops /\ edit.key = "POSTGRES_PASSWORD" /\ edit.value = server.data)
               PROVE  server'.env["POSTGRES_PASSWORD"] = server.data
    BY <1>12, <1>13, RunsAreNotIdle DEF PasswordIsThere, edit
  <2>1. \/ server.env["POSTGRES_PASSWORD"] = server.data
        \/ /\ ~installer.dry /\ installer.dropped
           /\ edit.key = "POSTGRES_PASSWORD" /\ edit.value = server.data
    BY <1>3, <1>13 DEF InstallerInv, PasswordIsThere, edit
  <2>2. CASE installer.dry
    BY <1>13, <2>1, <2>2
  <2>3. CASE ~installer.dry /\ (Kept(edit) \/ edit.key # "POSTGRES_PASSWORD")
    <3>1. server.env["POSTGRES_PASSWORD"] = server.data
      BY <1>6, <2>1, <2>3
    <3>2. "POSTGRES_PASSWORD" \in Keys
      BY DEF Keys
    <3> QED
      BY <1>9, <1>13, <2>3, <3>1, <3>2
  <2>4. CASE ~installer.dry /\ ~Kept(edit) /\ edit.key = "POSTGRES_PASSWORD"
    <3>1. CASE edit.how = "keep"
      <4>1. Env["POSTGRES_PASSWORD"] = Unset
        BY <2>4, <3>1 DEF Kept
      <4> QED
        BY <1>6, <1>13, <2>1, <3>1, <4>1
    <3>2. CASE edit.how # "keep"
      <4>1. edit.value = server.data
        BY <1>3, <1>13, <2>4, <3>2
      <4>2. ~drops
        BY <2>4, <4>1
      <4> QED
        BY <1>9, <1>11, <1>13, <2>4, <4>1, <4>2
    <3> QED
      BY <3>1, <3>2
  <2> QED
    BY <2>2, <2>3, <2>4
<1>17. RunsOnItsPassword'
  BY <1>3, <1>13 DEF InstallerInv, RunsOnItsPassword
<1>18. AnswersAreWritten'
  <2> SUFFICES ASSUME ~installer.dry
               PROVE  /\ EndsIn(installer'.todo, server'.env, "RJ_DOMAIN", installer.domain)
                      /\ EndsIn(installer'.todo, server'.env, "RJ_TRUST_PROXY", Trusts(installer.domain))
    BY <1>12 DEF AnswersAreWritten
  <2>1. ASSUME NEW key \in {"RJ_DOMAIN", "RJ_TRUST_PROXY"}, NEW v,
               EndsIn(installer.todo, server.env, key, v)
        PROVE  EndsIn(installer'.todo, server'.env, key, v)
    <3>1. key \in Keys
      BY DEF Keys
    <3>2. edit.key # key => server'.env[key] = server.env[key]
      BY <1>9, <1>13, <3>1
    <3>3. CASE drops
      <4>1. EndsIn(installer.todo, server'.env, key, v)
        BY <1>1, <1>4, <2>1, <3>2, DroppedFirst DEF edit
      <4> QED
        BY <1>12, <3>3, <4>1
    <3>4. CASE ~drops
      <4>1. edit.key = key /\ edit.how = "set" => server'.env[key] = edit.value
        <5>1. edit.how = "set" => ~Kept(edit)
          BY DEF Kept
        <5> QED
          BY <1>9, <1>11, <1>13, <3>4, <5>1
      <4>2. EndsIn(Tail(installer.todo), server'.env, key, v)
        BY <1>1, <1>4, <2>1, <3>2, <4>1, EditedFirst DEF edit
      <4> QED
        BY <1>12, <3>4, <4>2
    <3> QED
      BY <3>3, <3>4
  <2> QED
    BY <1>1, <2>1 DEF InstallerInv, AnswersAreWritten
<1>19. DryRunIsDry'
  BY <1>1, <1>12, <1>13, StaysDry
<1>20. CaddyIsKnown'
  BY <1>1, <1>12, <1>13 DEF InstallerInv, CaddyIsKnown
<1> QED
  BY <1>14, <1>15, <1>16, <1>17, <1>18, <1>19, <1>20 DEF InstallerInv

LEMMA SettleMailStep == InstallerInv /\ SettleMail => InstallerInv'
<1> SUFFICES ASSUME InstallerInv, SettleMail PROVE InstallerInv'
  OBVIOUS
<1>1. /\ installer # IdleRun /\ installer.todo = <<>> /\ installer.stage = "edit"
      /\ installer \in Runs /\ ~installer.dropped
  BY RunUnderWay DEF InstallerInv, SettleMail, Stage, DroppedIsWritten
<1>2. UNCHANGED <<server, launches, excused>>
  BY DEF SettleMail
<1>3. excused \in BOOLEAN
  BY DEF InstallerInv, InstallerTypeOK
<1>4. PasswordIsThere' /\ RunsOnItsPassword'
  BY <1>1, <1>2 DEF InstallerInv, PasswordIsThere, RunsOnItsPassword
<1>5. ~installer.dry => /\ server.env["RJ_DOMAIN"] = installer.domain
                        /\ server.env["RJ_TRUST_PROXY"] = Trusts(installer.domain)
  BY <1>1 DEF InstallerInv, AnswersAreWritten, EndsIn
<1>6. CASE Dies
  BY <1>1, <1>2, <1>3, <1>6, RunEnds
<1>7. CASE Goes("up") /\ Accepts(Env)
  <2>1. /\ installer' \in Runs /\ installer'.dropped = FALSE /\ installer'.stage = "up"
        /\ installer'.dry = installer.dry /\ installer'.before = installer.before
        /\ installer'.domain = installer.domain /\ installer'.mode = installer.mode
    BY <1>1, <1>7 DEF Goes, Runs
  <2>2. InstallerTypeOK'
    BY <1>1, <1>2, <2>1 DEF InstallerInv, InstallerTypeOK
  <2>3. ~installer.dry => Accepts(server.env)
    BY <1>7 DEF Env
  <2>4. DroppedIsWritten' /\ AnswersAreWritten'
    BY <1>2, <1>5, <2>1, <2>3 DEF DroppedIsWritten, AnswersAreWritten
  <2>5. DryRunIsDry'
    BY <1>1, <1>2, <2>1, StaysDry
  <2>6. CaddyIsKnown'
    BY <1>1, <1>2, <2>1 DEF InstallerInv, CaddyIsKnown
  <2> QED
    BY <1>4, <2>2, <2>4, <2>5, <2>6 DEF InstallerInv
<1>8. ASSUME NEW pairs \in Seq(Keys \X Values), Answer(pairs),
             \A i \in 1 .. Len(pairs) : pairs[i][1] \notin {"RJ_DOMAIN", "RJ_TRUST_PROXY"}
      PROVE  InstallerInv'
  <2> DEFINE q == Edits("set", pairs)
  <2>1. /\ q \in Seq(EditSet) /\ Len(q) = Len(pairs)
        /\ \A i \in 1 .. Len(pairs) : q[i] = [how |-> "set", key |-> pairs[i][1], value |-> pairs[i][2]]
    BY EditsType
  <2>2. installer' = [installer EXCEPT !.todo = q]
    BY <1>8 DEF Answer
  <2> HIDE DEF q
  <2>3. \A i \in 1 .. Len(q) : q[i].key \notin {"RJ_DOMAIN", "RJ_TRUST_PROXY"}
    <3> SUFFICES ASSUME NEW i \in 1 .. Len(q) PROVE q[i].key \notin {"RJ_DOMAIN", "RJ_TRUST_PROXY"}
      OBVIOUS
    <3>1. q[i].key = pairs[i][1]
      <4>1. i \in 1 .. Len(pairs)
        BY <2>1
      <4>2. q[i] = [how |-> "set", key |-> pairs[i][1], value |-> pairs[i][2]]
        BY <4>1, <2>1
      <4> QED
        BY <4>2
    <3>2. pairs[i][1] \notin {"RJ_DOMAIN", "RJ_TRUST_PROXY"}
      BY <1>8, <2>1
    <3> QED
      BY <3>1, <3>2
  <2>4. /\ installer' \in Runs /\ installer'.dropped = FALSE /\ installer'.stage = "edit"
        /\ installer'.dry = installer.dry /\ installer'.before = installer.before
        /\ installer'.domain = installer.domain /\ installer'.todo = q
        /\ installer'.mode = installer.mode
    BY <1>1, <2>1, <2>2 DEF Runs
  <2>5. InstallerTypeOK'
    BY <1>1, <1>2, <2>4 DEF InstallerInv, InstallerTypeOK
  <2>6. ~installer.dry => /\ EndsIn(q, server.env, "RJ_DOMAIN", installer.domain)
                          /\ EndsIn(q, server.env, "RJ_TRUST_PROXY", Trusts(installer.domain))
    BY <1>5, <2>3 DEF EndsIn
  <2>7. DroppedIsWritten' /\ AnswersAreWritten'
    BY <1>2, <2>4, <2>6 DEF DroppedIsWritten, AnswersAreWritten
  <2>8. DryRunIsDry'
    BY <1>1, <1>2, <2>4, StaysDry
  <2>9. CaddyIsKnown'
    BY <1>1, <1>2, <2>4 DEF InstallerInv, CaddyIsKnown
  <2> QED
    BY <1>4, <2>5, <2>7, <2>8, <2>9 DEF InstallerInv
<1>9. CASE Answer(<<<<"SMTP_HOST", "smtp">>, <<"RJ_REQUIRE_VERIFIED_EMAIL", "true">>>>)
  <2> DEFINE p == <<"SMTP_HOST", "smtp">>
             s == <<"RJ_REQUIRE_VERIFIED_EMAIL", "true">>
             S == Keys \X Values
  <2>1. p \in S /\ s \in S /\ p[1] = "SMTP_HOST" /\ s[1] = "RJ_REQUIRE_VERIFIED_EMAIL"
    BY DEF Keys, Values
  <2>2. Answer(<<p, s>>)
    BY <1>9
  <2> HIDE DEF p, s, S
  <2>3. /\ <<p, s>> \in Seq(S) /\ Len(<<p, s>>) = 2 /\ <<p, s>>[1] = p /\ <<p, s>>[2] = s
    BY <2>1
  <2>4. \A i \in 1 .. Len(<<p, s>>) : <<p, s>>[i][1] \notin {"RJ_DOMAIN", "RJ_TRUST_PROXY"}
    BY <2>1, <2>3
  <2> QED
    BY <1>8, <2>2, <2>3, <2>4 DEF S
<1>10. CASE Answer(<<<<"RJ_REQUIRE_VERIFIED_EMAIL", "false">>>>)
  <2> DEFINE s == <<"RJ_REQUIRE_VERIFIED_EMAIL", "false">>
             S == Keys \X Values
  <2>1. s \in S /\ s[1] = "RJ_REQUIRE_VERIFIED_EMAIL"
    BY DEF Keys, Values
  <2>2. Answer(<<s>>)
    BY <1>10
  <2> HIDE DEF s, S
  <2>3. <<s>> \in Seq(S) /\ Len(<<s>>) = 1 /\ <<s>>[1] = s
    BY <2>1
  <2>4. \A i \in 1 .. Len(<<s>>) : <<s>>[i][1] \notin {"RJ_DOMAIN", "RJ_TRUST_PROXY"}
    BY <2>1, <2>3
  <2> QED
    BY <1>8, <2>2, <2>3, <2>4 DEF S
<1> QED
  BY <1>6, <1>7, <1>9, <1>10 DEF SettleMail, Accepts

LEMMA BringUpStep == InstallerInv /\ BringUp => InstallerInv'
<1> SUFFICES ASSUME InstallerInv, BringUp PROVE InstallerInv'
  OBVIOUS
<1> DEFINE clash == \/ server.env["RJ_PUBLISH_PORT"] \in server.theirs
                    \/ installer.mode = "edge" /\ "web" \in server.theirs
<1>1. /\ installer # IdleRun /\ installer.stage = "up" /\ installer \in Runs /\ ~installer.dropped
      /\ server \in Servers
  BY RunUnderWay, EnvIsTyped DEF InstallerInv, BringUp, Stage, DroppedIsWritten
<1>2. UNCHANGED <<launches, changes, excused>> /\ excused \in BOOLEAN
  BY DEF BringUp, InstallerInv, InstallerTypeOK
<1>3. CASE Dies /\ UNCHANGED server
  BY <1>1, <1>2, <1>3, RunEnds
<1>4. Goes("done") => /\ installer' \in Runs /\ installer'.dropped = FALSE /\ installer'.stage = "done"
                      /\ installer'.dry = installer.dry /\ installer'.before = installer.before
                      /\ installer'.domain = installer.domain /\ installer'.mode = installer.mode
  BY <1>1 DEF Goes, Runs
<1>5. CASE installer.dry /\ Goes("done") /\ UNCHANGED server
  <2>1. InstallerTypeOK'
    BY <1>1, <1>2, <1>4, <1>5 DEF InstallerInv, InstallerTypeOK
  <2>2. DroppedIsWritten' /\ AnswersAreWritten'
    BY <1>4, <1>5 DEF DroppedIsWritten, AnswersAreWritten
  <2>3. PasswordIsThere' /\ RunsOnItsPassword'
    BY <1>1, <1>2, <1>5 DEF InstallerInv, PasswordIsThere, RunsOnItsPassword
  <2>4. DryRunIsDry' /\ CaddyIsKnown'
    BY <1>1, <1>4, <1>5, StaysDry DEF CaddyIsKnown
  <2> QED
    BY <2>1, <2>2, <2>3, <2>4 DEF InstallerInv
<1>6. CASE ~installer.dry /\ Given(server.env, "POSTGRES_PASSWORD")
  <2> DEFINE data == IF server.data = Unset THEN server.env["POSTGRES_PASSWORD"] ELSE server.data
             runs == ~clash /\ Accepts(server.env)
             caddy == server.caddy \/ (installer.mode = "edge" /\ ~clash)
  <2>1. /\ server' = [server EXCEPT !.data = data, !.service = [up |-> runs, env |-> server.env], !.caddy = caddy]
        /\ IF clash THEN Dies ELSE Goes("done")
    BY <1>1, <1>6 DEF BringUp, Servers
  <2>2. "POSTGRES_PASSWORD" \in Keys
    BY DEF Keys
  <2>3. data \in Values /\ data # Unset
    BY <1>1, <1>6, <2>2 DEF Servers, Envs, Given
  <2>4. ~excused => server.env["POSTGRES_PASSWORD"] = data
    BY <1>1, <1>6 DEF InstallerInv, PasswordIsThere
  <2>5. PICK u \in BOOLEAN : u = runs
    OBVIOUS
  <2>6. PICK c \in BOOLEAN : c = caddy
    <3>1. server.caddy \in BOOLEAN
      BY <1>1 DEF Servers
    <3> QED
      BY <3>1
  <2>7. server' = [server EXCEPT !.data = data, !.service = [up |-> u, env |-> server.env], !.caddy = c]
    BY <2>1, <2>5, <2>6
  <2>8. u = TRUE => ~clash
    BY <2>5
  <2>9. clash \/ ~Accepts(server.env) \/ u = TRUE
    BY <2>5
  <2>15. c => server.caddy \/ installer.mode = "edge"
    BY <2>6
  <2> HIDE DEF data, runs, caddy, clash
  <2>10. /\ server' \in Servers /\ server'.data = data /\ server'.env = server.env /\ server'.caddy = c
         /\ server'.service.up = u /\ server'.service.env = server.env
    <3>1. server.env \in Envs
      BY <1>1 DEF Servers
    <3>2. [up |-> u, env |-> server.env] \in Services
      BY <3>1 DEF Services
    <3> HIDE DEF Services
    <3> QED
      BY <1>1, <2>3, <2>7, <3>2 DEF Servers
  <2>11. PasswordIsThere'
    BY <1>2, <2>4, <2>10 DEF PasswordIsThere
  <2>12. RunsOnItsPassword'
    BY <1>2, <2>3, <2>4, <2>10 DEF RunsOnItsPassword
  <2>13. CASE clash
    <3>1. installer' = IdleRun
      BY <2>1, <2>13 DEF Dies, IdleRun
    <3>2. InstallerTypeOK'
      BY <1>2, <2>10, <3>1 DEF InstallerInv, InstallerTypeOK
    <3> QED
      BY <2>11, <2>12, <3>1, <3>2
         DEF InstallerInv, DroppedIsWritten, AnswersAreWritten, CaddyIsKnown, DryRunIsDry, Stage, IdleRun
  <2>14. CASE ~clash
    <3>1. Goes("done")
      BY <2>1, <2>14
    <3>2. InstallerTypeOK'
      BY <1>1, <1>2, <1>4, <2>10, <3>1 DEF InstallerInv, InstallerTypeOK
    <3>3. DroppedIsWritten'
      BY <1>4, <3>1 DEF DroppedIsWritten
    <3>4. AnswersAreWritten'
      <4>1. /\ server.env["RJ_DOMAIN"] = installer.domain
            /\ server.env["RJ_TRUST_PROXY"] = Trusts(installer.domain)
            /\ Accepts(server.env)
        BY <1>1, <1>6 DEF InstallerInv, AnswersAreWritten
      <4>2. u = TRUE
        BY <2>9, <2>14, <4>1
      <4> QED
        BY <1>4, <2>10, <3>1, <4>1, <4>2 DEF AnswersAreWritten
    <3>5. DryRunIsDry'
      BY <1>4, <1>6, <3>1 DEF DryRunIsDry
    <3>6. CaddyIsKnown'
      BY <1>1, <1>4, <1>6, <2>10, <2>15, <3>1 DEF InstallerInv, CaddyIsKnown
    <3> QED
      BY <2>11, <2>12, <3>2, <3>3, <3>4, <3>5, <3>6 DEF InstallerInv
  <2> QED
    BY <2>13, <2>14
<1> QED
  BY <1>3, <1>5, <1>6 DEF BringUp

LEMMA EndStep == InstallerInv /\ (Done \/ BreakOff) => InstallerInv'
<1> SUFFICES ASSUME InstallerInv, Done \/ BreakOff PROVE InstallerInv'
  OBVIOUS
<1>1. installer # IdleRun /\ Dies /\ UNCHANGED <<server, launches>>
  BY RunUnderWay DEF InstallerInv, Done, BreakOff, Stage, IdleRun
<1>2. excused \in BOOLEAN
  BY DEF InstallerInv, InstallerTypeOK
<1>3. CASE Done
  <2>1. ~installer.dropped /\ UNCHANGED excused
    BY <1>1, <1>3 DEF Done, Stage, InstallerInv, DroppedIsWritten
  <2> QED
    BY <1>1, <1>2, <2>1, RunEnds
<1>4. CASE BreakOff
  <2> DEFINE half == /\ Stage("edit") /\ ~installer.dry /\ installer.todo # <<>>
                     /\ installer.dropped /\ Head(installer.todo).key = "POSTGRES_PASSWORD"
  <2>1. excused' = (excused \/ half)
    BY <1>4 DEF BreakOff
  <2>2. installer.dropped => half \/ installer.dry \/ Head(installer.todo).key # "POSTGRES_PASSWORD"
    BY <1>1 DEF Stage, InstallerInv, DroppedIsWritten
  <2> HIDE DEF half
  <2>3. excused' \in BOOLEAN /\ (excused => excused') /\ (half => excused')
    BY <1>2, <2>1
  <2> QED
    BY <1>1, <2>2, <2>3, RunEnds
<1> QED
  BY <1>3, <1>4

LEMMA ServerChangesStep == InstallerInv /\ ServerChanges => InstallerInv'
<1> SUFFICES ASSUME InstallerInv, ServerChanges PROVE InstallerInv'
  OBVIOUS
<1>1. UNCHANGED <<installer, launches, excused>> /\ server \in Servers
  BY DEF ServerChanges, InstallerInv, InstallerTypeOK
<1>2. /\ server' \in Servers /\ server'.data = server.data
      /\ server'.env["POSTGRES_PASSWORD"] = server.env["POSTGRES_PASSWORD"]
      /\ server'.service = server.service \/ ~server'.service.up
      /\ installer = IdleRun \/ /\ server'.service = server.service /\ server'.env = server.env
                                /\ server'.caddy = server.caddy
                                /\ Stack(server') = Stack(server) /\ server'.packages = server.packages
  <2>1. CASE Stage("idle")
    <3>1. installer = IdleRun
      BY <2>1, RunsAreNotIdle DEF Stage, InstallerInv, InstallerTypeOK
    <3>2. ASSUME NEW key \in {"SMTP_HOST", "RJ_REQUIRE_VERIFIED_EMAIL"}, NEW v \in {"smtp", "true", "false"},
                 server' = [server EXCEPT !.env[key] = v]
          PROVE  /\ server' \in Servers /\ server'.data = server.data
                 /\ server'.env["POSTGRES_PASSWORD"] = server.env["POSTGRES_PASSWORD"]
                 /\ server'.service = server.service
      <4>1. [server.env EXCEPT ![key] = v] \in Envs
        BY <1>1 DEF Servers, Envs, Values
      <4>2. [server.env EXCEPT ![key] = v]["POSTGRES_PASSWORD"] = server.env["POSTGRES_PASSWORD"]
        BY <1>1 DEF Servers, Envs, Keys
      <4>3. server' = [server EXCEPT !.env = [server.env EXCEPT ![key] = v]]
        BY <1>1, <3>2 DEF Servers
      <4> QED
        BY <1>1, <4>1, <4>2, <4>3 DEF Servers
    <3>3. ASSUME NEW source \in {"clean", "dirty"}, server' = [server EXCEPT !.source = source]
          PROVE  server' \in Servers /\ UNCHANGED <<server.env, server.data, server.service>>
      BY <1>1, <3>3 DEF Servers
    <3>4. ASSUME server' = [server EXCEPT !.service = Stopped, !.caddy = FALSE]
          PROVE  server' \in Servers /\ UNCHANGED <<server.env, server.data>> /\ ~server'.service.up
      <4>1. Stopped \in Services /\ ~Stopped.up
        BY DEF Stopped, Services, Blank, Envs, Values
      <4> QED
        BY <1>1, <3>4, <4>1 DEF Servers
    <3>5. ASSUME NEW theirs \in SUBSET {"web"}, server' = [server EXCEPT !.theirs = theirs]
          PROVE  server' \in Servers /\ UNCHANGED <<server.env, server.data, server.service>>
      BY <1>1, <3>5 DEF Servers
    <3>6. \/ \E key \in {"SMTP_HOST", "RJ_REQUIRE_VERIFIED_EMAIL"}, v \in {"smtp", "true", "false"} :
               server' = [server EXCEPT !.env[key] = v]
          \/ \E source \in {"clean", "dirty"} : server' = [server EXCEPT !.source = source]
          \/ server' = [server EXCEPT !.service = Stopped, !.caddy = FALSE]
          \/ \E theirs \in SUBSET {"web"} : server' = [server EXCEPT !.theirs = theirs]
      BY <1>1 DEF ServerChanges, Servers
    <3> QED
      BY <3>1, <3>2, <3>3, <3>4, <3>5, <3>6
  <2>2. CASE ~Stage("idle")
    <3>1. PICK theirs \in SUBSET {"web"} : server' = [server EXCEPT !.theirs = theirs]
      BY <1>1, <2>2 DEF ServerChanges, Servers
    <3> QED
      BY <1>1, <3>1 DEF Servers, Stack
  <2> QED
    BY <2>1, <2>2
<1>3. InstallerTypeOK'
  BY <1>1, <1>2 DEF InstallerInv, InstallerTypeOK
<1>4. DroppedIsWritten'
  <2>1. CASE installer = IdleRun
    BY <1>1, <2>1 DEF DroppedIsWritten
  <2>2. CASE installer # IdleRun
    <3>1. Env' = Env
      BY <1>1, <1>2, <2>2 DEF Env
    <3> QED
      BY <1>1, <2>2, <3>1 DEF InstallerInv, DroppedIsWritten, Kept
  <2> QED
    BY <2>1, <2>2
<1>5. PasswordIsThere'
  BY <1>1, <1>2 DEF InstallerInv, PasswordIsThere
<1>6. RunsOnItsPassword'
  BY <1>1, <1>2 DEF InstallerInv, RunsOnItsPassword
<1>7. AnswersAreWritten'
  BY <1>1, <1>2 DEF InstallerInv, AnswersAreWritten
<1>8. DryRunIsDry'
  <2>1. CASE installer = IdleRun
    BY <1>1, <2>1 DEF DryRunIsDry, Stage, IdleRun
  <2>2. CASE installer # IdleRun
    BY <1>1, <1>2, <2>2, StaysDry
  <2> QED
    BY <2>1, <2>2
<1>9. CaddyIsKnown'
  BY <1>1, <1>2 DEF InstallerInv, CaddyIsKnown
<1> QED
  BY <1>3, <1>4, <1>5, <1>6, <1>7, <1>8, <1>9 DEF InstallerInv

LEMMA InstallerStep == InstallerInv /\ [InstallerNext]_installerVars => InstallerInv'
<1> SUFFICES ASSUME InstallerInv, [InstallerNext]_installerVars PROVE InstallerInv'
  OBVIOUS
<1>1. CASE UNCHANGED installerVars
  <2>1. UNCHANGED <<server, installer, launches, changes, excused>>
    BY <1>1 DEF installerVars
  <2>2. InstallerTypeOK' /\ PasswordIsThere' /\ RunsOnItsPassword' /\ CaddyIsKnown'
    BY <2>1 DEF InstallerInv, InstallerTypeOK, PasswordIsThere, RunsOnItsPassword, CaddyIsKnown
  <2>3. DroppedIsWritten' /\ DryRunIsDry'
    BY <2>1 DEF InstallerInv, DroppedIsWritten, DryRunIsDry, Stage, Kept, Env
  <2>4. AnswersAreWritten'
    BY <2>1 DEF InstallerInv, AnswersAreWritten
  <2> QED
    BY <2>2, <2>3, <2>4 DEF InstallerInv
<1>2. CASE InstallerNext
  <2>1. CASE Launch \/ InstallPackages \/ FetchSource \/ Look \/ OpenEnv
    BY <2>1, LaunchStep, EarlyStep, OpenEnvStep
  <2>2. CASE EditEnv \/ SettleMail \/ BringUp
    BY <2>2, EditEnvStep, SettleMailStep, BringUpStep
  <2>3. CASE Done \/ BreakOff \/ ServerChanges
    BY <2>3, EndStep, ServerChangesStep
  <2> QED
    BY <1>2, <2>1, <2>2, <2>3 DEF InstallerNext
<1> QED
  BY <1>1, <1>2

(* Through any number of runs of the installer, real or dry, finished or       *)
(* broken off, the service has the password its database was made with, a run  *)
(* that got to the end has started it with this run's answers and believes any  *)
(* Caddy that is up but one an earlier run left it when the domain goes, and a  *)
(* dry run has left the stack as it was, whatever packages it installed         *)
(* (install.sh, bootstrap.sh).                                                 *)
THEOREM InstallsAreSafe == InstallerSpec => []InstallIsSafe
<1>1. InstallerInv => InstallIsSafe
  <2> SUFFICES ASSUME InstallerInv PROVE InstallIsSafe
    OBVIOUS
  <2>1. DatabaseOpens
    BY DEF InstallerInv, RunsOnItsPassword, DatabaseOpens
  <2>2. EndsWithAService
    <3> DEFINE env == server.service.env
    <3> SUFFICES ASSUME Stage("done"), ~installer.dry
                 PROVE  /\ server.service.up
                        /\ env["RJ_DOMAIN"] = installer.domain
                        /\ env["RJ_TRUST_PROXY"] = "true" <=> installer.domain # "localhost"
                        /\ server.caddy => \/ env["RJ_TRUST_PROXY"] = "true"
                                           \/ installer.domain = "localhost" /\ installer.before.caddy
      BY DEF EndsWithAService
    <3>1. installer # IdleRun
      BY RunUnderWay DEF InstallerInv, Stage, IdleRun
    <3>2. /\ server.service.up
          /\ env["RJ_DOMAIN"] = installer.domain
          /\ env["RJ_TRUST_PROXY"] = "true" <=> installer.domain # "localhost"
      BY <3>1 DEF InstallerInv, AnswersAreWritten, Stage, Trusts
    <3>3. server.caddy => installer.before.caddy \/ installer.domain # "localhost"
      BY <3>1 DEF InstallerInv, CaddyIsKnown
    <3> QED
      BY <3>2, <3>3
  <2> QED
    BY <2>1, <2>2 DEF InstallerInv, InstallIsSafe
<1> QED
  BY <1>1, InstallerStarts, InstallerStep, PTL DEF InstallerSpec
===============================================================================
