------------------------------- MODULE Service --------------------------------
(* The service process (compile-service/src/main.ts, server.ts): several       *)
(* instances that start against one database, perhaps of different releases,   *)
(* bring its schema up to date under an advisory lock (accounts/src/db.ts,     *)
(* migrations.ts), serve the compile route with its shared cache, and shut     *)
(* down around the requests that are under way.                                *)
EXTENDS Integers, FiniteSets

CONSTANTS
    Instances,
    Release,        \* how many migrations each instance knows
    Attempts,       \* how often waitForDatabase tries
    Requests,       \* compile requests, each of a sketch of its own
    Sound,          \* the requests whose sketch compiles
    MaxRestarts     \* bound: how often an instance is started again

ASSUME ServiceAssumption ==
    /\ Release \in [Instances -> Nat] /\ Attempts \in Nat \ {0}
    /\ Sound \subseteq Requests /\ MaxRestarts \in Nat

VARIABLES
    phase,      \* of an instance: "down", or what it is doing
    tries,      \* waitForDatabase: attempts made
    restarts,   \* how often it was started again
    reachable,  \* whether the database can be connected to
    table,      \* whether schema_migrations exists
    lock,       \* the instances whose transactions hold LOCK_MIGRATIONS
    applied,    \* the migrations that are committed
    known,      \* of an instance: what it read of them
    pending,    \* of an instance: those its transaction has applied
    open,       \* of an instance: the connections it has open, "redis", "pool"
    request,    \* of a request: where it is, and at which instance
    cached      \* the requests whose firmware Redis holds

startup == <<tries, restarts, reachable, table, lock, applied, known, pending>>
serving == <<open, request, cached>>
serviceVars == <<phase, startup, serving>>

Known(i) == 1 .. Release[i]
Nobody == "nobody"
Starting == {"waiting", "creating", "colliding", "locking", "migrating"}
Closing == {"draining", "disconnecting", "ending"}

ServiceInit ==
    /\ phase = [i \in Instances |-> "waiting"]
    /\ tries = [i \in Instances |-> 0] /\ restarts = [i \in Instances |-> 0]
    /\ reachable = FALSE /\ table = FALSE /\ lock = {} /\ applied = {}
    /\ known = [i \in Instances |-> {}] /\ pending = [i \in Instances |-> {}]
    /\ open = [i \in Instances |-> {"redis", "pool"}]
    /\ request = [r \in Requests |-> [at |-> Nobody, stage |-> "none"]]
    /\ cached = {}

Move(i, from, to) == phase[i] = from /\ phase' = [phase EXCEPT ![i] = to]

-------------------------------------------------------------------------------
(* start().                                                                    *)

DatabaseComesUp ==
    /\ ~reachable /\ reachable' = TRUE
    /\ UNCHANGED <<phase, tries, restarts, table, lock, applied, known, pending, serving>>

(* waitForDatabase: connected, or tried in vain once more.                     *)
WaitForDatabase(i) ==
    /\ reachable /\ Move(i, "waiting", "creating")
    /\ UNCHANGED <<startup, serving>>

TryInVain(i) ==
    /\ ~reachable /\ phase[i] = "waiting" /\ tries[i] + 1 < Attempts
    /\ tries' = [tries EXCEPT ![i] = @ + 1]
    /\ UNCHANGED <<phase, restarts, reachable, table, lock, applied, known, pending, serving>>

(* CREATE TABLE IF NOT EXISTS looks before it creates, outside of the lock:    *)
(* of two that look together, the second to create fails on the first's rows   *)
(* in the catalogue, and so does its start.                                    *)
LookForTable(i) ==
    /\ Move(i, "creating", IF table THEN "locking" ELSE "colliding")
    /\ UNCHANGED <<startup, serving>>

CreateTable(i) ==
    /\ ~table /\ table' = TRUE /\ Move(i, "colliding", "locking")
    /\ UNCHANGED <<tries, restarts, reachable, lock, applied, known, pending, serving>>

(* pg_advisory_xact_lock, then the SELECT of what is applied.                  *)
Lock(i) ==
    /\ lock = {} /\ Move(i, "locking", "migrating")
    /\ lock' = {i}
    /\ known' = [known EXCEPT ![i] = applied]
    /\ UNCHANGED <<tries, restarts, reachable, table, applied, pending, serving>>

(* The next migration that was not applied: its SQL, and its row.              *)
Unapplied(i) == Known(i) \ (known[i] \cup pending[i])

Migrate(i) ==
    /\ phase[i] = "migrating"
    /\ \E id \in Unapplied(i) :
         /\ \A other \in Unapplied(i) : id <= other
         /\ pending' = [pending EXCEPT ![i] = @ \cup {id}]
    /\ UNCHANGED <<phase, tries, restarts, reachable, table, lock, applied, known, serving>>

(* COMMIT, and listen.                                                         *)
Listen(i) ==
    /\ Unapplied(i) = {} /\ Move(i, "migrating", "serving")
    /\ applied' = applied \cup pending[i] /\ pending' = [pending EXCEPT ![i] = {}]
    /\ lock' = lock \ {i}
    /\ UNCHANGED <<tries, restarts, reachable, table, known, serving>>

(* Whatever way a process ends, Postgres rolls back what it had open, and the  *)
(* requests it was answering are cut off.                                      *)
Exit(i) ==
    /\ phase' = [phase EXCEPT ![i] = "down"]
    /\ lock' = lock \ {i} /\ pending' = [pending EXCEPT ![i] = {}]
    /\ open' = [open EXCEPT ![i] = {}]
    /\ request' = [r \in Requests |->
                     IF request[r].at = i THEN [at |-> Nobody, stage |-> "cut off"] ELSE request[r]]
    /\ UNCHANGED <<tries, restarts, reachable, table, applied, known, cached>>

(* start throws: attempts used up, the table created by another, the wait for  *)
(* the lock longer than statement_timeout, a migration that fails; or a signal *)
(* before there is a handler for it.                                           *)
FailToStart(i) ==
    /\ \/ phase[i] = "waiting" /\ ~reachable /\ tries[i] + 1 = Attempts
       \/ phase[i] = "colliding" /\ table
       \/ phase[i] = "locking" /\ lock # {}
       \/ phase[i] = "migrating"
    /\ Exit(i)

(* restart: unless-stopped.                                                    *)
Restart(i) ==
    /\ restarts[i] < MaxRestarts /\ Move(i, "down", "waiting")
    /\ restarts' = [restarts EXCEPT ![i] = @ + 1] /\ tries' = [tries EXCEPT ![i] = 0]
    /\ known' = [known EXCEPT ![i] = {}]
    /\ open' = [open EXCEPT ![i] = {"redis", "pool"}]
    /\ UNCHANGED <<reachable, table, lock, applied, pending, request, cached>>

-------------------------------------------------------------------------------
(* The compile route.                                                          *)

Step(r, from, to) ==
    /\ request[r].stage = from
    /\ request' = [request EXCEPT ![r].stage = to]

Reply(r, from) ==
    /\ request[r].stage = from
    /\ request' = [request EXCEPT ![r] = [at |-> Nobody, stage |-> "answered"]]

(* A request is accepted while the server listens; requireSeat asks Postgres.  *)
Accept(i, r) ==
    /\ phase[i] = "serving" /\ request[r].stage \in {"none", "answered", "cut off"}
    /\ request' = [request EXCEPT ![r] = [at |-> i, stage |-> "seat"]]
    /\ UNCHANGED <<phase, startup, open, cached>>

(* No seat or nothing to compile is refused; then the cache is asked.          *)
Seated(r) ==
    /\ \/ Step(r, "seat", "look up")
       \/ Reply(r, "seat")
    /\ UNCHANGED <<phase, startup, open, cached>>

(* A hit is the answer; a miss or a Redis that does not answer is compiled.    *)
LookUp(r) ==
    /\ \/ r \in cached /\ Reply(r, "look up")
       \/ Step(r, "look up", "compile")
    /\ UNCHANGED <<phase, startup, open, cached>>

(* A build that failed, or a toolchain that is not there, is answered at once. *)
Compile(r) ==
    /\ \/ r \in Sound /\ Step(r, "compile", "store")
       \/ Reply(r, "compile")
    /\ UNCHANGED <<phase, startup, open, cached>>

(* cache.set: what is too large, or not taken, is not stored.                  *)
Store(r) ==
    /\ Reply(r, "store")
    /\ cached' \in {cached, cached \cup {r}}
    /\ UNCHANGED <<phase, startup, open>>

(* The TTL of an entry runs out.                                               *)
Forget(r) ==
    /\ r \in cached /\ cached' = cached \ {r}
    /\ UNCHANGED <<phase, startup, open, request>>

-------------------------------------------------------------------------------
(* shutdown().                                                                 *)

InFlight(i) == {r \in Requests : request[r].at = i}

(* SIGTERM, SIGINT, or an error nobody caught.                                 *)
Signal(i) ==
    /\ Move(i, "serving", "draining")
    /\ UNCHANGED <<startup, serving>>

(* close: the server waits for the requests it has, and only then the          *)
(* connections go, Redis before the pool.                                      *)
(* Mutant: the pool goes first.                                                *)
DrainedPoolFirst(i) ==
    /\ Move(i, "draining", "disconnecting")
    /\ open' = [open EXCEPT ![i] = @ \ {"pool"}]
    /\ UNCHANGED <<startup, request, cached>>

Drained(i) ==
    /\ InFlight(i) = {} /\ Move(i, "draining", "disconnecting")
    /\ UNCHANGED <<startup, serving>>

Disconnect(i) ==
    /\ Move(i, "disconnecting", "ending")
    /\ open' = [open EXCEPT ![i] = @ \ {"redis"}]
    /\ UNCHANGED <<startup, request, cached>>

(* The pool ended, and exit(0).                                                *)
End(i) == phase[i] = "ending" /\ Exit(i)

(* exit(1): eight seconds have gone by, or a second signal came, or close      *)
(* threw.                                                                      *)
GiveUp(i) == phase[i] \in Closing /\ Exit(i)

ServiceNext ==
    \/ DatabaseComesUp
    \/ \E i \in Instances :
         \/ WaitForDatabase(i) \/ TryInVain(i) \/ LookForTable(i) \/ CreateTable(i)
         \/ Lock(i) \/ Migrate(i) \/ Listen(i) \/ FailToStart(i) \/ Restart(i)
         \/ Signal(i) \/ Drained(i) \/ Disconnect(i) \/ End(i) \/ GiveUp(i)
         \/ \E r \in Requests : Accept(i, r)
    \/ \E r \in Requests : Seated(r) \/ LookUp(r) \/ Compile(r) \/ Store(r) \/ Forget(r)

ServiceSpec == ServiceInit /\ [][ServiceNext]_serviceVars

-------------------------------------------------------------------------------
(* Who serves, serves on a schema that has everything it knows of; migrations  *)
(* are committed without gaps, and none is applied to a schema that has it     *)
(* already or by two transactions at once: however many instances, of however  *)
(* many releases, start, die and start again together.                         *)
SchemaIsWhole ==
    /\ \A i \in Instances : phase[i] \in {"serving"} \cup Closing => Known(i) \subseteq applied
    /\ \A id \in applied : 1 .. id \subseteq applied
    /\ \A i, j \in Instances :
         pending[i] \cap (applied \cup (IF i = j THEN {} ELSE pending[j])) = {}

(* A request that was accepted meets open connections at every step, through   *)
(* the shutdown that begins around it, until it is answered or its process     *)
(* ends; and the cache holds nothing but firmware that compiled.               *)
RequestsAreDrained ==
    /\ \A r \in Requests : request[r].at # Nobody => open[request[r].at] = {"redis", "pool"}
    /\ cached \subseteq Sound
===============================================================================
