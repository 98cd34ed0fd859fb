------------------------------ MODULE Credits ------------------------------
(***************************************************************************)
(* One account's credits and the ledger behind them                        *)
(* (packages/accounts/src/credits.ts), used by the callers that exist:     *)
(* grants made on confirmation, for invites and by the backfill script,    *)
(* and chat requests (packages/compile-service/src/assistant-route.ts),    *)
(* which hold an estimate, ask the model, and settle or release.           *)
(*                                                                         *)
(* Every statement names one user, so accounts share nothing and one is    *)
(* modelled.  Each SQL statement is a step: transactions of concurrent     *)
(* calls interleave as READ COMMITTED lets them.  The first write to the   *)
(* account locks its row until the transaction ends, so at most one call   *)
(* has uncommitted writes; `draft` is the database as that call sees it.   *)
(*                                                                         *)
(* Between two statements a transaction may fail (a timeout, a lost        *)
(* connection) or the process may die; a COMMIT may also take effect       *)
(* without the caller hearing of it.                                       *)
(***************************************************************************)
EXTENDS Integers, Sequences, FiniteSetsExt

CONSTANTS
    Grants,       \* the calls of grant()
    Chats,        \* the requests to /assistant/chat
    References,   \* the references a grant may carry
    ReferenceOf,  \* the reference each grant carries
    GrantAmount,  \* what a grant adds
    Estimate,     \* what each chat holds
    Costs         \* what an answer may turn out to cost

Calls  == Grants \cup Chats
Nobody == "nobody"

ASSUME CreditsAssumption ==
    /\ Grants \cap Chats = {}
    /\ Nobody \notin Calls
    /\ ReferenceOf \in [Grants -> References]
    /\ GrantAmount \in Nat \ {0}
    /\ Estimate \in [Chats -> Nat \ {0}]
    /\ Costs \subseteq Nat \ {0}

VARIABLES
    books,   \* the committed account and ledger
    draft,   \* the account and ledger with the uncommitted writes of `lock`
    lock,    \* the call whose transaction has written the account, or Nobody
    phase,   \* what each call is doing: the transaction it is in, or how it ended
    at,      \* the statement each call last ran in its transaction
    holdId,  \* the hold each chat was given (its ledger id), 0 for none
    actual   \* what each chat's answer cost

creditVars == <<books, draft, lock, phase, at, holdId, actual>>

NoReference == "none"
NoHold == 0

Entry == [kind          : {"grant", "hold", "settle"},
          delta         : Int,
          balance_after : Int,
          reference     : References \cup {NoReference},
          hold_id       : Nat]

Database == [open    : BOOLEAN,      \* the credit_accounts row exists
             balance : Int,
             held    : Nat,
             ledger  : Seq(Entry)]

Transactions == {"grant", "hold", "settle", "release"}
Endings      == {"done", "refused", "failed", "crashed"}
Statements   == {"begin", "opened", "checked", "updated", "logged"}

\* What c's next statement sees: the last commit, and c's own writes.
View(c) == IF lock = c THEN draft ELSE books

\* The row is free for c to write.
CanWrite(c) == lock \in {Nobody, c}

Write(c, new) ==
    /\ CanWrite(c)
    /\ lock' = c
    /\ draft' = new
    /\ UNCHANGED books

ReadOnly == UNCHANGED <<books, draft, lock>>

Ran(c, statement) ==
    /\ at' = [at EXCEPT ![c] = statement]
    /\ UNCHANGED phase

Enter(c, next) ==
    /\ phase' = [phase EXCEPT ![c] = next]
    /\ at' = [at EXCEPT ![c] = "begin"]

InTx(c, tx, statement) == phase[c] = tx /\ at[c] = statement

Appended(s, kind, delta, reference, hold) ==
    [s EXCEPT !.ledger = Append(@, [kind |-> kind, delta |-> delta, balance_after |-> s.balance,
                                    reference |-> reference, hold_id |-> hold])]

-----------------------------------------------------------------------------
(* Transactions: withTransaction().                                        *)

\* c's transaction ends: the lock, if it took it, is free, and what it wrote is
\* the database or is gone.
CommitWrites(c) ==
    IF lock = c THEN books' = draft /\ lock' = Nobody /\ UNCHANGED draft
                ELSE ReadOnly

\* Mutant: the connection goes back to the pool inside its transaction.
NoRollback(c) == ReadOnly

Rollback(c) ==
    IF lock = c THEN draft' = books /\ lock' = Nobody /\ UNCHANGED books
                ELSE ReadOnly

\* Where a call goes when its transaction throws.  The route answers a failed
\* settle by releasing the hold, and swallows a failed release.
OnThrow(tx) == IF tx = "settle" THEN "release" ELSE "failed"

\* Where it goes when its transaction returns.
OnReturn(tx) ==
    CASE tx = "grant"   -> "done"
      [] tx = "hold"    -> "ask"
      [] tx = "settle"  -> "done"
      [] tx = "release" -> "failed"

CommitTransaction(c) ==
    /\ phase[c] \in Transactions
    /\ at[c] = "logged"
    /\ CommitWrites(c)
    /\ Enter(c, OnReturn(phase[c]))
    /\ holdId' = IF phase[c] = "hold"
                 THEN [holdId EXCEPT ![c] = Len(View(c).ledger)] ELSE holdId
    /\ UNCHANGED actual

\* The COMMIT takes effect and its answer is lost: to the caller it threw.
CommitUnheard(c) ==
    /\ phase[c] \in Transactions
    /\ at[c] = "logged"
    /\ CommitWrites(c)
    /\ Enter(c, OnThrow(phase[c]))
    /\ UNCHANGED <<holdId, actual>>

Throw(c) ==
    /\ phase[c] \in Transactions
    /\ Rollback(c)
    /\ Enter(c, OnThrow(phase[c]))
    /\ UNCHANGED <<holdId, actual>>

\* The process dies; Postgres rolls back what it had not committed.
Crash(c) ==
    /\ phase[c] \in Transactions \cup {"ask"}
    /\ Rollback(c)
    /\ Enter(c, "crashed")
    /\ UNCHANGED <<holdId, actual>>

-----------------------------------------------------------------------------
(* ensureAccount(): INSERT ... ON CONFLICT DO NOTHING.  It waits while     *)
(* another transaction's INSERT of the row is uncommitted, and takes no    *)
(* lock on a row that is there.                                            *)

\* Mutant: run on the pool, in a transaction of its own (client left out).
EnsureAccountOnPool(c) ==
    /\ books' = [books EXCEPT !.open = TRUE]
    /\ draft' = [draft EXCEPT !.open = TRUE]
    /\ UNCHANGED lock

EnsureAccount(c) ==
    \/ /\ books.open
       /\ ReadOnly
    \/ /\ ~books.open
       /\ Write(c, [View(c) EXCEPT !.open = TRUE])

Ensure(c) ==
    /\ phase[c] \in {"grant", "hold"}
    /\ at[c] = "begin"
    /\ EnsureAccount(c)
    /\ Ran(c, "opened")
    /\ UNCHANGED <<holdId, actual>>

-----------------------------------------------------------------------------
(* grant().                                                                *)

Honoured(s, reference) ==
    \E i \in 1..Len(s.ledger) :
        s.ledger[i].kind = "grant" /\ s.ledger[i].reference = reference

\* Already honoured: nothing to write, and COMMIT ends the transaction.
LookUp(g) ==
    /\ InTx(g, "grant", "opened")
    /\ Ran(g, IF Honoured(View(g), ReferenceOf[g]) THEN "logged" ELSE "checked")
    /\ ReadOnly
    /\ UNCHANGED <<holdId, actual>>

\* Mutant: the UPDATE runs on the pool and commits by itself.
AddBalanceOnPool(g) ==
    /\ InTx(g, "grant", "checked")
    /\ CanWrite(g)
    /\ books' = [books EXCEPT !.open = TRUE, !.balance = @ + GrantAmount]
    /\ draft' = books'
    /\ lock' = g
    /\ Ran(g, "updated")
    /\ UNCHANGED <<holdId, actual>>

AddBalance(g) ==
    /\ InTx(g, "grant", "checked")
    /\ Write(g, [View(g) EXCEPT !.balance = @ + GrantAmount])
    /\ Ran(g, "updated")
    /\ UNCHANGED <<holdId, actual>>

LogGrant(g) ==
    /\ InTx(g, "grant", "updated")
    /\ Write(g, Appended(View(g), "grant", GrantAmount, ReferenceOf[g], NoHold))
    /\ Ran(g, "logged")
    /\ UNCHANGED <<holdId, actual>>

-----------------------------------------------------------------------------
(* hold().                                                                 *)

\* Mutant: the WHERE clause does not look at the balance.
ClaimUnchecked(c) ==
    /\ InTx(c, "hold", "opened")
    /\ Write(c, [View(c) EXCEPT !.balance = @ - Estimate[c], !.held = @ + Estimate[c]])
    /\ Ran(c, "updated")
    /\ UNCHANGED <<holdId, actual>>

\* UPDATE ... WHERE balance >= amount: the check and the deduction in one.
Claim(c) ==
    /\ InTx(c, "hold", "opened")
    /\ View(c).balance >= Estimate[c]
    /\ Write(c, [View(c) EXCEPT !.balance = @ - Estimate[c], !.held = @ + Estimate[c]])
    /\ Ran(c, "updated")
    /\ UNCHANGED <<holdId, actual>>

\* It changed no row: InsufficientCreditsError, and a rollback.  The statement
\* does not wait for a writer when the committed balance is already short.
Refuse(c) ==
    /\ InTx(c, "hold", "opened")
    /\ View(c).balance < Estimate[c]
    /\ Rollback(c)
    /\ Enter(c, "refused")
    /\ UNCHANGED <<holdId, actual>>

LogHold(c) ==
    /\ InTx(c, "hold", "updated")
    /\ Write(c, Appended(View(c), "hold", -Estimate[c], NoReference, NoHold))
    /\ Ran(c, "logged")
    /\ UNCHANGED <<holdId, actual>>

-----------------------------------------------------------------------------
(* The model call between the two transactions.                            *)

Answer(c) ==
    /\ phase[c] = "ask"
    /\ \E cost \in Costs : actual' = [actual EXCEPT ![c] = cost]
    /\ Enter(c, "settle")
    /\ ReadOnly
    /\ UNCHANGED holdId

AskFails(c) ==
    /\ phase[c] = "ask"
    /\ Enter(c, "release")
    /\ ReadOnly
    /\ UNCHANGED <<holdId, actual>>

-----------------------------------------------------------------------------
(* settle(), and release(), which is settle(hold, 0).                      *)

\* Never more than was held.
Charged(c) ==
    IF phase[c] = "release" THEN 0
    ELSE IF actual[c] > Estimate[c] THEN Estimate[c] ELSE actual[c]

Refund(c) == Estimate[c] - Charged(c)

\* Mutant: only what comes back stops being held.
GiveBackRefundOnly(c) ==
    /\ phase[c] \in {"settle", "release"}
    /\ at[c] = "begin"
    /\ Write(c, [View(c) EXCEPT !.balance = @ + Refund(c),
                                !.held = IF @ > Refund(c) THEN @ - Refund(c) ELSE 0])
    /\ Ran(c, "updated")
    /\ UNCHANGED <<holdId, actual>>

GiveBack(c) ==
    /\ phase[c] \in {"settle", "release"}
    /\ at[c] = "begin"
    /\ Write(c, [View(c) EXCEPT !.balance = @ + Refund(c),
                                !.held = IF @ > Estimate[c] THEN @ - Estimate[c] ELSE 0])
    /\ Ran(c, "updated")
    /\ UNCHANGED <<holdId, actual>>

LogSettle(c) ==
    /\ phase[c] \in {"settle", "release"}
    /\ at[c] = "updated"
    /\ Write(c, Appended(View(c), "settle", Refund(c), NoReference, holdId[c]))
    /\ Ran(c, "logged")
    /\ UNCHANGED <<holdId, actual>>

-----------------------------------------------------------------------------
Begin(c) ==
    /\ phase[c] = "idle"
    /\ Enter(c, IF c \in Grants THEN "grant" ELSE "hold")
    /\ ReadOnly
    /\ UNCHANGED <<holdId, actual>>

\* The account row is made by the first grant or hold that commits.
CreditsInit ==
    /\ books = [open |-> FALSE, balance |-> 0, held |-> 0, ledger |-> <<>>]
    /\ draft = books
    /\ lock = Nobody
    /\ phase = [c \in Calls |-> "idle"]
    /\ at = [c \in Calls |-> "begin"]
    /\ holdId = [c \in Chats |-> NoHold]
    /\ actual = [c \in Chats |-> 0]

GrantStep(g) == LookUp(g) \/ AddBalance(g) \/ LogGrant(g)

ChatStep(c) ==
    \/ Claim(c) \/ Refuse(c) \/ LogHold(c)
    \/ Answer(c) \/ AskFails(c)
    \/ GiveBack(c) \/ LogSettle(c)

Progress(c) ==
    \/ Ensure(c)
    \/ c \in Grants /\ GrantStep(c)
    \/ c \in Chats /\ ChatStep(c)
    \/ CommitTransaction(c)

Fault(c) == CommitUnheard(c) \/ Throw(c) \/ Crash(c)

CreditsNext == \E c \in Calls : Begin(c) \/ Progress(c) \/ Fault(c)

\* A statement ends by itself or by statement_timeout, and the model call by
\* an answer or an error; nothing makes a user send a request.
Fairness == \A c \in Calls : WF_creditVars(Progress(c))

CreditsSpec == CreditsInit /\ [][CreditsNext]_creditVars /\ Fairness

-----------------------------------------------------------------------------
(* Properties.                                                             *)

\* The account and the ledger have the shape of the schema (held is never
\* negative), uncommitted writes included.
CreditsTypeOK ==
    /\ books \in Database
    /\ draft \in Database
    /\ lock \in Calls \cup {Nobody}
    /\ phase \in [Calls -> {"idle", "ask"} \cup Transactions \cup Endings]
    /\ at \in [Calls -> Statements]
    /\ holdId \in [Chats -> Nat]
    /\ actual \in [Chats -> Nat]

\* "The balance and the ledger never diverge": the balance is the sum of every
\* committed movement, and so was every balance_after when it was written.
LedgerRuns(s) ==
    /\ \A i \in 1..Len(s.ledger) :
          s.ledger[i].balance_after =
              (IF i = 1 THEN 0 ELSE s.ledger[i - 1].balance_after) + s.ledger[i].delta
    /\ s.balance = IF s.ledger = <<>> THEN 0 ELSE s.ledger[Len(s.ledger)].balance_after

BalanceIsTheLedger == LedgerRuns(books)

\* "Nobody can spend what they do not have": whatever runs together, the
\* account is never overdrawn, at any movement.
NeverOverdrawn ==
    /\ books.balance >= 0
    /\ \A i \in 1..Len(books.ledger) : books.ledger[i].balance_after >= 0

HonouredFor(reference) ==
    {i \in 1..Len(books.ledger) :
        books.ledger[i].kind = "grant" /\ books.ledger[i].reference = reference}

\* "The same reference is only ever honoured once."
ReferenceHonouredOnce ==
    \A reference \in References : Cardinality(HonouredFor(reference)) <= 1

\* What the entries at S moved together.
TotalOf(ledger, S) == MapThenSumSet(LAMBDA i : ledger[i].delta, S)

HoldIds    == {i \in 1..Len(books.ledger) : books.ledger[i].kind = "hold"}
Settles(h) == {i \in 1..Len(books.ledger) : books.ledger[i].hold_id = h}
Cost(h)    == -TotalOf(books.ledger, {h} \cup Settles(h))

\* Whoever was answered paid what the answer cost, up to what was held; a hold
\* that was given back in full cost nothing; and no hold ever cost more than
\* itself, whatever failed or was retried on the way.
FairlyCharged ==
    /\ \A c \in Chats : phase[c] = "done" =>
          Cost(holdId[c]) = IF actual[c] > Estimate[c] THEN Estimate[c] ELSE actual[c]
    /\ \A h \in HoldIds :
          /\ Cost(h) <= -books.ledger[h].delta
          /\ (\E i \in Settles(h) : books.ledger[i].delta = -books.ledger[h].delta) => Cost(h) <= 0

\* `held` is the part of the deductions that is still provisional: exactly the
\* holds nothing has resolved, as long as none was resolved twice.
HeldIsOpenHolds ==
    (\A h \in HoldIds : Cardinality(Settles(h)) <= 1) =>
        books.held = -TotalOf(books.ledger, {h \in HoldIds : Settles(h) = {}})

\* What a hold takes is what its call cost, and while nothing has resolved it, it
\* counts as held.
HoldsAreHonoured == FairlyCharged /\ HeldIsOpenHolds

\* The account never holds more than it was granted: no credit comes back that
\* was not taken.
WithinGrants ==
    books.balance + books.held <=
        TotalOf(books.ledger, {i \in 1..Len(books.ledger) : books.ledger[i].kind = "grant"})

\* A call that has begun ends: no failure or crash leaves a lock behind that
\* another call waits on for ever, and a failed settle gets its release.
EveryCallEnds == \A c \in Calls : phase[c] # "idle" ~> phase[c] \in Endings
=============================================================================
