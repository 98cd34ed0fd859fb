--------------------------- MODULE CreditsProofs ---------------------------
(***************************************************************************)
(* Proofs about the credit store, for any number of concurrent grants and  *)
(* chats, any amounts and any failures.                                    *)
(***************************************************************************)
EXTENDS Credits, FiniteSetTheorems, WellFoundedInduction, TLAPS

Phases == {"idle", "ask"} \cup Transactions \cup Endings

\* What the writes to the account and the ledger return.
LEMMA DatabaseType ==
    ASSUME NEW s \in Database, NEW n \in Int, NEW k \in {"grant", "hold", "settle"},
           NEW r \in References \cup {NoReference}, NEW h \in Nat
    PROVE  /\ [s EXCEPT !.balance = @ + n] \in Database
           /\ Appended(s, k, n, r, h) \in Database
<1>1. [kind |-> k, delta |-> n, balance_after |-> s.balance, reference |-> r, hold_id |-> h]
        \in Entry
  BY DEF Database, Entry
<1>2. Append(s.ledger, [kind |-> k, delta |-> n, balance_after |-> s.balance,
                        reference |-> r, hold_id |-> h]) \in Seq(Entry)
  BY <1>1 DEF Database
<1>3. Appended(s, k, n, r, h) \in Database
  BY <1>2 DEF Appended, Database
<1>4. [s EXCEPT !.balance = @ + n] \in Database
  BY DEF Database
<1> QED
  BY <1>3, <1>4

LEMMA AccountType ==
    ASSUME NEW s \in Database, NEW balance \in Int, NEW held \in Nat
    PROVE  [s EXCEPT !.balance = balance, !.held = held] \in Database
BY DEF Database

LEMMA OpenType ==
    ASSUME NEW s \in Database
    PROVE  [s EXCEPT !.open = TRUE] \in Database
BY DEF Database

LEMMA ClaimType ==
    ASSUME NEW s \in Database, NEW n \in Nat
    PROVE  [s EXCEPT !.balance = @ - n, !.held = @ + n] \in Database
<1>1. s.balance - n \in Int /\ s.held + n \in Nat
  BY DEF Database
<1> QED
  BY <1>1, AccountType

LEMMA GiveBackType ==
    ASSUME NEW s \in Database, NEW n \in Nat, NEW m \in Int
    PROVE  [s EXCEPT !.balance = @ + m, !.held = IF @ > n THEN @ - n ELSE 0] \in Database
<1>1. s.balance + m \in Int /\ (IF s.held > n THEN s.held - n ELSE 0) \in Nat
  BY DEF Database
<1> QED
  BY <1>1, AccountType

LEMMA ViewType ==
    ASSUME CreditsTypeOK, NEW c \in Calls
    PROVE  View(c) \in Database
BY DEF CreditsTypeOK, View

LEMMA RefundType ==
    ASSUME CreditsTypeOK, NEW c \in Chats
    PROVE  /\ Estimate[c] \in Nat \ {0}
           /\ Charged(c) \in Nat
           /\ Refund(c) \in Nat
<1>1. Estimate[c] \in Nat \ {0} /\ actual[c] \in Nat
  BY CreditsAssumption DEF CreditsTypeOK
<1>2. Charged(c) \in Nat /\ Charged(c) <= Estimate[c]
  BY <1>1 DEF Charged
<1> QED
  BY <1>1, <1>2 DEF Refund

\* What a step that only moves one call on leaves well typed.
LEMMA MovedType ==
    ASSUME CreditsTypeOK, NEW c \in Calls,
           \/ \E statement \in Statements : Ran(c, statement)
           \/ \E next \in Phases : Enter(c, next)
    PROVE  phase' \in [Calls -> Phases] /\ at' \in [Calls -> Statements]
BY DEF CreditsTypeOK, Ran, Enter, Phases, Statements

LEMMA EndedTxType ==
    ASSUME CreditsTypeOK, NEW c \in Calls, CommitWrites(c) \/ Rollback(c)
    PROVE  books' \in Database /\ draft' \in Database /\ lock' \in Calls \cup {Nobody}
BY DEF CreditsTypeOK, CommitWrites, Rollback, ReadOnly

LEMMA WriteType ==
    ASSUME CreditsTypeOK, NEW c \in Calls, NEW new \in Database, Write(c, new)
    PROVE  books' \in Database /\ draft' \in Database /\ lock' \in Calls \cup {Nobody}
BY DEF CreditsTypeOK, Write

LEMMA TypeStep ==
    ASSUME CreditsTypeOK, [CreditsNext]_creditVars
    PROVE  CreditsTypeOK'
<1> USE DEF Phases
<1>0. CASE UNCHANGED creditVars
  BY <1>0 DEF CreditsTypeOK, creditVars
<1> SUFFICES ASSUME NEW c \in Calls, Begin(c) \/ Progress(c) \/ Fault(c)
             PROVE  CreditsTypeOK'
  BY <1>0 DEF CreditsNext
<1> DEFINE Placed == phase' \in [Calls -> Phases] /\ at' \in [Calls -> Statements]
           Stored == books' \in Database /\ draft' \in Database /\ lock' \in Calls \cup {Nobody}
           Kept   == holdId' \in [Chats -> Nat] /\ actual' \in [Chats -> Nat]
<1>q. SUFFICES Placed /\ Stored /\ Kept
  BY DEF CreditsTypeOK
<1>v. View(c) \in Database
  BY ViewType
<1>r. ReadOnly => Stored
  BY DEF ReadOnly, CreditsTypeOK
<1>k. UNCHANGED <<holdId, actual>> => Kept
  BY DEF CreditsTypeOK
<1> HIDE DEF Placed, Stored, Kept
<1>1. CASE Begin(c)
  <2>1. Placed
    BY <1>1, MovedType DEF Begin, Placed, Transactions
  <2> QED
    BY <1>1, <2>1, <1>r, <1>k DEF Begin
<1>2. CASE Ensure(c)
  <2>1. Placed
    BY <1>2, MovedType DEF Ensure, Placed, Statements
  <2>2. [View(c) EXCEPT !.open = TRUE] \in Database
    BY <1>v, OpenType
  <2>3. Stored
    BY <1>2, <2>2, <1>r, WriteType DEF Ensure, EnsureAccount, Stored
  <2> QED
    BY <1>2, <2>1, <2>3, <1>k DEF Ensure
<1>3. CASE c \in Grants /\ GrantStep(c)
  <2>0. /\ c \in Grants
        /\ GrantAmount \in Int
        /\ ReferenceOf[c] \in References \cup {NoReference}
        /\ NoHold \in Nat
    BY <1>3, CreditsAssumption DEF NoHold
  <2>1. CASE LookUp(c)
    <3>1. Placed
      BY <2>1, MovedType DEF LookUp, Placed, Statements
    <3> QED
      BY <2>1, <3>1, <1>r, <1>k DEF LookUp
  <2>2. CASE AddBalance(c)
    <3>1. Placed
      BY <2>2, MovedType DEF AddBalance, Placed, Statements
    <3>2. [View(c) EXCEPT !.balance = @ + GrantAmount] \in Database
      BY <2>0, <1>v, DatabaseType
    <3>3. Stored
      BY <2>2, <3>2, WriteType DEF AddBalance, Stored
    <3> QED
      BY <2>2, <3>1, <3>3, <1>k DEF AddBalance
  <2>3. CASE LogGrant(c)
    <3>1. Placed
      BY <2>3, MovedType DEF LogGrant, Placed, Statements
    <3>2. Appended(View(c), "grant", GrantAmount, ReferenceOf[c], NoHold) \in Database
      BY <2>0, <1>v, DatabaseType
    <3>3. Stored
      BY <2>3, <3>2, WriteType DEF LogGrant, Stored
    <3> QED
      BY <2>3, <3>1, <3>3, <1>k DEF LogGrant
  <2> QED
    BY <1>3, <2>1, <2>2, <2>3 DEF GrantStep
<1>4. CASE c \in Chats /\ ChatStep(c)
  <2>0. /\ c \in Chats
        /\ Estimate[c] \in Nat /\ -Estimate[c] \in Int
        /\ Refund(c) \in Int
        /\ NoReference \in References \cup {NoReference}
        /\ NoHold \in Nat /\ holdId[c] \in Nat
    BY <1>4, RefundType DEF NoHold, CreditsTypeOK
  <2>1. CASE Claim(c)
    <3>1. Placed
      BY <2>1, MovedType DEF Claim, Placed, Statements
    <3>2. [View(c) EXCEPT !.balance = @ - Estimate[c], !.held = @ + Estimate[c]] \in Database
      BY <2>0, <1>v, ClaimType
    <3>3. Stored
      BY <2>1, <3>2, WriteType DEF Claim, Stored
    <3> QED
      BY <2>1, <3>1, <3>3, <1>k DEF Claim
  <2>2. CASE Refuse(c)
    <3>1. Placed
      BY <2>2, MovedType DEF Refuse, Placed, Endings
    <3>2. Stored
      BY <2>2, EndedTxType DEF Refuse, Stored
    <3> QED
      BY <2>2, <3>1, <3>2, <1>k DEF Refuse
  <2>3. CASE LogHold(c)
    <3>1. Placed
      BY <2>3, MovedType DEF LogHold, Placed, Statements
    <3>2. Appended(View(c), "hold", -Estimate[c], NoReference, NoHold) \in Database
      BY <2>0, <1>v, DatabaseType
    <3>3. Stored
      BY <2>3, <3>2, WriteType DEF LogHold, Stored
    <3> QED
      BY <2>3, <3>1, <3>3, <1>k DEF LogHold
  <2>4. CASE Answer(c)
    <3>1. Placed
      BY <2>4, MovedType DEF Answer, Placed, Transactions
    <3>2. Kept
      BY <2>4, CreditsAssumption DEF Answer, Kept, CreditsTypeOK
    <3> QED
      BY <2>4, <3>1, <3>2, <1>r DEF Answer
  <2>5. CASE AskFails(c)
    <3>1. Placed
      BY <2>5, MovedType DEF AskFails, Placed, Transactions
    <3> QED
      BY <2>5, <3>1, <1>r, <1>k DEF AskFails
  <2>6. CASE GiveBack(c)
    <3>1. Placed
      BY <2>6, MovedType DEF GiveBack, Placed, Statements
    <3>2. [View(c) EXCEPT !.balance = @ + Refund(c),
                          !.held = IF @ > Estimate[c] THEN @ - Estimate[c] ELSE 0] \in Database
      BY <2>0, <1>v, GiveBackType
    <3>3. Stored
      BY <2>6, <3>2, WriteType DEF GiveBack, Stored
    <3> QED
      BY <2>6, <3>1, <3>3, <1>k DEF GiveBack
  <2>7. CASE LogSettle(c)
    <3>1. Placed
      BY <2>7, MovedType DEF LogSettle, Placed, Statements
    <3>2. Appended(View(c), "settle", Refund(c), NoReference, holdId[c]) \in Database
      BY <2>0, <1>v, DatabaseType
    <3>3. Stored
      BY <2>7, <3>2, WriteType DEF LogSettle, Stored
    <3> QED
      BY <2>7, <3>1, <3>3, <1>k DEF LogSettle
  <2> QED
    BY <1>4, <2>1, <2>2, <2>3, <2>4, <2>5, <2>6, <2>7 DEF ChatStep
<1>5. CASE CommitTransaction(c)
  <2>1. Placed
    BY <1>5, MovedType DEF CommitTransaction, OnReturn, Placed, Transactions, Endings
  <2>2. Stored
    BY <1>5, EndedTxType DEF CommitTransaction, Stored
  <2>3. Len(View(c).ledger) \in Nat
    BY <1>v DEF Database
  <2>4. Kept
    BY <1>5, <2>3 DEF CommitTransaction, Kept, CreditsTypeOK
  <2> QED
    BY <2>1, <2>2, <2>4
<1>6. CASE CommitUnheard(c) \/ Throw(c) \/ Crash(c)
  <2>1. Placed
    BY <1>6, MovedType DEF CommitUnheard, Throw, Crash, OnThrow, Placed, Transactions, Endings
  <2>2. Stored
    BY <1>6, EndedTxType DEF CommitUnheard, Throw, Crash, Stored
  <2> QED
    BY <1>6, <2>1, <2>2, <1>k DEF CommitUnheard, Throw, Crash
<1> QED
  BY <1>1, <1>2, <1>3, <1>4, <1>5, <1>6 DEF Progress, Fault

LEMMA TypeInit == CreditsInit => CreditsTypeOK
<1> SUFFICES ASSUME CreditsInit PROVE CreditsTypeOK
  OBVIOUS
<1>1. books \in Database /\ draft \in Database
  BY DEF CreditsInit, Database
<1>2. holdId \in [Chats -> Nat] /\ actual \in [Chats -> Nat]
  BY DEF CreditsInit, NoHold
<1> QED
  BY <1>1, <1>2 DEF CreditsInit, CreditsTypeOK, Statements

\* The account and its ledger keep the shape of the schema, whatever
\* transactions interleave and fail; in particular held is never negative.
THEOREM TypeCorrect == CreditsSpec => []CreditsTypeOK
<1>1. CreditsTypeOK /\ [CreditsNext]_creditVars => CreditsTypeOK'
  BY TypeStep
<1> QED
  BY <1>1, TypeInit, PTL DEF CreditsSpec

-----------------------------------------------------------------------------
(***************************************************************************)
(* The ledger.  BalanceIsTheLedger and NeverOverdrawn speak of committed   *)
(* states; a step that commits makes them true only because of what the    *)
(* draft of the committing transaction looks like, so the invariant says   *)
(* of the draft that it is ahead of its ledger by one movement between the *)
(* UPDATE and the INSERT, and level with it otherwise.                     *)
(***************************************************************************)

Last(s) == IF s.ledger = <<>> THEN 0 ELSE s.ledger[Len(s.ledger)].balance_after

Running(s) ==
    \A i \in 1..Len(s.ledger) :
        /\ s.ledger[i].balance_after =
              (IF i = 1 THEN 0 ELSE s.ledger[i - 1].balance_after) + s.ledger[i].delta
        /\ s.ledger[i].balance_after >= 0

\* s is `ahead` of its ledger by a movement that is not logged yet.
Ahead(s, ahead) == Running(s) /\ s.balance >= 0 /\ s.balance = Last(s) + ahead

\* What the UPDATE of c's transaction moved.
Movement(c) ==
    IF c \in Grants THEN GrantAmount
    ELSE IF phase[c] = "hold" THEN -Estimate[c] ELSE Refund(c)

Unlogged(c) == IF at[c] = "updated" THEN Movement(c) ELSE 0

LedgerInv ==
    /\ Ahead(books, 0)
    /\ lock = Nobody => draft = books
    /\ \A c \in Calls : phase[c] \in Transactions /\ at[c] = "updated" => lock = c
    /\ \A c \in Calls : lock = c => phase[c] \in Transactions /\ Ahead(draft, Unlogged(c))

\* INSERT of the entry for the movement the account is ahead by.
LEMMA LoggedIsLevel ==
    ASSUME NEW s \in Database, NEW n \in Int, NEW k, NEW r, NEW h, Ahead(s, n)
    PROVE  Ahead(Appended(s, k, n, r, h), 0)
<1> DEFINE e == [kind |-> k, delta |-> n, balance_after |-> s.balance,
                 reference |-> r, hold_id |-> h]
           t == Appended(s, k, n, r, h)
<1>0. /\ s.ledger \in Seq(Entry) /\ Len(s.ledger) \in Nat /\ s.balance \in Int
      /\ \A i \in 1..Len(s.ledger) : s.ledger[i] \in Entry
  BY DEF Database
<1>1. t.ledger = Append(s.ledger, e) /\ t.balance = s.balance
  BY DEF Appended, Database
<1>2. /\ Len(t.ledger) = Len(s.ledger) + 1
      /\ t.ledger[Len(s.ledger) + 1] = e
      /\ \A i \in 1..Len(s.ledger) : t.ledger[i] = s.ledger[i]
      /\ t.ledger # <<>>
  BY <1>0, <1>1
<1>3. e.delta = n /\ e.balance_after = s.balance
  OBVIOUS
<1>4. Last(t) = t.balance
  BY <1>1, <1>2, <1>3 DEF Last
<1>5. s.balance = (IF Len(s.ledger) + 1 = 1 THEN 0
                   ELSE s.ledger[Len(s.ledger)].balance_after) + n
  <2>1. s.ledger = <<>> <=> Len(s.ledger) = 0
    BY <1>0
  <2> QED
    BY <2>1, <1>0 DEF Ahead, Last
<1>6. ASSUME NEW i \in 1..Len(t.ledger)
      PROVE  /\ t.ledger[i].balance_after =
                   (IF i = 1 THEN 0 ELSE t.ledger[i - 1].balance_after) + t.ledger[i].delta
             /\ t.ledger[i].balance_after >= 0
  <2>1. CASE i = Len(s.ledger) + 1
    <3>1. i # 1 => t.ledger[i - 1] = s.ledger[Len(s.ledger)]
      BY <2>1, <1>0, <1>2
    <3> QED
      BY <2>1, <3>1, <1>2, <1>3, <1>5 DEF Ahead
  <2>2. CASE i \in 1..Len(s.ledger)
    <3>1. t.ledger[i] = s.ledger[i]
      BY <2>2, <1>2
    <3>2. i # 1 => t.ledger[i - 1] = s.ledger[i - 1]
      BY <2>2, <1>0, <1>2
    <3> QED
      BY <2>2, <3>1, <3>2 DEF Ahead, Running
  <2> QED
    BY <2>1, <2>2, <1>0, <1>2
<1>7. Running(t)
  BY <1>6 DEF Running
<1>8. t.balance = Last(t) + 0 /\ t.balance >= 0
  BY <1>0, <1>1, <1>4 DEF Ahead
<1> QED
  BY <1>7, <1>8 DEF Ahead

\* UPDATE of a balance that agreed with its ledger.
LEMMA MovedIsAhead ==
    ASSUME NEW s \in Database, NEW t \in Database, NEW n \in Int, Ahead(s, 0),
           t.balance = s.balance + n, t.ledger = s.ledger, t.balance >= 0
    PROVE  Ahead(t, n)
<1>1. Last(t) = Last(s) /\ Running(t)
  BY DEF Ahead, Last, Running
<1>2. s.balance = Last(s) + 0 /\ s.balance \in Int
  BY DEF Ahead, Database
<1>3. Last(s) \in Int
  <2>1. s.ledger # <<>> => s.ledger[Len(s.ledger)] \in Entry
    BY DEF Database
  <2> QED
    BY <2>1 DEF Last, Entry
<1> QED
  BY <1>1, <1>2, <1>3 DEF Ahead

\* What a transaction sees agrees with its ledger, except after its UPDATE.
LEMMA ViewIsLevel ==
    ASSUME LedgerInv, NEW c \in Calls, phase[c] \in Transactions
    PROVE  Ahead(View(c), Unlogged(c))
<1>1. CASE lock = c
  BY <1>1 DEF LedgerInv, View
<1>2. CASE lock # c
  BY <1>2 DEF LedgerInv, View, Unlogged
<1> QED
  BY <1>1, <1>2

-----------------------------------------------------------------------------
(* The three kinds of step.                                                *)

\* A statement that writes.
LEMMA WriteStep ==
    ASSUME CreditsTypeOK, LedgerInv, NEW c \in Calls, NEW new, NEW statement \in Statements,
           phase[c] \in Transactions, Write(c, new), Ran(c, statement),
           UNCHANGED <<holdId, actual>>,
           Ahead(new, IF statement = "updated" THEN Movement(c) ELSE 0)
    PROVE  LedgerInv'
<1>1. lock' = c /\ draft' = new /\ books' = books /\ phase' = phase
  BY DEF Write, Ran
<1>2. at'[c] = statement /\ \A d \in Calls : d # c => at'[d] = at[d]
  BY DEF Ran, CreditsTypeOK
<1>3. Unlogged(c)' = IF statement = "updated" THEN Movement(c) ELSE 0
  BY <1>1, <1>2 DEF Unlogged, Movement, Refund, Charged
<1>4. Nobody \notin Calls
  BY CreditsAssumption
<1>5. ASSUME NEW d \in Calls, phase'[d] \in Transactions, at'[d] = "updated"
      PROVE  d = c
  BY <1>1, <1>2, <1>4, <1>5 DEF LedgerInv, Write, CanWrite
<1>6. Ahead(draft, Unlogged(c))'
  BY <1>1, <1>3 DEF Ahead, Running, Last
<1>7. Ahead(books, 0)'
  BY <1>1 DEF LedgerInv, Ahead, Running, Last
<1> QED
  BY <1>1, <1>4, <1>5, <1>6, <1>7 DEF LedgerInv

\* A step of c that writes nothing: a look-up, or one outside any transaction.
LEMMA QuietStep ==
    ASSUME CreditsTypeOK, LedgerInv, NEW c \in Calls, ReadOnly,
           \A d \in Calls : d # c => /\ phase'[d] = phase[d]
                                     /\ at'[d] = at[d]
                                     /\ d \in Chats => actual'[d] = actual[d],
           at[c] # "updated" \/ phase[c] \notin Transactions, at'[c] # "updated",
           lock = c => phase'[c] \in Transactions
    PROVE  LedgerInv'
<1>1. books' = books /\ draft' = draft /\ lock' = lock
  BY DEF ReadOnly
<1>2. ASSUME NEW d \in Calls, d # c
      PROVE  Unlogged(d)' = Unlogged(d)
  BY <1>2 DEF Calls, Unlogged, Movement, Refund, Charged
<1>3. ASSUME lock = c
      PROVE  Unlogged(c)' = 0 /\ Unlogged(c) = 0
  BY <1>3 DEF Unlogged, LedgerInv
<1>4. ASSUME NEW d \in Calls, lock' = d
      PROVE  phase'[d] \in Transactions /\ Ahead(draft, Unlogged(d))'
  <2>1. phase'[d] \in Transactions
    BY <1>1, <1>4 DEF LedgerInv
  <2>2. Ahead(draft, Unlogged(d)) /\ Unlogged(d)' = Unlogged(d)
    BY <1>1, <1>2, <1>3, <1>4 DEF LedgerInv
  <2> QED
    BY <2>1, <2>2, <1>1 DEF Ahead, Running, Last
<1>5. ASSUME NEW d \in Calls, phase'[d] \in Transactions, at'[d] = "updated"
      PROVE  lock' = d
  BY <1>1, <1>5 DEF LedgerInv
<1>6. Ahead(books, 0)'
  BY <1>1 DEF LedgerInv, Ahead, Running, Last
<1> QED
  BY <1>1, <1>4, <1>5, <1>6 DEF LedgerInv

\* A transaction that ends, for good or by rolling back.
LEMMA EndStep ==
    ASSUME CreditsTypeOK, LedgerInv, NEW c \in Calls, NEW next,
           \/ CommitWrites(c) /\ at[c] = "logged"
           \/ Rollback(c),
           Enter(c, next), UNCHANGED actual
    PROVE  LedgerInv'
<1>0. /\ phase'[c] = next /\ at'[c] = "begin"
      /\ \A d \in Calls : d # c => phase'[d] = phase[d] /\ at'[d] = at[d]
  BY DEF Enter, CreditsTypeOK
<1>1. CASE lock = c
  <2>1. lock' = Nobody /\ draft' = books' /\ (books' = books \/ (books' = draft /\ at[c] = "logged"))
    BY <1>1 DEF CommitWrites, Rollback
  <2>2. at[c] = "logged" => Ahead(draft, 0)
    BY <1>1 DEF LedgerInv, Unlogged
  <2>3. Ahead(books, 0)'
    BY <2>1, <2>2 DEF LedgerInv, Ahead, Running, Last
  <2>4. ASSUME NEW d \in Calls
        PROVE  ~(phase'[d] \in Transactions /\ at'[d] = "updated")
    BY <1>0, <1>1 DEF LedgerInv
  <2>5. Nobody \notin Calls
    BY CreditsAssumption
  <2> QED
    BY <2>1, <2>3, <2>4, <2>5 DEF LedgerInv
<1>2. CASE lock # c
  <2>1. ReadOnly
    BY <1>2 DEF CommitWrites, Rollback
  <2>2. at[c] # "updated" \/ phase[c] \notin Transactions
    BY <1>2 DEF LedgerInv
  <2> QED
    BY <1>0, <1>2, <2>1, <2>2, QuietStep
<1> QED
  BY <1>1, <1>2

\* What Ran and Enter leave of the other calls.
LEMMA OthersStay ==
    ASSUME CreditsTypeOK, NEW c \in Calls, NEW x, Ran(c, x) \/ Enter(c, x)
    PROVE  /\ \A d \in Calls : d # c => phase'[d] = phase[d] /\ at'[d] = at[d]
           /\ Ran(c, x) => phase'[c] = phase[c] /\ at'[c] = x
           /\ Enter(c, x) => phase'[c] = x /\ at'[c] = "begin"
BY DEF CreditsTypeOK, Ran, Enter

LEMMA LedgerStep ==
    ASSUME CreditsTypeOK, LedgerInv, [CreditsNext]_creditVars
    PROVE  LedgerInv'
<1>0. CASE UNCHANGED creditVars
  BY <1>0 DEF creditVars, LedgerInv, Ahead, Running, Last, Unlogged, Movement, Refund, Charged
<1> SUFFICES ASSUME NEW c \in Calls, Begin(c) \/ Progress(c) \/ Fault(c)
             PROVE  LedgerInv'
  BY <1>0 DEF CreditsNext
<1>v. View(c) \in Database
  BY ViewType
<1>o. lock = c => phase[c] \in Transactions
  BY DEF LedgerInv
<1>1. CASE Begin(c)
  <2>1. lock # c /\ phase[c] \notin Transactions
    BY <1>1, <1>o DEF Begin, Transactions
  <2> QED
    BY <1>1, <2>1, OthersStay, QuietStep DEF Begin
<1>2. CASE Ensure(c)
  <2>1. phase[c] \in Transactions /\ at[c] = "begin" /\ Unlogged(c) = 0
    BY <1>2 DEF Ensure, Transactions, Unlogged
  <2>2. CASE ReadOnly
    BY <1>2, <2>1, <2>2, OthersStay, QuietStep DEF Ensure
  <2>3. CASE Write(c, [View(c) EXCEPT !.open = TRUE])
    <3> DEFINE new == [View(c) EXCEPT !.open = TRUE]
    <3>1. new.balance = View(c).balance /\ new.ledger = View(c).ledger
      BY <1>v DEF Database
    <3>2. Ahead(new, 0)
      BY <2>1, <3>1, ViewIsLevel DEF Ahead, Running, Last
    <3> HIDE DEF new
    <3>3. "opened" \in Statements
      BY DEF Statements
    <3> QED
      BY <1>2, <2>1, <2>3, <3>2, <3>3, WriteStep DEF Ensure, new
  <2> QED
    BY <1>2, <2>2, <2>3 DEF Ensure, EnsureAccount
<1>3. CASE c \in Grants /\ GrantStep(c)
  <2>0. c \in Grants /\ GrantAmount \in Nat /\ Movement(c) = GrantAmount
    BY <1>3, CreditsAssumption DEF Movement
  <2>1. CASE LookUp(c)
    <3>1. PICK x \in {"logged", "checked"} : Ran(c, x)
      BY <2>1 DEF LookUp
    <3>2. phase[c] \in Transactions /\ at[c] = "opened"
      BY <2>1 DEF LookUp, InTx, Transactions
    <3> QED
      BY <2>1, <3>1, <3>2, OthersStay, QuietStep DEF LookUp
  <2>2. CASE AddBalance(c)
    <3> DEFINE new == [View(c) EXCEPT !.balance = @ + GrantAmount]
    <3>1. phase[c] \in Transactions /\ Unlogged(c) = 0
      BY <2>2 DEF AddBalance, InTx, Transactions, Unlogged
    <3>2. new \in Database /\ new.balance = View(c).balance + GrantAmount
          /\ new.ledger = View(c).ledger
      BY <1>v, <2>0 DEF Database
    <3>3. View(c).balance \in Int /\ View(c).balance >= 0
      BY <1>v, <3>1, ViewIsLevel DEF Ahead, Database
    <3>4. Ahead(View(c), 0)
      BY <3>1, ViewIsLevel
    <3> HIDE DEF new
    <3>5. Ahead(new, Movement(c))
      BY <1>v, <2>0, <3>2, <3>3, <3>4, MovedIsAhead
    <3>6. "updated" \in Statements
      BY DEF Statements
    <3> QED
      BY <2>2, <3>1, <3>5, <3>6, WriteStep DEF AddBalance, new
  <2>3. CASE LogGrant(c)
    <3>1. phase[c] \in Transactions /\ Unlogged(c) = GrantAmount
      BY <2>0, <2>3 DEF LogGrant, InTx, Transactions, Unlogged
    <3>2. Ahead(Appended(View(c), "grant", GrantAmount, ReferenceOf[c], NoHold), 0)
      BY <1>v, <2>0, <3>1, ViewIsLevel, LoggedIsLevel
    <3>3. "logged" \in Statements
      BY DEF Statements
    <3> QED
      BY <2>3, <3>1, <3>2, <3>3, WriteStep DEF LogGrant
  <2> QED
    BY <1>3, <2>1, <2>2, <2>3 DEF GrantStep
<1>4. CASE c \in Chats /\ ChatStep(c)
  <2>0. /\ c \in Chats /\ c \notin Grants
        /\ Estimate[c] \in Nat /\ Refund(c) \in Nat /\ Refund(c) \in Int
    BY <1>4, RefundType, CreditsAssumption
  <2>s. "updated" \in Statements /\ "logged" \in Statements
    BY DEF Statements
  <2>1. CASE Claim(c)
    <3> DEFINE new == [View(c) EXCEPT !.balance = @ - Estimate[c], !.held = @ + Estimate[c]]
    <3>1. phase[c] = "hold" /\ phase[c] \in Transactions /\ Unlogged(c) = 0
      BY <2>1 DEF Claim, InTx, Transactions, Unlogged
    <3>2. new \in Database
      BY <1>v, <2>0, ClaimType
    <3>3. new.balance = View(c).balance - Estimate[c] /\ new.ledger = View(c).ledger
      BY <1>v DEF Database
    <3>4. View(c).balance \in Int /\ View(c).balance >= Estimate[c]
      BY <1>v, <2>1 DEF Claim, Database
    <3>5. Ahead(View(c), 0) /\ Movement(c) = -Estimate[c]
      BY <2>0, <3>1, ViewIsLevel DEF Movement
    <3> HIDE DEF new
    <3>6. new.balance = View(c).balance + (-Estimate[c]) /\ new.balance >= 0 /\ -Estimate[c] \in Int
      BY <2>0, <3>3, <3>4
    <3>7. Ahead(new, Movement(c))
      BY <1>v, <3>2, <3>3, <3>5, <3>6, MovedIsAhead
    <3> QED
      BY <2>1, <2>s, <3>1, <3>7, WriteStep DEF Claim, new
  <2>2. CASE Refuse(c)
    BY <2>2, EndStep DEF Refuse
  <2>3. CASE LogHold(c)
    <3>1. phase[c] \in Transactions /\ Unlogged(c) = -Estimate[c] /\ -Estimate[c] \in Int
      BY <2>0, <2>3 DEF LogHold, InTx, Transactions, Unlogged, Movement
    <3>2. Ahead(Appended(View(c), "hold", -Estimate[c], NoReference, NoHold), 0)
      BY <1>v, <3>1, ViewIsLevel, LoggedIsLevel
    <3> QED
      BY <2>3, <2>s, <3>1, <3>2, WriteStep DEF LogHold
  <2>4. CASE Answer(c)
    <3>1. lock # c /\ phase[c] \notin Transactions
      BY <2>4, <1>o DEF Answer, Transactions
    <3>2. \A d \in Calls : d # c /\ d \in Chats => actual'[d] = actual[d]
      BY <2>4 DEF Answer, CreditsTypeOK
    <3> QED
      BY <2>4, <3>1, <3>2, OthersStay, QuietStep DEF Answer
  <2>5. CASE AskFails(c)
    <3>1. lock # c /\ phase[c] \notin Transactions
      BY <2>5, <1>o DEF AskFails, Transactions
    <3> QED
      BY <2>5, <3>1, OthersStay, QuietStep DEF AskFails
  <2>6. CASE GiveBack(c)
    <3> DEFINE new == [View(c) EXCEPT !.balance = @ + Refund(c),
                                      !.held = IF @ > Estimate[c] THEN @ - Estimate[c] ELSE 0]
    <3>1. phase[c] # "hold" /\ phase[c] \in Transactions /\ Unlogged(c) = 0
      BY <2>6 DEF GiveBack, Transactions, Unlogged
    <3>2. new \in Database
      BY <1>v, <2>0, GiveBackType
    <3>3. new.balance = View(c).balance + Refund(c) /\ new.ledger = View(c).ledger
      <4>1. ASSUME NEW s \in Database, NEW b, NEW h
            PROVE  /\ [s EXCEPT !.balance = b, !.held = h].balance = b
                   /\ [s EXCEPT !.balance = b, !.held = h].ledger = s.ledger
        BY DEF Database
      <4> QED
        BY <1>v, <4>1
    <3>4. View(c).balance \in Int /\ View(c).balance >= 0
      BY <1>v, <3>1, ViewIsLevel DEF Ahead, Database
    <3>5. Ahead(View(c), 0) /\ Movement(c) = Refund(c)
      BY <2>0, <3>1, ViewIsLevel DEF Movement
    <3> HIDE DEF new
    <3>6. new.balance >= 0 /\ Refund(c) \in Int
      BY <2>0, <3>3, <3>4
    <3>7. Ahead(new, Movement(c))
      BY <1>v, <3>2, <3>3, <3>5, <3>6, MovedIsAhead
    <3> QED
      BY <2>6, <2>s, <3>1, <3>7, WriteStep DEF GiveBack, new
  <2>7. CASE LogSettle(c)
    <3>1. phase[c] \in Transactions /\ Unlogged(c) = Refund(c) /\ Refund(c) \in Int
      BY <2>0, <2>7 DEF LogSettle, Transactions, Unlogged, Movement
    <3>2. Ahead(Appended(View(c), "settle", Refund(c), NoReference, holdId[c]), 0)
      BY <1>v, <3>1, ViewIsLevel, LoggedIsLevel
    <3> QED
      BY <2>7, <2>s, <3>1, <3>2, WriteStep DEF LogSettle
  <2> QED
    BY <1>4, <2>1, <2>2, <2>3, <2>4, <2>5, <2>6, <2>7 DEF ChatStep
<1>5. CASE CommitTransaction(c)
  BY <1>5, EndStep DEF CommitTransaction
<1>6. CASE Fault(c)
  BY <1>6, EndStep DEF Fault, CommitUnheard, Throw, Crash
<1> QED
  BY <1>1, <1>2, <1>3, <1>4, <1>5, <1>6 DEF Progress

LEMMA LedgerInit == CreditsInit => LedgerInv
<1> SUFFICES ASSUME CreditsInit PROVE LedgerInv
  OBVIOUS
<1>1. books.ledger = <<>> /\ books.balance = 0 /\ draft = books /\ lock = Nobody
  BY DEF CreditsInit
<1>2. \A c \in Calls : phase[c] = "idle"
  BY DEF CreditsInit
<1>3. Nobody \notin Calls /\ "idle" \notin Transactions
  BY CreditsAssumption DEF Transactions
<1>4. Ahead(books, 0)
  BY <1>1 DEF Ahead, Running, Last
<1> QED
  BY <1>1, <1>2, <1>3, <1>4 DEF LedgerInv

LEMMA LedgerInvariant == CreditsSpec => []LedgerInv
<1>1. CreditsTypeOK /\ LedgerInv /\ [CreditsNext]_creditVars => LedgerInv'
  BY LedgerStep
<1> QED
  BY <1>1, LedgerInit, TypeCorrect, PTL DEF CreditsSpec

\* "The balance and the ledger never diverge", for any number of concurrent
\* calls and any pattern of failures, unheard commits and crashes.
THEOREM BalanceNeverDiverges == CreditsSpec => []BalanceIsTheLedger
<1>1. CreditsTypeOK /\ LedgerInv => BalanceIsTheLedger
  <2> SUFFICES ASSUME CreditsTypeOK, LedgerInv PROVE LedgerRuns(books)
    BY DEF BalanceIsTheLedger
  <2>1. Running(books) /\ books.balance = Last(books) + 0 /\ books.balance \in Int
    BY DEF CreditsTypeOK, Database, LedgerInv, Ahead
  <2>2. Last(books) \in Int
    <3>1. books.ledger # <<>> => books.ledger[Len(books.ledger)] \in Entry
      BY DEF CreditsTypeOK, Database
    <3> QED
      BY <3>1 DEF Last, Entry
  <2>3. books.balance = Last(books)
    BY <2>1, <2>2
  <2> QED
    BY <2>1, <2>3 DEF LedgerRuns, Running, Last
<1> QED
  BY <1>1, TypeCorrect, LedgerInvariant, PTL

\* "Nobody can spend what they do not have": no balance, present or recorded,
\* is ever below zero.
THEOREM NobodyOverdraws == CreditsSpec => []NeverOverdrawn
<1>1. LedgerInv => NeverOverdrawn
  BY DEF LedgerInv, Ahead, Running, NeverOverdrawn
<1> QED
  BY <1>1, LedgerInvariant, PTL

-----------------------------------------------------------------------------
(***************************************************************************)
(* Grants that carry one reference, on an account that does not exist yet. *)
(* The INSERT of the account row is what serialises them: as long as no    *)
(* grant has committed the row is not there, a hold on it is refused, and  *)
(* whoever inserts it first makes every other call wait.                   *)
(***************************************************************************)

OneReference == \A g, h \in Grants : ReferenceOf[g] = ReferenceOf[h]

GrantIds(s) == {i \in 1..Len(s.ledger) : s.ledger[i].kind = "grant"}

\* At most one grant, made under the reference the grants carry.
PaidOnce(s) ==
    /\ \A i, j \in GrantIds(s) : i = j
    /\ \A i \in GrantIds(s), g \in Grants : s.ledger[i].reference = ReferenceOf[g]

\* The account exists exactly when the grant has been paid.
Settled(s) == PaidOnce(s) /\ (s.open <=> GrantIds(s) # {}) /\ (~s.open => s.balance = 0)

\* What the writer's draft looks like at each statement of its transaction.
WriterInv(c) ==
    /\ phase[c] \in Transactions
    /\ PaidOnce(draft) /\ draft.open
    /\ at[c] = "begin" => FALSE
    /\ phase[c] = "grant" /\ at[c] # "logged" => GrantIds(draft) = {}
    /\ phase[c] = "grant" /\ at[c] = "logged" => GrantIds(draft) # {}
    /\ phase[c] = "hold" /\ at[c] = "opened" => draft.balance = 0
    /\ phase[c] = "hold" /\ at[c] # "opened" => GrantIds(draft) # {}
    /\ phase[c] \in {"settle", "release"} => GrantIds(draft) # {}

CallInv(c) ==
    /\ phase[c] \in {"ask", "settle", "release"} => books.open
    /\ phase[c] \in {"grant", "hold"} /\ at[c] = "opened" /\ lock # c => books.open
    /\ phase[c] \in {"grant", "hold"} /\ at[c] \in {"checked", "updated"} => lock = c
    /\ phase[c] = "hold" /\ at[c] = "logged" => lock = c

OnceInv ==
    /\ Settled(books)
    /\ lock = Nobody => draft = books
    /\ \A c \in Calls : lock = c => WriterInv(c)
    /\ \A c \in Calls : CallInv(c)

LEMMA LoggedGrants ==
    ASSUME NEW s \in Database, NEW k, NEW n, NEW r, NEW h
    PROVE  LET t == Appended(s, k, n, r, h)
           IN  /\ t.open = s.open /\ t.balance = s.balance
               /\ \A i \in GrantIds(s) : i \in GrantIds(t) /\ t.ledger[i] = s.ledger[i]
               /\ k # "grant" => GrantIds(t) = GrantIds(s)
               /\ k = "grant" => /\ GrantIds(t) = GrantIds(s) \cup {Len(s.ledger) + 1}
                                 /\ t.ledger[Len(s.ledger) + 1].reference = r
<1> DEFINE e == [kind |-> k, delta |-> n, balance_after |-> s.balance,
                 reference |-> r, hold_id |-> h]
           t == Appended(s, k, n, r, h)
<1>0. s.ledger \in Seq(Entry) /\ Len(s.ledger) \in Nat
  BY DEF Database
<1>1. t.ledger = Append(s.ledger, e) /\ t.balance = s.balance /\ t.open = s.open
  BY DEF Appended, Database
<1>2. /\ Len(t.ledger) = Len(s.ledger) + 1
      /\ t.ledger[Len(s.ledger) + 1] = e
      /\ \A i \in 1..Len(s.ledger) : t.ledger[i] = s.ledger[i]
  BY <1>0, <1>1
<1>3. e.kind = k /\ e.reference = r
  OBVIOUS
<1>4. 1..Len(t.ledger) = (1..Len(s.ledger)) \cup {Len(s.ledger) + 1}
  BY <1>0, <1>2
<1> HIDE DEF e, t
<1>5. \A i \in GrantIds(s) : i \in GrantIds(t) /\ t.ledger[i] = s.ledger[i]
  BY <1>2, <1>4 DEF GrantIds
<1>6. k # "grant" => GrantIds(t) = GrantIds(s)
  BY <1>2, <1>3, <1>4 DEF GrantIds
<1>7. k = "grant" => GrantIds(t) = GrantIds(s) \cup {Len(s.ledger) + 1}
  BY <1>2, <1>3, <1>4 DEF GrantIds
<1> QED
  BY <1>1, <1>2, <1>3, <1>5, <1>6, <1>7 DEF t

\* A statement that leaves the entries alone leaves the grants alone.
LEMMA SameGrants ==
    ASSUME NEW s, NEW t, t.ledger = s.ledger
    PROVE  GrantIds(t) = GrantIds(s) /\ (PaidOnce(t) <=> PaidOnce(s))
BY DEF GrantIds, PaidOnce

\* An entry of another kind does too.
LEMMA SamePaid ==
    ASSUME NEW s \in Database, NEW k, k # "grant", NEW n, NEW r, NEW h, PaidOnce(s)
    PROVE  LET t == Appended(s, k, n, r, h) IN PaidOnce(t) /\ GrantIds(t) = GrantIds(s)
<1> DEFINE t == Appended(s, k, n, r, h)
<1>1. GrantIds(t) = GrantIds(s) /\ \A i \in GrantIds(s) : t.ledger[i] = s.ledger[i]
  BY LoggedGrants
<1> QED
  BY <1>1 DEF PaidOnce

\* What c sees is the draft it wrote or the committed database.
LEMMA ViewOnce ==
    ASSUME OnceInv, NEW c \in Calls
    PROVE  /\ PaidOnce(View(c))
           /\ lock # c => Settled(View(c)) /\ View(c) = books
           /\ lock = c => WriterInv(c) /\ View(c) = draft
BY DEF OnceInv, View, WriterInv, Settled

\* A statement of c that writes.
LEMMA OnceWrite ==
    ASSUME CreditsTypeOK, OnceInv, NEW c \in Calls, NEW new, NEW statement,
           phase[c] \in Transactions, Write(c, new), Ran(c, statement),
           phase[c] \in {"settle", "release"} => books.open,
           WriterInv(c)'
    PROVE  OnceInv'
<1>1. lock' = c /\ books' = books /\ phase' = phase
  BY DEF Write, Ran
<1>2. at'[c] = statement /\ \A d \in Calls : d # c => at'[d] = at[d]
  BY DEF Ran, CreditsTypeOK
<1>3. Nobody \notin Calls /\ lock \in {Nobody, c}
  BY CreditsAssumption DEF Write, CanWrite
<1>4. Settled(books)'
  BY <1>1 DEF OnceInv, Settled, PaidOnce, GrantIds
<1>5. ASSUME NEW d \in Calls
      PROVE  CallInv(d)'
  <2>1. CASE d = c
    BY <1>1, <2>1 DEF CallInv, OnceInv, Transactions
  <2>2. CASE d # c
    BY <1>1, <1>2, <1>3, <2>2 DEF CallInv, OnceInv
  <2> QED
    BY <2>1, <2>2
<1> QED
  BY <1>1, <1>3, <1>4, <1>5 DEF OnceInv

\* A step of c that writes nothing.
LEMMA OnceQuiet ==
    ASSUME CreditsTypeOK, OnceInv, NEW c \in Calls, ReadOnly,
           \A d \in Calls : d # c => phase'[d] = phase[d] /\ at'[d] = at[d],
           lock = c => WriterInv(c)', CallInv(c)'
    PROVE  OnceInv'
<1>1. books' = books /\ draft' = draft /\ lock' = lock
  BY DEF ReadOnly
<1>2. Settled(books)'
  BY <1>1 DEF OnceInv, Settled, PaidOnce, GrantIds
<1>3. ASSUME NEW d \in Calls
      PROVE  CallInv(d)' /\ (lock' = d => WriterInv(d)')
  BY <1>1 DEF OnceInv, CallInv, WriterInv, PaidOnce, GrantIds
<1> QED
  BY <1>1, <1>2, <1>3 DEF OnceInv

\* A transaction that ends.
LEMMA OnceEnd ==
    ASSUME CreditsTypeOK, OnceInv, NEW c \in Calls, NEW next \in Phases \ {"idle", "grant", "hold"},
           phase[c] \in Transactions,
           \/ CommitWrites(c) /\ at[c] = "logged"
           \/ Rollback(c),
           Enter(c, next),
           next \in {"ask", "settle", "release"} =>
               \/ phase[c] \in {"settle", "release"}
               \/ phase[c] = "hold" /\ CommitWrites(c) /\ at[c] = "logged"
    PROVE  OnceInv'
<1>0. /\ phase'[c] = next /\ at'[c] = "begin"
      /\ \A d \in Calls : d # c => phase'[d] = phase[d] /\ at'[d] = at[d]
  BY DEF Enter, CreditsTypeOK
<1>n. Nobody \notin Calls
  BY CreditsAssumption
<1>1. CASE lock = c
  <2>1. /\ lock' = Nobody /\ draft' = books'
        /\ \/ books' = books
           \/ books' = draft /\ at[c] = "logged"
    BY <1>1 DEF CommitWrites, Rollback
  <2>2. WriterInv(c)
    BY <1>1 DEF OnceInv
  <2>3. CASE books' = books
    <3>1. next \in {"ask", "settle", "release"} => books.open
      <4>1. phase[c] = "hold" /\ CommitWrites(c) /\ at[c] = "logged" => books' = draft
        BY <1>1 DEF CommitWrites
      <4> QED
        BY <2>2, <2>3, <4>1 DEF OnceInv, CallInv, WriterInv
    <3>2. Settled(books)'
      BY <2>3 DEF OnceInv, Settled, PaidOnce, GrantIds
    <3>3. ASSUME NEW d \in Calls
          PROVE  CallInv(d)'
      BY <1>0, <1>1, <1>n, <2>1, <2>3, <3>1 DEF OnceInv, CallInv
    <3> QED
      BY <1>n, <2>1, <3>2, <3>3 DEF OnceInv
  <2>4. CASE books' = draft /\ at[c] = "logged"
    <3>1. PaidOnce(draft) /\ draft.open /\ GrantIds(draft) # {}
      BY <2>2, <2>4 DEF WriterInv, Transactions
    <3>2. Settled(books)'
      BY <2>4, <3>1 DEF Settled, PaidOnce, GrantIds
    <3>3. books'.open
      BY <2>4, <3>1
    <3>4. ASSUME NEW d \in Calls
          PROVE  CallInv(d)'
      BY <1>0, <1>1, <1>n, <2>1, <3>3 DEF OnceInv, CallInv
    <3> QED
      BY <1>n, <2>1, <3>2, <3>4 DEF OnceInv
  <2> QED
    BY <2>1, <2>3, <2>4
<1>2. CASE lock # c
  <2>1. ReadOnly
    BY <1>2 DEF CommitWrites, Rollback
  <2>2. next \in {"ask", "settle", "release"} => books.open
    BY <1>2 DEF OnceInv, CallInv
  <2>3. CallInv(c)'
    BY <1>0, <2>1, <2>2 DEF CallInv, ReadOnly
  <2> QED
    BY <1>0, <1>2, <2>1, <2>3, OnceQuiet
<1> QED
  BY <1>1, <1>2

\* "Honoured" and "a grant has been paid" are the same of any state a call sees.
LEMMA HonouredIsPaid ==
    ASSUME NEW s, PaidOnce(s), NEW g \in Grants
    PROVE  Honoured(s, ReferenceOf[g]) <=> GrantIds(s) # {}
BY DEF Honoured, GrantIds, PaidOnce

LEMMA OnceStep ==
    ASSUME CreditsTypeOK, OnceInv, OneReference, [CreditsNext]_creditVars
    PROVE  OnceInv'
<1>0. CASE UNCHANGED creditVars
  BY <1>0 DEF creditVars, OnceInv, Settled, PaidOnce, GrantIds, WriterInv, CallInv
<1> SUFFICES ASSUME NEW c \in Calls, Begin(c) \/ Progress(c) \/ Fault(c)
             PROVE  OnceInv'
  BY <1>0 DEF CreditsNext
<1>v. View(c) \in Database
  BY ViewType
<1>c. CallInv(c)
  BY DEF OnceInv
<1>w. lock = c => WriterInv(c) /\ phase[c] \in Transactions /\ at[c] # "begin"
  BY DEF OnceInv, WriterInv
<1>1. CASE Begin(c)
  <2>1. lock # c
    BY <1>1, <1>w DEF Begin, Transactions
  <2>2. phase'[c] \in {"grant", "hold"} /\ at'[c] = "begin"
    BY <1>1, OthersStay DEF Begin
  <2>3. CallInv(c)'
    BY <2>2 DEF CallInv
  <2> QED
    BY <1>1, <2>1, <2>3, OthersStay, OnceQuiet DEF Begin
<1>2. CASE Ensure(c)
  <2>1. /\ phase[c] \in {"grant", "hold"} /\ at[c] = "begin" /\ phase' = phase
        /\ phase[c] \in Transactions /\ lock # c /\ View(c) = books /\ at'[c] = "opened"
    BY <1>2, <1>w, OthersStay DEF Ensure, Ran, Transactions, View
  <2>2. CASE books.open /\ ReadOnly
    <3>1. CallInv(c)'
      BY <2>1, <2>2 DEF CallInv, ReadOnly
    <3> QED
      BY <1>2, <2>1, <2>2, <3>1, OthersStay, OnceQuiet DEF Ensure
  <2>3. CASE ~books.open /\ Write(c, [View(c) EXCEPT !.open = TRUE])
    <3> DEFINE new == [View(c) EXCEPT !.open = TRUE]
    <3>1. new.balance = books.balance /\ new.ledger = books.ledger /\ new.open
      BY <1>v, <2>1 DEF Database
    <3> HIDE DEF new
    <3>2. PaidOnce(books) /\ GrantIds(books) = {} /\ books.balance = 0
      BY <2>3 DEF OnceInv, Settled
    <3>3. PaidOnce(new) /\ GrantIds(new) = {} /\ new.balance = 0
      BY <3>1, <3>2, SameGrants
    <3>4. draft' = new
      BY <2>3 DEF Write, new
    <3>5. WriterInv(c)'
      BY <2>1, <3>1, <3>3, <3>4 DEF WriterInv, PaidOnce, GrantIds
    <3> QED
      BY <1>2, <2>1, <2>3, <3>5, OnceWrite DEF Ensure
  <2> QED
    BY <1>2, <2>2, <2>3 DEF Ensure, EnsureAccount
<1>3. CASE c \in Grants /\ GrantStep(c)
  <2>0. c \in Grants /\ GrantAmount \in Nat
    BY <1>3, CreditsAssumption
  <2>1. CASE LookUp(c)
    <3>1. /\ phase[c] = "grant" /\ at[c] = "opened" /\ phase' = phase
          /\ at'[c] = IF GrantIds(View(c)) # {} THEN "logged" ELSE "checked"
      BY <2>0, <2>1, OthersStay, ViewOnce, HonouredIsPaid DEF LookUp, InTx, Ran
    <3>2. lock # c => at'[c] = "logged"
      BY <1>c, <3>1, ViewOnce DEF CallInv, Settled
    <3>3. lock = c => at'[c] = "checked"
      BY <1>w, <3>1, ViewOnce DEF WriterInv
    <3>4. CallInv(c)'
      BY <2>1, <3>1, <3>2, <3>3 DEF CallInv, LookUp, ReadOnly
    <3>5. lock = c => WriterInv(c)'
      BY <1>w, <2>1, <3>1, <3>3 DEF WriterInv, LookUp, ReadOnly, PaidOnce, GrantIds
    <3>6. \A d \in Calls : d # c => phase'[d] = phase[d] /\ at'[d] = at[d]
      BY <2>1, OthersStay DEF LookUp
    <3> QED
      BY <2>1, <3>4, <3>5, <3>6, OnceQuiet DEF LookUp
  <2>2. CASE AddBalance(c)
    <3> DEFINE new == [View(c) EXCEPT !.balance = @ + GrantAmount]
    <3>1. /\ phase[c] = "grant" /\ at[c] = "checked" /\ phase' = phase /\ at'[c] = "updated"
          /\ phase[c] \in Transactions /\ lock = c
      BY <1>c, <2>2, OthersStay DEF AddBalance, InTx, Ran, Transactions, CallInv
    <3>2. View(c) = draft /\ PaidOnce(draft) /\ draft.open /\ GrantIds(draft) = {}
      BY <1>w, <3>1 DEF View, WriterInv
    <3>3. new.ledger = draft.ledger /\ new.open
      BY <1>v, <3>2 DEF Database
    <3>4. draft' = new
      BY <2>2 DEF AddBalance, Write
    <3> HIDE DEF new
    <3>5. PaidOnce(new) /\ GrantIds(new) = {}
      BY <3>2, <3>3, SameGrants
    <3>6. WriterInv(c)'
      BY <3>1, <3>3, <3>4, <3>5 DEF WriterInv, PaidOnce, GrantIds
    <3> QED
      BY <2>2, <3>1, <3>6, OnceWrite DEF AddBalance
  <2>3. CASE LogGrant(c)
    <3> DEFINE new == Appended(View(c), "grant", GrantAmount, ReferenceOf[c], NoHold)
    <3>1. /\ phase[c] = "grant" /\ at[c] = "updated" /\ phase' = phase /\ at'[c] = "logged"
          /\ phase[c] \in Transactions /\ lock = c
      BY <1>c, <2>3, OthersStay DEF LogGrant, InTx, Ran, Transactions, CallInv
    <3>2. View(c) = draft /\ PaidOnce(draft) /\ draft.open /\ GrantIds(draft) = {}
      BY <1>w, <3>1 DEF View, WriterInv
    <3>3. /\ new.open /\ GrantIds(new) = {Len(draft.ledger) + 1}
          /\ new.ledger[Len(draft.ledger) + 1].reference = ReferenceOf[c]
      BY <1>v, <3>2, LoggedGrants
    <3>4. draft' = new
      BY <2>3 DEF LogGrant, Write
    <3> HIDE DEF new
    <3>5. PaidOnce(new) /\ GrantIds(new) # {}
      BY <2>0, <3>3 DEF PaidOnce, OneReference
    <3>6. WriterInv(c)'
      BY <3>1, <3>3, <3>4, <3>5 DEF WriterInv, PaidOnce, GrantIds
    <3> QED
      BY <2>3, <3>1, <3>6, OnceWrite DEF LogGrant
  <2> QED
    BY <1>3, <2>1, <2>2, <2>3 DEF GrantStep
<1>4. CASE c \in Chats /\ ChatStep(c)
  <2>0. c \in Chats /\ Estimate[c] \in Nat \ {0} /\ Refund(c) \in Nat /\ Refund(c) \in Int
    BY <1>4, RefundType
  <2>a. ASSUME NEW s \in Database, NEW b, NEW h
        PROVE  /\ [s EXCEPT !.balance = b, !.held = h].open = s.open
               /\ [s EXCEPT !.balance = b, !.held = h].ledger = s.ledger
    BY DEF Database
  <2>p. \* A statement after which the account has been granted something.
        ASSUME NEW new, NEW statement, Write(c, new), Ran(c, statement),
               statement \in {"updated", "logged"},
               phase[c] \in {"hold", "settle", "release"},
               PaidOnce(new), new.open, GrantIds(new) # {}
        PROVE  OnceInv'
    <3>1. phase' = phase /\ at'[c] = statement /\ draft' = new
      BY <2>p, OthersStay DEF Ran, Write
    <3>2. WriterInv(c)'
      BY <2>p, <3>1 DEF WriterInv, Transactions, PaidOnce, GrantIds
    <3> QED
      BY <1>c, <2>p, <3>2, OnceWrite DEF CallInv, Transactions
  <2>1. CASE Claim(c)
    <3> DEFINE new == [View(c) EXCEPT !.balance = @ - Estimate[c], !.held = @ + Estimate[c]]
    <3>1. phase[c] = "hold" /\ at[c] = "opened" /\ View(c).balance >= Estimate[c]
      BY <2>1 DEF Claim, InTx
    <3>2. lock # c
      BY <1>w, <2>0, <3>1 DEF View, WriterInv
    <3>3. View(c) = books /\ books.open /\ PaidOnce(books) /\ GrantIds(books) # {}
      BY <1>c, <3>1, <3>2, ViewOnce DEF CallInv, Settled
    <3>4. new.open /\ new.ledger = books.ledger
      BY <1>v, <2>a, <3>3
    <3> HIDE DEF new
    <3>5. PaidOnce(new) /\ GrantIds(new) # {}
      BY <3>3, <3>4, SameGrants
    <3>6. Write(c, new) /\ Ran(c, "updated")
      BY <2>1 DEF Claim, new
    <3> QED
      BY <2>p, <3>1, <3>4, <3>5, <3>6
  <2>2. CASE Refuse(c)
    <3>1. phase[c] \in Transactions /\ "refused" \in Phases \ {"idle", "grant", "hold"}
      BY <2>2 DEF Refuse, InTx, Transactions, Phases, Endings
    <3> QED
      BY <2>2, <3>1, OnceEnd DEF Refuse
  <2>3. CASE LogHold(c)
    <3> DEFINE new == Appended(View(c), "hold", -Estimate[c], NoReference, NoHold)
    <3>1. phase[c] = "hold" /\ at[c] = "updated" /\ lock = c
      BY <1>c, <2>3 DEF LogHold, InTx, CallInv
    <3>2. View(c) = draft /\ PaidOnce(View(c)) /\ View(c).open /\ GrantIds(View(c)) # {}
      BY <1>w, <3>1 DEF View, WriterInv
    <3>3. new.open
      BY <1>v, <3>2, LoggedGrants
    <3>4. PaidOnce(new) /\ GrantIds(new) # {}
      BY <1>v, <3>2, SamePaid
    <3> HIDE DEF new
    <3>5. Write(c, new) /\ Ran(c, "logged")
      BY <2>3 DEF LogHold, new
    <3> QED
      BY <2>p, <3>1, <3>3, <3>4, <3>5
  <2>4. CASE Answer(c)
    <3>1. lock # c /\ books.open
      BY <1>c, <1>w, <2>4 DEF Answer, Transactions, CallInv
    <3>2. phase'[c] = "settle" /\ at'[c] = "begin"
      BY <2>4, OthersStay DEF Answer
    <3>3. CallInv(c)'
      BY <2>4, <3>1, <3>2 DEF Answer, ReadOnly, CallInv
    <3> QED
      BY <2>4, <3>1, <3>3, OthersStay, OnceQuiet DEF Answer
  <2>5. CASE AskFails(c)
    <3>1. lock # c /\ books.open
      BY <1>c, <1>w, <2>5 DEF AskFails, Transactions, CallInv
    <3>2. phase'[c] = "release" /\ at'[c] = "begin"
      BY <2>5, OthersStay DEF AskFails
    <3>3. CallInv(c)'
      BY <2>5, <3>1, <3>2 DEF AskFails, ReadOnly, CallInv
    <3> QED
      BY <2>5, <3>1, <3>3, OthersStay, OnceQuiet DEF AskFails
  <2>s. \* Whoever settles sees an account that has been granted something.
        ASSUME phase[c] \in {"settle", "release"}
        PROVE  View(c).open /\ PaidOnce(View(c)) /\ GrantIds(View(c)) # {}
    <3>1. CASE lock = c
      BY <1>w, <2>s, <3>1 DEF View, WriterInv
    <3>2. CASE lock # c
      BY <1>c, <2>s, <3>2, ViewOnce DEF CallInv, Settled
    <3> QED
      BY <3>1, <3>2
  <2>6. CASE GiveBack(c)
    <3> DEFINE new == [View(c) EXCEPT !.balance = @ + Refund(c),
                                      !.held = IF @ > Estimate[c] THEN @ - Estimate[c] ELSE 0]
    <3>1. phase[c] \in {"settle", "release"}
      BY <2>6 DEF GiveBack
    <3>2. new.open = View(c).open /\ new.ledger = View(c).ledger
      BY <1>v, <2>a
    <3> HIDE DEF new
    <3>3. new.open /\ PaidOnce(new) /\ GrantIds(new) # {}
      BY <2>s, <3>1, <3>2, SameGrants
    <3>4. Write(c, new) /\ Ran(c, "updated")
      BY <2>6 DEF GiveBack, new
    <3> QED
      BY <2>p, <3>1, <3>3, <3>4
  <2>7. CASE LogSettle(c)
    <3> DEFINE new == Appended(View(c), "settle", Refund(c), NoReference, holdId[c])
    <3>1. phase[c] \in {"settle", "release"}
      BY <2>7 DEF LogSettle
    <3>2. new.open
      BY <1>v, <2>s, <3>1, LoggedGrants
    <3>3. PaidOnce(new) /\ GrantIds(new) # {}
      BY <1>v, <2>s, <3>1, SamePaid
    <3> HIDE DEF new
    <3>4. Write(c, new) /\ Ran(c, "logged")
      BY <2>7 DEF LogSettle, new
    <3> QED
      BY <2>p, <3>1, <3>2, <3>3, <3>4
  <2> QED
    BY <1>4, <2>1, <2>2, <2>3, <2>4, <2>5, <2>6, <2>7 DEF ChatStep
<1>5. CASE CommitTransaction(c)
  <2>1. OnReturn(phase[c]) \in Phases \ {"idle", "grant", "hold"}
    BY <1>5 DEF CommitTransaction, OnReturn, Transactions, Phases, Endings
  <2>2. OnReturn(phase[c]) \in {"ask", "settle", "release"} => phase[c] = "hold"
    BY <1>5 DEF CommitTransaction, OnReturn, Transactions
  <2> QED
    BY <1>5, <2>1, <2>2, OnceEnd DEF CommitTransaction
<1>6. CASE CommitUnheard(c) \/ Throw(c)
  <2>1. /\ OnThrow(phase[c]) \in Phases \ {"idle", "grant", "hold"}
        /\ OnThrow(phase[c]) \in {"ask", "settle", "release"} => phase[c] = "settle"
    BY DEF OnThrow, Phases, Transactions, Endings
  <2> QED
    BY <1>6, <2>1, OnceEnd DEF CommitUnheard, Throw
<1>7. CASE Crash(c)
  <2>1. "crashed" \in Phases \ {"idle", "grant", "hold"}
    BY DEF Phases, Endings
  <2>2. CASE phase[c] \in Transactions
    BY <1>7, <2>1, <2>2, OnceEnd DEF Crash
  <2>3. CASE phase[c] = "ask"
    <3>1. lock # c
      BY <1>w, <2>3 DEF Transactions
    <3>2. ReadOnly
      BY <1>7, <3>1 DEF Crash, Rollback
    <3>3. phase'[c] = "crashed"
      BY <1>7, OthersStay DEF Crash
    <3>4. CallInv(c)'
      BY <3>3 DEF CallInv
    <3> QED
      BY <1>7, <3>1, <3>2, <3>4, OthersStay, OnceQuiet DEF Crash
  <2> QED
    BY <1>7, <2>2, <2>3 DEF Crash
<1> QED
  BY <1>1, <1>2, <1>3, <1>4, <1>5, <1>6, <1>7 DEF Progress, Fault

LEMMA OnceInit == CreditsInit => OnceInv
<1> SUFFICES ASSUME CreditsInit PROVE OnceInv
  OBVIOUS
<1>1. books.ledger = <<>> /\ books.balance = 0 /\ ~books.open /\ draft = books /\ lock = Nobody
  BY DEF CreditsInit
<1>2. \A c \in Calls : phase[c] = "idle"
  BY DEF CreditsInit
<1>3. Nobody \notin Calls
  BY CreditsAssumption
<1>4. GrantIds(books) = {}
  BY <1>1 DEF GrantIds
<1>5. Settled(books)
  BY <1>1, <1>4 DEF Settled, PaidOnce
<1> QED
  BY <1>1, <1>2, <1>3, <1>5 DEF OnceInv, CallInv

\* "The same reference is only ever honoured once", for the grants of one
\* reference on an account they are the first to open: the signup grant, however
\* often and however concurrently it is asked for.
THEOREM SignupHonouredOnce ==
    CreditsSpec => [](OneReference => ReferenceHonouredOnce)
<1> DEFINE Inv == OneReference => OnceInv
<1>1. CreditsTypeOK /\ Inv /\ [CreditsNext]_creditVars => Inv'
  BY OnceStep DEF OneReference
<1>0. CreditsInit => Inv
  BY OnceInit
<1>2. Inv => (OneReference => ReferenceHonouredOnce)
  <2> SUFFICES ASSUME OnceInv, NEW reference \in References
               PROVE  Cardinality(HonouredFor(reference)) <= 1
    BY DEF ReferenceHonouredOnce
  <2>1. \A i, j \in HonouredFor(reference) : i = j
    BY DEF OnceInv, Settled, PaidOnce, GrantIds, HonouredFor
  <2>2. CASE HonouredFor(reference) = {}
    <3>1. Cardinality({}) = 0
      BY FS_EmptySet
    <3> QED
      BY <2>2, <3>1
  <2>3. CASE HonouredFor(reference) # {}
    <3>1. PICK i : HonouredFor(reference) = {i}
      BY <2>1, <2>3
    <3>2. Cardinality({i}) = 1
      BY FS_Singleton
    <3> QED
      BY <3>1, <3>2
  <2> QED
    BY <2>2, <2>3
<1> QED
  BY <1>0, <1>1, <1>2, TypeCorrect, PTL DEF CreditsSpec

-----------------------------------------------------------------------------
(***************************************************************************)
(* Totals.  What the entries at a finite set moved together is defined by  *)
(* a recursive function on its subsets.  That the function exists and may  *)
(* be unfolded at any element is shown by least counterexamples: a set of  *)
(* numbers, or of finite sets, that is not empty has a smallest member.    *)
(***************************************************************************)

LEMMA LeastOfNats ==
    ASSUME NEW T, T \subseteq Nat, T # {}
    PROVE  \E x \in T : \A y \in T : x <= y
<1> DEFINE R == OpToRel(<, Nat)
<1>1. \A i, j \in Nat : i < j => <<i, j>> \in R
  BY DEF OpToRel
<1>2. IsWellFoundedOn(R, Nat)
  BY NatLessThanWellFounded
<1> HIDE DEF R
<1>3. PICK x \in T : \A y \in T : <<y, x>> \notin R
  BY <1>2, WFMin
<1>4. \A y \in T : ~(y < x)
  BY <1>1, <1>3
<1> QED
  BY <1>4

LEMMA SmallestOfSets ==
    ASSUME NEW S, IsFiniteSet(S), NEW Bad, Bad \subseteq SUBSET S, Bad # {}
    PROVE  \E s \in Bad : \A t \in Bad : Cardinality(s) <= Cardinality(t)
<1> DEFINE T == {Cardinality(s) : s \in Bad}
<1>1. T \subseteq Nat
  BY FS_Subset, FS_CardinalityType
<1>2. T # {}
  OBVIOUS
<1>3. PICK n \in T : \A m \in T : n <= m
  <2> HIDE DEF T
  <2> QED
    BY <1>1, <1>2, LeastOfNats
<1> QED
  BY <1>3

\* The recursive function behind a total: it takes a set apart one entry at a time.
Chosen(s) == CHOOSE x \in s : TRUE
SumOf(l, g, s) == IF s = {} THEN 0 ELSE l[Chosen(s)].delta + g[s \ {Chosen(s)}]
Sums(l, S) == CHOOSE g : g = [s \in SUBSET S |-> SumOf(l, g, s)]

HasDeltas(l, S) == IsFiniteSet(S) /\ \A x \in S : l[x].delta \in Int

LEMMA TotalIsASum ==
    ASSUME NEW l, NEW S
    PROVE  TotalOf(l, S) = Sums(l, S)[S]
BY DEF TotalOf, MapThenSumSet, MapThenFoldSet, Sums, SumOf, Chosen

LEMMA WithoutOne ==
    ASSUME NEW s, IsFiniteSet(s), NEW x \in s
    PROVE  /\ IsFiniteSet(s \ {x}) /\ Cardinality(s) \in Nat /\ Cardinality(s \ {x}) \in Nat
           /\ Cardinality(s) = Cardinality(s \ {x}) + 1
<1>1. IsFiniteSet(s \ {x}) /\ Cardinality(s \ {x}) = Cardinality(s) - 1
  BY FS_RemoveElement
<1>2. Cardinality(s) \in Nat /\ Cardinality(s \ {x}) \in Nat
  BY <1>1, FS_CardinalityType
<1> QED
  BY <1>1, <1>2

LEMMA ChosenIsIn ==
    ASSUME NEW s, s # {}
    PROVE  Chosen(s) \in s
BY DEF Chosen

(* g is a solution of the equation on the sets of at most n elements.          *)
SumsUpTo(l, S, g, n) ==
    /\ g \in [{s \in SUBSET S : Cardinality(s) <= n} -> Int]
    /\ \A s \in SUBSET S : Cardinality(s) <= n => g[s] = SumOf(l, g, s)

(* The equation has a solution on the sets of at most n elements, for every n. *)
LEMMA SumsExistUpTo ==
    ASSUME NEW l, NEW S, HasDeltas(l, S), NEW n \in Nat
    PROVE  \E g : SumsUpTo(l, S, g, n)
<1> DEFINE Small(m) == {s \in SUBSET S : Cardinality(s) <= m}
           Solves(g, m) == SumsUpTo(l, S, g, m)
           Bad == {m \in Nat : ~ \E g : Solves(g, m)}
<1>0. \A s \in SUBSET S : IsFiniteSet(s) /\ Cardinality(s) \in Nat
  BY FS_Subset, FS_CardinalityType DEF HasDeltas
<1>1. ASSUME 0 \in Bad PROVE FALSE
  <2> DEFINE g == [s \in Small(0) |-> 0]
  <2>1. \A s \in SUBSET S : Cardinality(s) <= 0 => s = {}
    BY <1>0, FS_EmptySet
  <2>2. g \in [Small(0) -> Int]
    OBVIOUS
  <2>3. \A s \in SUBSET S : Cardinality(s) <= 0 => g[s] = SumOf(l, g, s)
    BY <2>1 DEF SumOf
  <2>4. Solves(g, 0)
    BY <2>2, <2>3 DEF SumsUpTo
  <2> HIDE DEF g, Solves
  <2> QED
    BY <1>1, <2>4
<1>2. ASSUME NEW m \in Nat, m + 1 \in Bad, m \notin Bad PROVE FALSE
  <2>1. PICK g : Solves(g, m)
    BY <1>2
  <2> DEFINE h == [s \in Small(m + 1) |-> IF Cardinality(s) <= m THEN g[s] ELSE SumOf(l, g, s)]
  <2>2. ASSUME NEW s \in SUBSET S, Cardinality(s) <= m + 1, s # {}
        PROVE  /\ Chosen(s) \in s /\ s \ {Chosen(s)} \in SUBSET S
               /\ Cardinality(s \ {Chosen(s)}) <= m
               /\ g[s \ {Chosen(s)}] \in Int
               /\ h[s \ {Chosen(s)}] = g[s \ {Chosen(s)}]
               /\ SumOf(l, h, s) = SumOf(l, g, s) /\ SumOf(l, g, s) \in Int
    <3>1. Chosen(s) \in s
      BY <2>2, ChosenIsIn
    <3>2. Cardinality(s \ {Chosen(s)}) <= m /\ s \ {Chosen(s)} \in SUBSET S
      BY <1>0, <2>2, <3>1, WithoutOne
    <3>3. g[s \ {Chosen(s)}] \in Int
      BY <2>1, <3>2 DEF SumsUpTo
    <3>4. h[s \ {Chosen(s)}] = g[s \ {Chosen(s)}]
      BY <1>0, <3>2
    <3>5. l[Chosen(s)].delta \in Int
      BY <3>1 DEF HasDeltas
    <3> HIDE DEF h, Solves
    <3> QED
      BY <2>2, <3>1, <3>2, <3>3, <3>4, <3>5 DEF SumOf
  <2>3. ASSUME NEW s \in SUBSET S, Cardinality(s) <= m + 1
        PROVE  h[s] \in Int /\ h[s] = SumOf(l, h, s)
    <3>1. CASE s = {}
      <4>1. Cardinality(s) <= m
        BY <3>1, FS_EmptySet
      <4>2. h[s] = g[s] /\ g[s] = SumOf(l, g, s)
        BY <2>1, <2>3, <4>1 DEF SumsUpTo
      <4> HIDE DEF h
      <4>3. SumOf(l, g, s) = 0 /\ SumOf(l, h, s) = 0
        BY <3>1 DEF SumOf
      <4> QED
        BY <4>2, <4>3
    <3>2. CASE s # {}
      <4>1. SumOf(l, h, s) = SumOf(l, g, s) /\ SumOf(l, g, s) \in Int
        BY <2>2, <2>3, <3>2
      <4>2. h[s] = SumOf(l, g, s)
        BY <2>1, <2>3 DEF SumsUpTo
      <4> HIDE DEF h
      <4> QED
        BY <4>1, <4>2
    <3> QED
      BY <3>1, <3>2
  <2>4. h \in [Small(m + 1) -> Int]
    <3>1. \A s \in Small(m + 1) : h[s] \in Int
      BY <2>3
    <3> QED
      BY <3>1
  <2>5. Solves(h, m + 1)
    <3> HIDE DEF h
    <3> QED
      BY <2>3, <2>4 DEF SumsUpTo
  <2> HIDE DEF h, Solves
  <2> QED
    BY <1>2, <2>5
<1>3. Bad = {}
  <2> SUFFICES ASSUME Bad # {} PROVE FALSE
    OBVIOUS
  <2>1. PICK k \in Bad : \A j \in Bad : k <= j
    <3>1. Bad \subseteq Nat
      OBVIOUS
    <3> HIDE DEF Bad
    <3> QED
      BY <3>1, LeastOfNats
  <2>2. k \in Nat /\ k # 0
    BY <1>1
  <2>3. k - 1 \in Nat /\ (k - 1) + 1 = k
    BY <2>2
  <2>4. k - 1 \notin Bad
    <3> HIDE DEF Bad
    <3> QED
      BY <2>1, <2>2, <2>3
  <2> HIDE DEF Bad
  <2> QED
    BY <1>2, <2>3, <2>4
<1>4. \E g : Solves(g, n)
  BY <1>3
<1> QED
  BY <1>4

LEMMA SumsExist ==
    ASSUME NEW l, NEW S, HasDeltas(l, S)
    PROVE  \A s \in SUBSET S : Sums(l, S)[s] = SumOf(l, Sums(l, S), s)
<1>1. PICK n \in Nat : n = Cardinality(S)
  BY FS_CardinalityType DEF HasDeltas
<1>2. \A s \in SUBSET S : Cardinality(s) <= n
  BY <1>1, FS_Subset DEF HasDeltas
<1>3. PICK g : SumsUpTo(l, S, g, n)
  BY SumsExistUpTo
<1>4. g = [s \in SUBSET S |-> SumOf(l, g, s)]
  <2>1. {s \in SUBSET S : Cardinality(s) <= n} = SUBSET S
    BY <1>2
  <2> QED
    BY <1>2, <1>3, <2>1 DEF SumsUpTo
<1>5. Sums(l, S) = [s \in SUBSET S |-> SumOf(l, Sums(l, S), s)]
  BY <1>4 DEF Sums
<1> QED
  BY <1>5

(* What is summed is a number, and does not depend on what else is there.      *)
LEMMA SumsAgree ==
    ASSUME NEW l, NEW k, NEW S, NEW T, HasDeltas(l, S), HasDeltas(k, T), S \subseteq T,
           \A x \in S : l[x].delta = k[x].delta
    PROVE  \A s \in SUBSET S : Sums(l, S)[s] = Sums(k, T)[s] /\ Sums(l, S)[s] \in Int
<1> DEFINE Bad == {s \in SUBSET S : ~(Sums(l, S)[s] = Sums(k, T)[s] /\ Sums(l, S)[s] \in Int)}
<1>1. SUFFICES ASSUME Bad # {} PROVE FALSE
  OBVIOUS
<1>2. PICK s \in Bad : \A t \in Bad : Cardinality(s) <= Cardinality(t)
  <2>1. Bad \subseteq SUBSET S /\ IsFiniteSet(S)
    BY DEF HasDeltas
  <2> HIDE DEF Bad
  <2> QED
    BY <1>1, <2>1, SmallestOfSets
<1>3. Sums(l, S)[s] = SumOf(l, Sums(l, S), s) /\ Sums(k, T)[s] = SumOf(k, Sums(k, T), s)
  BY SumsExist
<1>4. s # {}
  BY <1>3 DEF SumOf
<1> DEFINE c == Chosen(s)
<1>5. c \in s /\ s \ {c} \in SUBSET S
  BY <1>4, ChosenIsIn
<1>6. s \ {c} \notin Bad
  <2>1. IsFiniteSet(s)
    BY FS_Subset DEF HasDeltas
  <2> HIDE DEF Bad, c
  <2>2. ~(Cardinality(s) <= Cardinality(s \ {c}))
    BY <1>5, <2>1, WithoutOne
  <2> QED
    BY <1>2, <2>2
<1>7. l[c].delta \in Int /\ l[c].delta = k[c].delta
  BY <1>5 DEF HasDeltas
<1>8. Sums(l, S)[s \ {c}] = Sums(k, T)[s \ {c}] /\ Sums(l, S)[s \ {c}] \in Int
  BY <1>5, <1>6
<1> QED
  BY <1>3, <1>4, <1>7, <1>8 DEF SumOf

(* It does not matter which is taken first.                                    *)
LEMMA SumsTakeAny ==
    ASSUME NEW l, NEW S, HasDeltas(l, S)
    PROVE  \A s \in SUBSET S : \A x \in s : Sums(l, S)[s] = l[x].delta + Sums(l, S)[s \ {x}]
<1> DEFINE g == Sums(l, S)
           Bad == {s \in SUBSET S : \E x \in s : g[s] # l[x].delta + g[s \ {x}]}
<1>1. SUFFICES ASSUME Bad # {} PROVE FALSE
  OBVIOUS
<1>2. PICK s \in Bad : \A t \in Bad : Cardinality(s) <= Cardinality(t)
  <2>1. Bad \subseteq SUBSET S /\ IsFiniteSet(S)
    BY DEF HasDeltas
  <2> HIDE DEF Bad
  <2> QED
    BY <1>1, <2>1, SmallestOfSets
<1>3. PICK x \in s : g[s] # l[x].delta + g[s \ {x}]
  OBVIOUS
<1>4. \A t \in SUBSET S : g[t] = SumOf(l, g, t) /\ g[t] \in Int
  BY SumsExist, SumsAgree
<1> DEFINE c == Chosen(s)
<1> HIDE DEF g
<1>5. g[s] = l[c].delta + g[s \ {c}]
  BY <1>3, <1>4 DEF SumOf
<1>6. c \in s /\ c # x
  BY <1>3, <1>5, ChosenIsIn
<1> HIDE DEF c
<1>7. s \ {c} \notin Bad /\ s \ {x} \notin Bad
  <2>1. IsFiniteSet(s)
    BY FS_Subset DEF HasDeltas
  <2>2. ASSUME NEW y \in s PROVE ~(Cardinality(s) <= Cardinality(s \ {y}))
    BY <2>1, WithoutOne
  <2> HIDE DEF Bad
  <2> QED
    BY <1>2, <1>6, <2>2
<1>8. g[s \ {c}] = l[x].delta + g[(s \ {c}) \ {x}] /\ g[s \ {x}] = l[c].delta + g[(s \ {x}) \ {c}]
  BY <1>6, <1>7
<1>9. (s \ {c}) \ {x} = (s \ {x}) \ {c} /\ (s \ {c}) \ {x} \in SUBSET S
  OBVIOUS
<1>10. l[c].delta \in Int /\ l[x].delta \in Int /\ g[(s \ {c}) \ {x}] \in Int
  BY <1>4, <1>6, <1>9 DEF HasDeltas
<1>11. \A a, b, r \in Int : a + (b + r) = b + (a + r)
  OBVIOUS
<1>12. g[s] = l[x].delta + g[s \ {x}]
  <2>1. PICK r \in Int : r = g[(s \ {c}) \ {x}]
    BY <1>10
  <2>2. g[s \ {c}] = l[x].delta + r /\ g[s \ {x}] = l[c].delta + r
    BY <1>8, <1>9, <2>1
  <2> QED
    BY <1>5, <1>10, <1>11, <2>2
<1> QED
  BY <1>3, <1>12

-----------------------------------------------------------------------------
LEMMA TotalOfNothing ==
    ASSUME NEW l
    PROVE  TotalOf(l, {}) = 0
<1>1. HasDeltas(l, {})
  BY FS_EmptySet DEF HasDeltas
<1> QED
  BY <1>1, TotalIsASum, SumsExist DEF SumOf

LEMMA TotalIsTyped ==
    ASSUME NEW l, NEW S, HasDeltas(l, S)
    PROVE  TotalOf(l, S) \in Int
BY TotalIsASum, SumsAgree

LEMMA TotalTakesOne ==
    ASSUME NEW l, NEW S, HasDeltas(l, S), NEW x \in S
    PROVE  TotalOf(l, S) = l[x].delta + TotalOf(l, S \ {x})
<1>1. HasDeltas(l, S \ {x})
  BY FS_RemoveElement DEF HasDeltas
<1>2. Sums(l, S \ {x})[S \ {x}] = Sums(l, S)[S \ {x}]
  BY <1>1, SumsAgree
<1>3. Sums(l, S)[S] = l[x].delta + Sums(l, S)[S \ {x}]
  BY SumsTakeAny
<1> QED
  BY <1>2, <1>3, TotalIsASum

AnyFirst(l, S) == \A x \in S : TotalOf(l, S) = l[x].delta + TotalOf(l, S \ {x})

LEMMA TotalTakesAny ==
    ASSUME NEW l, NEW S, HasDeltas(l, S)
    PROVE  AnyFirst(l, S)
BY TotalTakesOne DEF AnyFirst

LEMMA TotalAgrees ==
    ASSUME NEW l, NEW k, NEW S, HasDeltas(l, S), \A x \in S : l[x].delta = k[x].delta
    PROVE  TotalOf(l, S) = TotalOf(k, S)
<1>1. HasDeltas(k, S)
  BY DEF HasDeltas
<1>2. Sums(l, S)[S] = Sums(k, S)[S]
  BY <1>1, SumsAgree
<1> QED
  BY <1>2, TotalIsASum

-----------------------------------------------------------------------------
(***************************************************************************)
(* Holds.  The committed database changes only when the lock's holder      *)
(* commits, so what a draft adds to it is said once (Drafted), and all     *)
(* else is said of the database: its ledger has the shape the calls give   *)
(* it, `held` is level with the holds that are open, and every chat owns   *)
(* its hold and has resolved it as far as its phase says.                  *)
(***************************************************************************)

HoldsIn(l)      == {i \in 1..Len(l) : l[i].kind = "hold"}
SettlesIn(l, h) == {i \in 1..Len(l) : l[i].hold_id = h}
OpenIn(l)       == {h \in HoldsIn(l) : SettlesIn(l, h) = {}}
OnceIn(l)       == \A h \in HoldsIn(l) : \A i, j \in SettlesIn(l, h) : i = j

\* A hold takes, what settles one gives back, and comes after it.
Shaped(l) ==
    \A i \in 1..Len(l) :
        /\ l[i].kind = "hold" => l[i].delta <= 0
        /\ l[i].kind = "settle" => l[i].delta >= 0
        /\ l[i].hold_id # 0 => l[i].kind = "settle" /\ l[i].hold_id < i

Level(l, held) == OnceIn(l) => held = -TotalOf(l, OpenIn(l))

\* What `held` is once c has written the account, and the entry c then logs.
HeldAfter(c) ==
    IF c \in Grants THEN books.held
    ELSE IF phase[c] = "hold" THEN books.held + Estimate[c]
    ELSE IF books.held > Estimate[c] THEN books.held - Estimate[c] ELSE 0

Logs(c, e) ==
    IF c \in Grants THEN e.kind = "grant" /\ e.hold_id = 0
    ELSE IF phase[c] = "hold" THEN e.kind = "hold" /\ e.delta = -Estimate[c] /\ e.hold_id = 0
    ELSE e.kind = "settle" /\ e.delta = Refund(c) /\ e.hold_id = holdId[c]

Drafted(c) ==
    IF at[c] = "updated" THEN draft.ledger = books.ledger /\ draft.held = HeldAfter(c)
    ELSE IF at[c] = "logged"
    THEN /\ draft.held = HeldAfter(c)
         /\ \/ \E e \in Entry : draft.ledger = Append(books.ledger, e) /\ Logs(c, e)
            \/ c \in Grants /\ draft.ledger = books.ledger
    ELSE draft.ledger = books.ledger /\ draft.held = books.held

\* Who is in which kind of transaction, and who holds the lock in it.
LockInv ==
    /\ lock = Nobody => draft = books
    /\ \A c \in Calls :
          /\ lock = c => phase[c] \in Transactions /\ Drafted(c)
          /\ c \in Grants => phase[c] \notin {"ask", "hold", "settle", "release"}
          /\ c \in Chats => phase[c] # "grant"
          /\ phase[c] \in {"hold", "settle", "release"} /\ at[c] \in {"updated", "logged"} => lock = c
          /\ phase[c] = "grant" /\ at[c] = "updated" => lock = c

Owns(c) ==
    /\ holdId[c] # 0 => holdId[c] \in HoldsIn(books.ledger) /\ books.ledger[holdId[c]].delta = -Estimate[c]
    /\ phase[c] \in {"idle", "hold"} => holdId[c] = 0
    /\ phase[c] \in {"ask", "settle", "release", "done"} => holdId[c] # 0
    /\ phase[c] \in {"ask", "settle"} => SettlesIn(books.ledger, holdId[c]) = {}
    /\ phase[c] = "done" =>
          \E i \in 1..Len(books.ledger) :
              SettlesIn(books.ledger, holdId[c]) = {i} /\ books.ledger[i].delta = Refund(c)

HoldsInv ==
    /\ Shaped(books.ledger)
    /\ Level(books.ledger, books.held)
    /\ \A c \in Chats : Owns(c)
    /\ \A c, d \in Chats : c # d /\ holdId[c] # 0 => holdId[c] # holdId[d]

-----------------------------------------------------------------------------
(* Entries that only give, or only take.                                       *)
LEMMA TotalKeepsSign ==
    ASSUME NEW l, NEW S, HasDeltas(l, S)
    PROVE  /\ (\A x \in S : l[x].delta >= 0) => TotalOf(l, S) >= 0
           /\ (\A x \in S : l[x].delta <= 0) => TotalOf(l, S) <= 0
<1> DEFINE Right(s) == /\ (\A x \in s : l[x].delta >= 0) => TotalOf(l, s) >= 0
                       /\ (\A x \in s : l[x].delta <= 0) => TotalOf(l, s) <= 0
           Bad == {s \in SUBSET S : ~Right(s)}
<1>1. SUFFICES ASSUME Bad # {} PROVE FALSE
  <2>1. S \in SUBSET S
    OBVIOUS
  <2> QED
    BY <2>1
<1>2. PICK s \in Bad : \A t \in Bad : Cardinality(s) <= Cardinality(t)
  <2>1. Bad \subseteq SUBSET S /\ IsFiniteSet(S)
    BY DEF HasDeltas
  <2> HIDE DEF Bad
  <2> QED
    BY <1>1, <2>1, SmallestOfSets
<1>3. s # {}
  BY TotalOfNothing
<1>4. PICK x \in s : TRUE
  BY <1>3
<1>5. HasDeltas(l, s)
  BY FS_Subset DEF HasDeltas
<1>6. s \ {x} \notin Bad
  <2>1. IsFiniteSet(s)
    BY <1>5 DEF HasDeltas
  <2> HIDE DEF Bad
  <2>2. ~(Cardinality(s) <= Cardinality(s \ {x}))
    BY <2>1, WithoutOne
  <2> QED
    BY <1>2, <2>2
<1>7. Right(s \ {x})
  BY <1>6
<1>8. TotalOf(l, s) = l[x].delta + TotalOf(l, s \ {x}) /\ l[x].delta \in Int
  BY <1>5, TotalTakesOne DEF HasDeltas
<1>9. TotalOf(l, s \ {x}) \in Int
  <2>1. HasDeltas(l, s \ {x})
    BY <1>5, FS_RemoveElement DEF HasDeltas
  <2> QED
    BY <2>1, TotalIsTyped
<1>10. Right(s)
  <2>1. ASSUME \A y \in s : l[y].delta >= 0 PROVE TotalOf(l, s) >= 0
    BY <1>7, <1>8, <1>9, <2>1
  <2>2. ASSUME \A y \in s : l[y].delta <= 0 PROVE TotalOf(l, s) <= 0
    BY <1>7, <1>8, <1>9, <2>2
  <2> QED
    BY <2>1, <2>2
<1> QED
  BY <1>10

LEMMA LedgerDeltas ==
    ASSUME NEW l \in Seq(Entry), NEW S, S \subseteq 1..Len(l)
    PROVE  HasDeltas(l, S)
<1>1. IsFiniteSet(1..Len(l))
  BY FS_Interval
<1>2. IsFiniteSet(S)
  BY <1>1, FS_Subset
<1>3. \A i \in S : l[i] \in Entry
  OBVIOUS
<1> QED
  BY <1>2, <1>3 DEF HasDeltas, Entry

\* k is l with one more entry, e, at n.
OneMore(l, e, k, n) ==
    /\ k \in Seq(Entry) /\ Len(l) \in Nat /\ n = Len(l) + 1 /\ Len(k) = n /\ k[n] = e
    /\ \A i \in 1..Len(l) : k[i] = l[i]
    /\ 1..Len(k) = (1..Len(l)) \cup {n} /\ n \notin 1..Len(l)
    /\ e.kind = "hold" => HoldsIn(k) = HoldsIn(l) \cup {n}
    /\ e.kind # "hold" => HoldsIn(k) = HoldsIn(l)
    /\ SettlesIn(k, e.hold_id) = SettlesIn(l, e.hold_id) \cup {n}
    /\ \A h : h # e.hold_id => SettlesIn(k, h) = SettlesIn(l, h)

LEMMA Appending ==
    ASSUME NEW l \in Seq(Entry), NEW e \in Entry, NEW k, k = Append(l, e)
    PROVE  OneMore(l, e, k, Len(l) + 1)
<1>0. PICK n : n = Len(l) + 1
  OBVIOUS
<1>1. k \in Seq(Entry) /\ Len(l) \in Nat /\ Len(k) = n /\ k[n] = e
  BY <1>0
<1>2. \A i \in 1..Len(l) : k[i] = l[i]
  OBVIOUS
<1>3. 1..Len(k) = (1..Len(l)) \cup {n} /\ n \notin 1..Len(l)
  BY <1>0, <1>1
<1>4. /\ e.kind = "hold" => HoldsIn(k) = HoldsIn(l) \cup {n}
      /\ e.kind # "hold" => HoldsIn(k) = HoldsIn(l)
  BY <1>1, <1>2, <1>3 DEF HoldsIn
<1>5. SettlesIn(k, e.hold_id) = SettlesIn(l, e.hold_id) \cup {n}
  BY <1>1, <1>2, <1>3 DEF SettlesIn
<1>6. ASSUME NEW h, h # e.hold_id PROVE SettlesIn(k, h) = SettlesIn(l, h)
  BY <1>1, <1>2, <1>3, <1>6 DEF SettlesIn
<1>7. OneMore(l, e, k, n)
  BY <1>0, <1>1, <1>2, <1>3, <1>4, <1>5, <1>6 DEF OneMore
<1> QED
  BY <1>0, <1>7

\* The entries there were move what they moved.
LEMMA OneMoreTotals ==
    ASSUME NEW l \in Seq(Entry), NEW e, NEW k, NEW n, OneMore(l, e, k, n), NEW S, S \subseteq 1..Len(l)
    PROVE  TotalOf(k, S) = TotalOf(l, S) /\ TotalOf(l, S) \in Int
<1>1. HasDeltas(l, S)
  BY LedgerDeltas
<1>2. \A x \in S : l[x].delta = k[x].delta
  BY DEF OneMore
<1>3. TotalOf(l, S) = TotalOf(k, S)
  BY <1>1, <1>2, TotalAgrees
<1> QED
  BY <1>1, <1>3, TotalIsTyped

\* A grant concerns no hold.
LEMMA GrantLeavesHolds ==
    ASSUME NEW l \in Seq(Entry), NEW e \in Entry, NEW k, k = Append(l, e), NEW held,
           e.kind = "grant", e.hold_id = 0, Shaped(l), Level(l, held)
    PROVE  Shaped(k) /\ Level(k, held)
<1>1. PICK n : n = Len(l) + 1
  OBVIOUS
<1>2. OneMore(l, e, k, n)
  BY <1>1, Appending
<1>3. HoldsIn(k) = HoldsIn(l)
  BY <1>2 DEF OneMore
<1>4. \A h \in HoldsIn(l) : SettlesIn(k, h) = SettlesIn(l, h)
  <2>1. \A h \in HoldsIn(l) : h # 0
    BY DEF HoldsIn
  <2> QED
    BY <1>2, <2>1 DEF OneMore
<1>5. Shaped(k)
  BY <1>2 DEF Shaped, OneMore
<1>6. OpenIn(k) = OpenIn(l) /\ (OnceIn(k) <=> OnceIn(l))
  BY <1>3, <1>4 DEF OpenIn, OnceIn
<1>7. OpenIn(l) \subseteq 1..Len(l)
  BY DEF OpenIn, HoldsIn
<1>8. TotalOf(l, OpenIn(l)) = TotalOf(k, OpenIn(l))
  BY <1>2, <1>7, OneMoreTotals
<1> QED
  BY <1>5, <1>6, <1>8 DEF Level

\* A hold is open when it is made.
LEMMA HoldIsHeld ==
    ASSUME NEW l \in Seq(Entry), NEW e \in Entry, NEW k, k = Append(l, e), NEW held \in Nat,
           NEW amount \in Nat, e.kind = "hold", e.hold_id = 0, e.delta = -amount,
           Shaped(l), Level(l, held)
    PROVE  Shaped(k) /\ Level(k, held + amount) /\ SettlesIn(k, Len(k)) = {}
<1>1. PICK n : n = Len(l) + 1
  OBVIOUS
<1>2. OneMore(l, e, k, n) /\ HoldsIn(k) = HoldsIn(l) \cup {n}
  <2>1. OneMore(l, e, k, n)
    BY <1>1, Appending
  <2> QED
    BY <2>1 DEF OneMore
<1>3. n # 0 /\ n \in Nat /\ k \in Seq(Entry) /\ Len(l) \in Nat
  BY <1>1, <1>2 DEF OneMore
<1>4. \A h \in HoldsIn(l) \cup {n} : SettlesIn(k, h) = SettlesIn(l, h)
  <2>1. \A h \in HoldsIn(l) \cup {n} : h # 0
    BY <1>3 DEF HoldsIn
  <2> QED
    BY <1>2, <2>1 DEF OneMore
<1>5. SettlesIn(l, n) = {}
  BY <1>1, <1>2, <1>3 DEF SettlesIn, Shaped
<1>6. Shaped(k)
  <2>1. -amount <= 0
    OBVIOUS
  <2> QED
    BY <1>2, <2>1 DEF Shaped, OneMore
<1>7. OpenIn(k) = OpenIn(l) \cup {n} /\ n \notin OpenIn(l)
  BY <1>2, <1>4, <1>5 DEF OpenIn, HoldsIn, OneMore
<1>8. OnceIn(k) => OnceIn(l)
  BY <1>2, <1>4 DEF OnceIn
<1>9. OpenIn(l) \subseteq 1..Len(l) /\ OpenIn(k) \subseteq 1..Len(k)
  BY DEF OpenIn, HoldsIn
<1>10. HasDeltas(l, OpenIn(l)) /\ HasDeltas(k, OpenIn(k))
  BY <1>3, <1>9, LedgerDeltas
<1>11. TotalOf(k, OpenIn(k)) = k[n].delta + TotalOf(k, OpenIn(k) \ {n})
  <2>1. AnyFirst(k, OpenIn(k))
    BY <1>10, TotalTakesAny
  <2> QED
    BY <1>7, <2>1 DEF AnyFirst
<1>12. OpenIn(k) \ {n} = OpenIn(l)
  BY <1>7
<1>13. TotalOf(l, OpenIn(l)) = TotalOf(k, OpenIn(l)) /\ TotalOf(l, OpenIn(l)) \in Int
  BY <1>2, <1>9, OneMoreTotals
<1>14. TotalOf(k, OpenIn(k)) = -amount + TotalOf(l, OpenIn(l))
  BY <1>2, <1>11, <1>12, <1>13 DEF OneMore
<1>15. Level(k, held + amount)
  BY <1>8, <1>13, <1>14 DEF Level
<1> QED
  BY <1>2, <1>4, <1>5, <1>6, <1>15 DEF OneMore

\* What settles a hold closes it; whoever settles it again is not counted.
LEMMA SettledIsReleased ==
    ASSUME NEW l \in Seq(Entry), NEW e \in Entry, NEW k, k = Append(l, e), NEW held \in Nat,
           NEW amount \in Nat, NEW h \in HoldsIn(l), l[h].delta = -amount,
           e.kind = "settle", e.hold_id = h, e.delta >= 0,
           Shaped(l), Level(l, held)
    PROVE  Shaped(k) /\ Level(k, IF held > amount THEN held - amount ELSE 0)
<1>1. PICK n : n = Len(l) + 1
  OBVIOUS
<1>2. OneMore(l, e, k, n)
  BY <1>1, Appending
<1>3. HoldsIn(k) = HoldsIn(l) /\ SettlesIn(k, h) = SettlesIn(l, h) \cup {n}
  BY <1>2 DEF OneMore
<1>4. h \in 1..Len(l) /\ h < n
  BY <1>1, <1>2 DEF HoldsIn, OneMore
<1>5. Shaped(k)
  BY <1>2, <1>4 DEF Shaped, OneMore
<1>6. SUFFICES ASSUME OnceIn(k)
               PROVE  (IF held > amount THEN held - amount ELSE 0) = -TotalOf(k, OpenIn(k))
  BY <1>5 DEF Level
<1>7. SettlesIn(l, h) = {}
  <2>1. \A i \in SettlesIn(l, h) : i \in SettlesIn(k, h) /\ i # n
    BY <1>2, <1>3 DEF SettlesIn, OneMore
  <2> QED
    BY <1>3, <1>6, <2>1 DEF OnceIn
<1>8. OnceIn(l) /\ h \in OpenIn(l)
  <2>1. \A j \in HoldsIn(l) : SettlesIn(l, j) \subseteq SettlesIn(k, j)
    BY <1>2, <1>3 DEF OneMore
  <2> QED
    BY <1>3, <1>6, <1>7, <2>1 DEF OnceIn, OpenIn
<1>9. OpenIn(k) = OpenIn(l) \ {h}
  <2>1. \A j \in HoldsIn(l) : j # h => SettlesIn(k, j) = SettlesIn(l, j)
    BY <1>2 DEF OneMore
  <2> QED
    BY <1>3, <2>1 DEF OpenIn
<1>10. OpenIn(l) \subseteq 1..Len(l) /\ OpenIn(k) \subseteq 1..Len(l)
  BY <1>9 DEF OpenIn, HoldsIn
<1>11. HasDeltas(l, OpenIn(l)) /\ HasDeltas(l, OpenIn(k))
  BY <1>10, LedgerDeltas
<1>12. TotalOf(l, OpenIn(l)) = -amount + TotalOf(l, OpenIn(k))
  BY <1>8, <1>9, <1>11, TotalTakesOne
<1>13. TotalOf(l, OpenIn(k)) = TotalOf(k, OpenIn(k)) /\ TotalOf(l, OpenIn(k)) \in Int
  BY <1>2, <1>10, OneMoreTotals
<1>14. TotalOf(l, OpenIn(k)) <= 0
  <2>1. \A x \in OpenIn(k) : l[x].delta <= 0
    BY <1>3 DEF OpenIn, HoldsIn, Shaped
  <2> QED
    BY <1>11, <2>1, TotalKeepsSign
<1>15. held = -TotalOf(l, OpenIn(l))
  BY <1>8 DEF Level
<1>16. \A t \in Int : t <= 0 /\ held = -(-amount + t) => (IF held > amount THEN held - amount ELSE 0) = -t
  OBVIOUS
<1> QED
  BY <1>12, <1>13, <1>14, <1>15, <1>16

-----------------------------------------------------------------------------
\* What c has drafted depends on c and on the account alone.
LEMMA DraftStays ==
    ASSUME NEW c \in Calls, Drafted(c), UNCHANGED <<books, draft>>,
           phase'[c] = phase[c], at'[c] = at[c],
           c \in Chats => holdId'[c] = holdId[c] /\ actual'[c] = actual[c]
    PROVE  Drafted(c)'
<1>1. HeldAfter(c)' = HeldAfter(c)
  BY DEF HeldAfter
<1>2. ASSUME NEW e \in Entry, Logs(c, e) PROVE Logs(c, e)'
  <2>1. CASE c \in Grants
    BY <1>2, <2>1 DEF Logs
  <2>2. CASE c \notin Grants
    <3>1. c \in Chats
      BY <2>2 DEF Calls
    <3>2. Refund(c)' = Refund(c)
      BY <3>1 DEF Refund, Charged
    <3> QED
      BY <1>2, <2>2, <3>1, <3>2 DEF Logs
  <2> QED
    BY <2>1, <2>2
<1> QED
  BY <1>1, <1>2 DEF Drafted

Kinds(c) ==
    /\ c \in Grants => phase[c] \notin {"ask", "hold", "settle", "release"}
    /\ c \in Chats => phase[c] # "grant"

\* A statement that writes.
LEMMA LockedWrite ==
    ASSUME CreditsTypeOK, LockInv, NEW c \in Calls, NEW new, NEW statement,
           phase[c] \in Transactions, Write(c, new), Ran(c, statement),
           UNCHANGED <<holdId, actual>>, Drafted(c)'
    PROVE  LockInv'
<1>1. lock' = c /\ phase' = phase /\ lock \in {Nobody, c}
  BY DEF Write, CanWrite, Ran
<1>2. \A d \in Calls : d # c => at'[d] = at[d]
  BY OthersStay
<1>3. Nobody \notin Calls
  BY CreditsAssumption
<1>4. lock' # Nobody
  BY <1>1, <1>3
<1>5. ASSUME NEW d \in Calls
      PROVE  /\ lock' = d => phase'[d] \in Transactions /\ Drafted(d)'
             /\ d \in Grants => phase'[d] \notin {"ask", "hold", "settle", "release"}
             /\ d \in Chats => phase'[d] # "grant"
             /\ phase'[d] \in {"hold", "settle", "release"} /\ at'[d] \in {"updated", "logged"} => lock' = d
             /\ phase'[d] = "grant" /\ at'[d] = "updated" => lock' = d
  <2>1. CASE d = c
    BY <1>1, <2>1 DEF LockInv
  <2>2. CASE d # c
    BY <1>1, <1>2, <1>3, <2>2 DEF LockInv
  <2> QED
    BY <2>1, <2>2
<1> QED
  BY <1>4, <1>5 DEF LockInv

\* A step of c that leaves the account, and what was drafted of it, alone.
LEMMA LockedQuiet ==
    ASSUME CreditsTypeOK, LockInv, NEW c \in Calls, ReadOnly,
           \A d \in Calls : d # c => /\ phase'[d] = phase[d]
                                     /\ at'[d] = at[d]
                                     /\ d \in Chats => holdId'[d] = holdId[d] /\ actual'[d] = actual[d],
           lock = c => phase'[c] \in Transactions /\ Drafted(c)',
           Kinds(c)',
           at'[c] = "updated" => phase'[c] \notin Transactions,
           at'[c] = "logged" => phase'[c] = "grant"
    PROVE  LockInv'
<1>1. books' = books /\ draft' = draft /\ lock' = lock
  BY DEF ReadOnly
<1>2. ASSUME NEW d \in Calls
      PROVE  /\ lock' = d => phase'[d] \in Transactions /\ Drafted(d)'
             /\ d \in Grants => phase'[d] \notin {"ask", "hold", "settle", "release"}
             /\ d \in Chats => phase'[d] # "grant"
             /\ phase'[d] \in {"hold", "settle", "release"} /\ at'[d] \in {"updated", "logged"} => lock' = d
             /\ phase'[d] = "grant" /\ at'[d] = "updated" => lock' = d
  <2>1. CASE d = c
    BY <1>1, <2>1 DEF Kinds, Transactions
  <2>2. CASE d # c
    <3>1. lock' = d => Drafted(d)'
      <4>1. lock' = d => Drafted(d)
        BY <1>1 DEF LockInv
      <4> QED
        BY <1>1, <2>2, <4>1, DraftStays
    <3> QED
      BY <1>1, <2>2, <3>1 DEF LockInv
  <2> QED
    BY <2>1, <2>2
<1> QED
  BY <1>1, <1>2 DEF LockInv

\* A transaction that ends.
LEMMA LockedEnd ==
    ASSUME CreditsTypeOK, LockInv, NEW c \in Calls, NEW next, CommitWrites(c) \/ Rollback(c),
           Enter(c, next), c \in Grants => next \notin {"ask", "hold", "settle", "release"},
           c \in Chats => next # "grant",
           \A d \in Chats : d # c => holdId'[d] = holdId[d], UNCHANGED actual
    PROVE  LockInv'
<1>1. /\ phase'[c] = next /\ at'[c] = "begin"
      /\ \A d \in Calls : d # c => phase'[d] = phase[d] /\ at'[d] = at[d]
  BY OthersStay
<1>2. CASE lock = c
  <2>1. lock' = Nobody /\ draft' = books'
    BY <1>2 DEF CommitWrites, Rollback
  <2>2. Nobody \notin Calls
    BY CreditsAssumption
  <2>3. ASSUME NEW d \in Calls
        PROVE  /\ d \in Grants => phase'[d] \notin {"ask", "hold", "settle", "release"}
               /\ d \in Chats => phase'[d] # "grant"
               /\ ~(phase'[d] \in {"hold", "settle", "release"} /\ at'[d] \in {"updated", "logged"})
               /\ ~(phase'[d] = "grant" /\ at'[d] = "updated")
    <3>1. CASE d = c
      BY <1>1, <3>1
    <3>2. CASE d # c
      BY <1>1, <1>2, <3>2 DEF LockInv
    <3> QED
      BY <3>1, <3>2
  <2> QED
    BY <2>1, <2>2, <2>3 DEF LockInv
<1>3. CASE lock # c
  <2>1. ReadOnly
    BY <1>3 DEF CommitWrites, Rollback
  <2>2. Kinds(c)'
    BY <1>1 DEF Kinds
  <2> QED
    BY <1>1, <1>3, <2>1, <2>2, LockedQuiet
<1> QED
  BY <1>2, <1>3

\* What c finds in the account before its transaction has written to it, and
\* once it has.
LEMMA ViewIsDrafted ==
    ASSUME CreditsTypeOK, LockInv, NEW c \in Calls, phase[c] \in Transactions
    PROVE  /\ at[c] \notin {"updated", "logged"} => View(c).ledger = books.ledger /\ View(c).held = books.held
           /\ at[c] = "updated" => View(c).ledger = books.ledger /\ View(c).held = HeldAfter(c)
<1>1. CASE lock = c
  BY <1>1 DEF LockInv, Drafted, View
<1>2. CASE lock # c
  <2>1. at[c] # "updated"
    BY <1>2 DEF LockInv, Transactions
  <2> QED
    BY <1>2, <2>1 DEF View
<1> QED
  BY <1>1, <1>2

\* INSERT of the entry that c's transaction logs.
LEMMA LoggedIsDrafted ==
    ASSUME CreditsTypeOK, LockInv, NEW c \in Calls, phase[c] \in Transactions, at[c] = "updated",
           NEW k \in {"grant", "hold", "settle"}, NEW n \in Int,
           NEW r \in References \cup {NoReference}, NEW h \in Nat,
           Write(c, Appended(View(c), k, n, r, h)), Ran(c, "logged"), UNCHANGED <<holdId, actual>>,
           \A e \in Entry : e.kind = k /\ e.delta = n /\ e.hold_id = h => Logs(c, e)
    PROVE  LockInv'
<1>1. View(c) \in Database
  BY ViewType
<1>2. PICK e \in Entry : e = [kind |-> k, delta |-> n, balance_after |-> View(c).balance, reference |-> r, hold_id |-> h]
  BY <1>1 DEF Entry, Database
<1>3. /\ Appended(View(c), k, n, r, h).ledger = Append(View(c).ledger, e)
      /\ Appended(View(c), k, n, r, h).held = View(c).held
  BY <1>1, <1>2 DEF Appended, Database
<1>4. Logs(c, e)
  BY <1>2
<1>5. phase'[c] = phase[c] /\ at'[c] = "logged"
  BY OthersStay
<1>6. draft' = Appended(View(c), k, n, r, h) /\ books' = books
  BY DEF Write
<1>7. View(c).ledger = books.ledger /\ View(c).held = HeldAfter(c)
  BY ViewIsDrafted
<1>8. draft'.ledger = Append(books'.ledger, e) /\ draft'.held = HeldAfter(c)
  BY <1>3, <1>6, <1>7
<1>9. HeldAfter(c)' = HeldAfter(c)
  BY <1>5, <1>6 DEF HeldAfter
<1>10. Logs(c, e)'
  <2>1. CASE c \in Grants
    BY <1>4, <2>1 DEF Logs
  <2>2. CASE c \notin Grants
    <3>1. c \in Chats
      BY <2>2 DEF Calls
    <3>2. Refund(c)' = Refund(c)
      BY <1>5, <3>1 DEF Refund, Charged
    <3> QED
      BY <1>4, <1>5, <2>2, <3>1, <3>2 DEF Logs
  <2> QED
    BY <2>1, <2>2
<1>11. \E one \in Entry : draft'.ledger = Append(books'.ledger, one) /\ Logs(c, one)'
  BY <1>2, <1>8, <1>10
<1>12. draft'.held = HeldAfter(c)'
  BY <1>8, <1>9
<1>13. Drafted(c)'
  BY <1>5, <1>11, <1>12 DEF Drafted
<1> QED
  BY <1>13, LockedWrite

LEMMA LockStep ==
    ASSUME CreditsTypeOK, LockInv, [CreditsNext]_creditVars
    PROVE  LockInv'
<1>0. CASE UNCHANGED creditVars
  <2>1. ASSUME NEW c \in Calls PROVE Drafted(c) => Drafted(c)'
    BY <1>0, DraftStays DEF creditVars
  <2> QED
    BY <1>0, <2>1 DEF creditVars, LockInv
<1> SUFFICES ASSUME NEW c \in Calls, Begin(c) \/ Progress(c) \/ Fault(c)
             PROVE  LockInv'
  BY <1>0 DEF CreditsNext
<1>v. View(c) \in Database
  BY ViewType
<1>k. Kinds(c)
  BY DEF LockInv, Kinds
<1>o. lock = c => phase[c] \in Transactions
  BY DEF LockInv
<1>x. \A d : ~(d \in Grants /\ d \in Chats)
  BY CreditsAssumption
<1>1. CASE Begin(c)
  <2>1. lock # c /\ ReadOnly
    BY <1>1, <1>o DEF Begin, Transactions
  <2>2. PICK next : Enter(c, next) /\ next = (IF c \in Grants THEN "grant" ELSE "hold")
    BY <1>1 DEF Begin
  <2>3. /\ phase'[c] = next /\ at'[c] = "begin"
        /\ \A d \in Calls : d # c => phase'[d] = phase[d] /\ at'[d] = at[d]
    BY <2>2, OthersStay
  <2>4. Kinds(c)'
    BY <1>x, <2>2, <2>3 DEF Kinds
  <2>5. UNCHANGED <<holdId, actual>>
    BY <1>1 DEF Begin
  <2> QED
    BY <2>1, <2>3, <2>4, <2>5, LockedQuiet
<1>2. CASE Ensure(c)
  <2>1. /\ phase[c] \in {"grant", "hold"} /\ phase[c] \in Transactions /\ at[c] = "begin"
        /\ Ran(c, "opened") /\ UNCHANGED <<holdId, actual>>
    BY <1>2 DEF Ensure, Transactions
  <2>2. /\ phase'[c] = phase[c] /\ at'[c] = "opened"
        /\ \A d \in Calls : d # c => phase'[d] = phase[d] /\ at'[d] = at[d]
    BY <2>1, OthersStay
  <2>3. CASE ReadOnly
    <3>1. lock = c => Drafted(c)'
      BY <2>1, <2>2, <2>3 DEF LockInv, Drafted, ReadOnly
    <3>2. Kinds(c)'
      BY <1>k, <2>2 DEF Kinds
    <3> QED
      BY <2>1, <2>2, <2>3, <3>1, <3>2, LockedQuiet
  <2>4. CASE Write(c, [View(c) EXCEPT !.open = TRUE])
    <3> DEFINE new == [View(c) EXCEPT !.open = TRUE]
    <3>1. new.held = View(c).held /\ new.ledger = View(c).ledger
      BY <1>v DEF Database
    <3> HIDE DEF new
    <3>2. draft' = new /\ books' = books
      BY <2>4 DEF Write, new
    <3>3. View(c).ledger = books.ledger /\ View(c).held = books.held
      BY <2>1, ViewIsDrafted
    <3>4. Drafted(c)'
      BY <2>2, <3>1, <3>2, <3>3 DEF Drafted
    <3> QED
      BY <2>1, <2>4, <3>4, LockedWrite
  <2> QED
    BY <1>2, <2>3, <2>4 DEF Ensure, EnsureAccount
<1>3. CASE c \in Grants /\ GrantStep(c)
  <2>1. CASE LookUp(c)
    <3>1. /\ phase[c] = "grant" /\ at[c] = "opened" /\ ReadOnly /\ UNCHANGED <<holdId, actual>>
          /\ Ran(c, "logged") \/ Ran(c, "checked")
      BY <2>1 DEF LookUp, InTx
    <3>2. /\ phase'[c] = phase[c] /\ at'[c] \in {"logged", "checked"}
          /\ \A d \in Calls : d # c => phase'[d] = phase[d] /\ at'[d] = at[d]
      BY <3>1, OthersStay
    <3>3. lock = c => Drafted(c)'
      BY <1>3, <3>1, <3>2 DEF LockInv, Drafted, ReadOnly, HeldAfter
    <3>4. Kinds(c)'
      BY <1>k, <3>2 DEF Kinds
    <3>5. phase'[c] \in Transactions
      BY <3>1, <3>2 DEF Transactions
    <3> QED
      BY <3>1, <3>2, <3>3, <3>4, <3>5, LockedQuiet
  <2>2. CASE AddBalance(c)
    <3> DEFINE new == [View(c) EXCEPT !.balance = @ + GrantAmount]
    <3>1. new.held = View(c).held /\ new.ledger = View(c).ledger
      BY <1>v DEF Database
    <3> HIDE DEF new
    <3>2. /\ phase[c] \in Transactions /\ at[c] = "checked" /\ Write(c, new) /\ Ran(c, "updated")
          /\ UNCHANGED <<holdId, actual>>
      BY <2>2 DEF AddBalance, InTx, Transactions, new
    <3>3. draft' = new /\ books' = books /\ phase'[c] = phase[c] /\ at'[c] = "updated"
      BY <3>2, OthersStay DEF Write
    <3>4. View(c).ledger = books.ledger /\ View(c).held = books.held
      BY <3>2, ViewIsDrafted
    <3>5. Drafted(c)'
      BY <1>3, <3>1, <3>3, <3>4 DEF Drafted, HeldAfter
    <3> QED
      BY <3>2, <3>5, LockedWrite
  <2>3. CASE LogGrant(c)
    <3>1. /\ phase[c] \in Transactions /\ at[c] = "updated" /\ Ran(c, "logged") /\ UNCHANGED <<holdId, actual>>
          /\ Write(c, Appended(View(c), "grant", GrantAmount, ReferenceOf[c], NoHold))
      BY <2>3 DEF LogGrant, InTx, Transactions
    <3>2. GrantAmount \in Int /\ ReferenceOf[c] \in References \cup {NoReference} /\ NoHold \in Nat /\ NoHold = 0
      BY <1>3, CreditsAssumption DEF NoHold
    <3>3. \A e \in Entry : e.kind = "grant" /\ e.delta = GrantAmount /\ e.hold_id = NoHold => Logs(c, e)
      BY <1>3, <3>2 DEF Logs
    <3> QED
      BY <3>1, <3>2, <3>3, LoggedIsDrafted
  <2> QED
    BY <1>3, <2>1, <2>2, <2>3 DEF GrantStep
<1>4. CASE c \in Chats /\ ChatStep(c)
  <2>0. /\ c \in Chats /\ c \notin Grants
        /\ Estimate[c] \in Nat /\ -Estimate[c] \in Int /\ Refund(c) \in Int
        /\ NoReference \in References \cup {NoReference}
        /\ NoHold \in Nat /\ NoHold = 0 /\ holdId[c] \in Nat
    BY <1>4, <1>x, RefundType DEF NoHold, CreditsTypeOK
  <2>1. CASE Claim(c)
    <3> DEFINE new == [View(c) EXCEPT !.balance = @ - Estimate[c], !.held = @ + Estimate[c]]
    <3>1. new.held = View(c).held + Estimate[c] /\ new.ledger = View(c).ledger
      BY <1>v DEF Database
    <3> HIDE DEF new
    <3>2. /\ phase[c] = "hold" /\ phase[c] \in Transactions /\ at[c] = "opened"
          /\ Write(c, new) /\ Ran(c, "updated") /\ UNCHANGED <<holdId, actual>>
      BY <2>1 DEF Claim, InTx, Transactions, new
    <3>3. draft' = new /\ books' = books /\ phase'[c] = phase[c] /\ at'[c] = "updated"
      BY <3>2, OthersStay DEF Write
    <3>4. View(c).ledger = books.ledger /\ View(c).held = books.held
      BY <3>2, ViewIsDrafted
    <3>5. Drafted(c)'
      BY <2>0, <3>1, <3>2, <3>3, <3>4 DEF Drafted, HeldAfter
    <3> QED
      BY <3>2, <3>5, LockedWrite
  <2>2. CASE Refuse(c)
    BY <2>0, <2>2, LockedEnd DEF Refuse
  <2>3. CASE LogHold(c)
    <3>1. /\ phase[c] = "hold" /\ phase[c] \in Transactions /\ at[c] = "updated"
          /\ Ran(c, "logged") /\ UNCHANGED <<holdId, actual>>
          /\ Write(c, Appended(View(c), "hold", -Estimate[c], NoReference, NoHold))
      BY <2>3 DEF LogHold, InTx, Transactions
    <3>2. PICK n \in Int, h \in Nat, r \in References \cup {NoReference} :
               n = -Estimate[c] /\ h = NoHold /\ r = NoReference
      BY <2>0
    <3>3. \A e \in Entry : e.kind = "hold" /\ e.delta = n /\ e.hold_id = h => Logs(c, e)
      BY <2>0, <3>1, <3>2 DEF Logs
    <3>4. Write(c, Appended(View(c), "hold", n, r, h))
      BY <3>1, <3>2
    <3> QED
      BY <3>1, <3>3, <3>4, LoggedIsDrafted
  <2>4. CASE Answer(c)
    <3>1. /\ phase[c] = "ask" /\ ReadOnly /\ Enter(c, "settle") /\ UNCHANGED holdId
          /\ \A d \in Chats : d # c => actual'[d] = actual[d]
      BY <2>4 DEF Answer, CreditsTypeOK
    <3>2. lock # c
      BY <1>o, <3>1 DEF Transactions
    <3>3. /\ phase'[c] = "settle" /\ at'[c] = "begin"
          /\ \A d \in Calls : d # c => phase'[d] = phase[d] /\ at'[d] = at[d]
      BY <3>1, OthersStay
    <3>4. Kinds(c)'
      BY <2>0, <3>3 DEF Kinds
    <3> QED
      BY <3>1, <3>2, <3>3, <3>4, LockedQuiet
  <2>5. CASE AskFails(c)
    <3>1. /\ phase[c] = "ask" /\ ReadOnly /\ Enter(c, "release") /\ UNCHANGED <<holdId, actual>>
      BY <2>5 DEF AskFails
    <3>2. lock # c
      BY <1>o, <3>1 DEF Transactions
    <3>3. /\ phase'[c] = "release" /\ at'[c] = "begin"
          /\ \A d \in Calls : d # c => phase'[d] = phase[d] /\ at'[d] = at[d]
      BY <3>1, OthersStay
    <3>4. Kinds(c)'
      BY <2>0, <3>3 DEF Kinds
    <3> QED
      BY <3>1, <3>2, <3>3, <3>4, LockedQuiet
  <2>6. CASE GiveBack(c)
    <3> DEFINE new == [View(c) EXCEPT !.balance = @ + Refund(c),
                                      !.held = IF @ > Estimate[c] THEN @ - Estimate[c] ELSE 0]
    <3>1. /\ new.held = IF View(c).held > Estimate[c] THEN View(c).held - Estimate[c] ELSE 0
          /\ new.ledger = View(c).ledger
      <4>1. ASSUME NEW s \in Database, NEW b, NEW h
            PROVE  /\ [s EXCEPT !.balance = b, !.held = h].held = h
                   /\ [s EXCEPT !.balance = b, !.held = h].ledger = s.ledger
        BY DEF Database
      <4> QED
        BY <1>v, <4>1
    <3> HIDE DEF new
    <3>2. /\ phase[c] \in {"settle", "release"} /\ phase[c] \in Transactions /\ at[c] = "begin"
          /\ Write(c, new) /\ Ran(c, "updated") /\ UNCHANGED <<holdId, actual>>
      BY <2>6 DEF GiveBack, Transactions, new
    <3>3. draft' = new /\ books' = books /\ phase'[c] = phase[c] /\ at'[c] = "updated"
      BY <3>2, OthersStay DEF Write
    <3>4. View(c).ledger = books.ledger /\ View(c).held = books.held
      BY <3>2, ViewIsDrafted
    <3>5. Drafted(c)'
      BY <2>0, <3>1, <3>2, <3>3, <3>4 DEF Drafted, HeldAfter
    <3> QED
      BY <3>2, <3>5, LockedWrite
  <2>7. CASE LogSettle(c)
    <3>1. /\ phase[c] \in {"settle", "release"} /\ phase[c] \in Transactions /\ at[c] = "updated"
          /\ Ran(c, "logged") /\ UNCHANGED <<holdId, actual>>
          /\ Write(c, Appended(View(c), "settle", Refund(c), NoReference, holdId[c]))
      BY <2>7 DEF LogSettle, Transactions
    <3>2. PICK k \in {"grant", "hold", "settle"}, n \in Int, r \in References \cup {NoReference}, h \in Nat :
               k = "settle" /\ n = Refund(c) /\ h = holdId[c] /\ r = NoReference
      BY <2>0
    <3>3. \A e \in Entry : e.kind = k /\ e.delta = n /\ e.hold_id = h => Logs(c, e)
      BY <2>0, <3>1, <3>2 DEF Logs
    <3>4. Write(c, Appended(View(c), k, n, r, h))
      BY <3>1, <3>2
    <3>5. phase[c] \in Transactions /\ at[c] = "updated" /\ Ran(c, "logged") /\ UNCHANGED <<holdId, actual>>
      BY <3>1
    <3> QED
      BY <3>3, <3>4, <3>5, LoggedIsDrafted
  <2> QED
    BY <1>4, <2>1, <2>2, <2>3, <2>4, <2>5, <2>6, <2>7 DEF ChatStep
<1>5. CASE CommitTransaction(c)
  <2>1. PICK next : next = OnReturn(phase[c])
    OBVIOUS
  <2>2. /\ c \in Grants => next \notin {"ask", "hold", "settle", "release"}
        /\ c \in Chats => next # "grant"
    BY <1>5, <1>k, <2>1 DEF CommitTransaction, OnReturn, Transactions, Kinds
  <2>3. /\ CommitWrites(c) /\ Enter(c, next) /\ UNCHANGED actual
        /\ \A d \in Chats : d # c => holdId'[d] = holdId[d]
    BY <1>5, <2>1 DEF CommitTransaction, CreditsTypeOK
  <2> QED
    BY <2>2, <2>3, LockedEnd
<1>6. CASE Fault(c)
  <2>1. PICK next : Enter(c, next) /\ next \in {"crashed", OnThrow(phase[c])}
    BY <1>6 DEF Fault, CommitUnheard, Throw, Crash
  <2>2. /\ c \in Grants => next \notin {"ask", "hold", "settle", "release"}
        /\ c \in Chats => next # "grant"
    BY <1>k, <2>1 DEF OnThrow, Kinds
  <2>3. (CommitWrites(c) \/ Rollback(c)) /\ UNCHANGED <<holdId, actual>>
    BY <1>6 DEF Fault, CommitUnheard, Throw, Crash
  <2> QED
    BY <2>1, <2>2, <2>3, LockedEnd
<1> QED
  BY <1>1, <1>2, <1>3, <1>4, <1>5, <1>6 DEF Progress

-----------------------------------------------------------------------------
\* c's hold stands where it stood if c has not settled it.
Follows(c) ==
    /\ phase'[c] \in {"idle", "hold"} => phase[c] \in {"idle", "hold"}
    /\ phase'[c] \in {"ask", "settle"} => phase[c] \in {"ask", "settle"}
    /\ phase'[c] = "release" => phase[c] \in {"ask", "settle", "release"}
    /\ phase'[c] = "done" => phase[c] = "done" /\ actual'[c] = actual[c]

LEMMA OwnsStays ==
    ASSUME NEW c \in Chats, Owns(c), books'.ledger = books.ledger, holdId'[c] = holdId[c], Follows(c)
    PROVE  Owns(c)'
<1>1. SettlesIn(books.ledger, holdId[c])' = SettlesIn(books.ledger, holdId[c]) /\ HoldsIn(books.ledger)' = HoldsIn(books.ledger)
  BY DEF SettlesIn, HoldsIn
<1>2. phase'[c] = "done" => Refund(c)' = Refund(c)
  BY DEF Follows, Refund, Charged
<1>3. /\ holdId'[c] # 0 => holdId'[c] \in HoldsIn(books.ledger)' /\ books'.ledger[holdId'[c]].delta = -Estimate[c]
      /\ phase'[c] \in {"idle", "hold"} => holdId'[c] = 0
      /\ phase'[c] \in {"ask", "settle", "release", "done"} => holdId'[c] # 0
      /\ phase'[c] \in {"ask", "settle"} => SettlesIn(books.ledger, holdId[c])' = {}
  BY <1>1 DEF Owns, Follows
<1>4. phase'[c] = "done" =>
          \E i \in 1..Len(books'.ledger) :
              SettlesIn(books.ledger, holdId[c])' = {i} /\ books'.ledger[i].delta = Refund(c)'
  BY <1>1, <1>2 DEF Owns, Follows
<1> QED
  BY <1>3, <1>4 DEF Owns

\* An entry about another hold, or about none.
LEMMA OwnsGrows ==
    ASSUME NEW c \in Chats, Owns(c), books.ledger \in Seq(Entry), holdId[c] \in Nat, NEW e \in Entry,
           books'.ledger = Append(books.ledger, e), holdId[c] = 0 \/ e.hold_id # holdId[c],
           holdId'[c] = holdId[c], Follows(c)
    PROVE  Owns(c)'
<1>1. PICK n : OneMore(books.ledger, e, books'.ledger, n)
  BY Appending
<1>2. CASE holdId[c] = 0
  BY <1>2 DEF Owns, Follows
<1>3. CASE holdId[c] # 0
  <2>0. PICK h : h = holdId[c] /\ h = holdId'[c]
    OBVIOUS
  <2>1. h \in HoldsIn(books.ledger) /\ books.ledger[h].delta = -Estimate[c] /\ e.hold_id # h /\ h # 0
    BY <1>3, <2>0 DEF Owns
  <2>2. HoldsIn(books.ledger) \subseteq HoldsIn(books'.ledger) /\ h \in 1..Len(books.ledger)
    BY <1>1, <2>1 DEF OneMore, HoldsIn
  <2>3. books'.ledger[h] = books.ledger[h] /\ SettlesIn(books'.ledger, h) = SettlesIn(books.ledger, h)
    BY <1>1, <2>1, <2>2 DEF OneMore
  <2>4. phase'[c] = "done" => Refund(c)' = Refund(c)
    BY DEF Follows, Refund, Charged
  <2>5. /\ h \in HoldsIn(books'.ledger) /\ books'.ledger[h].delta = -Estimate[c]
        /\ phase'[c] \notin {"idle", "hold"}
        /\ phase'[c] \in {"ask", "settle"} => SettlesIn(books'.ledger, h) = {}
    BY <1>3, <2>0, <2>1, <2>2, <2>3 DEF Owns, Follows
  <2>6. ASSUME phase'[c] = "done"
        PROVE  \E i \in 1..Len(books'.ledger) :
                   SettlesIn(books'.ledger, h) = {i} /\ books'.ledger[i].delta = Refund(c)'
    <3>1. PICK i \in 1..Len(books.ledger) : SettlesIn(books.ledger, h) = {i} /\ books.ledger[i].delta = Refund(c)
      BY <2>0, <2>6 DEF Owns, Follows
    <3>2. i \in 1..Len(books'.ledger) /\ books'.ledger[i] = books.ledger[i]
      BY <1>1, <3>1 DEF OneMore
    <3> QED
      BY <2>3, <2>4, <2>6, <3>1, <3>2
  <2>7. HoldsIn(books.ledger)' = HoldsIn(books'.ledger) /\ SettlesIn(books.ledger, holdId[c])' = SettlesIn(books'.ledger, h)
    BY <2>0 DEF HoldsIn, SettlesIn
  <2> QED
    BY <2>0, <2>1, <2>5, <2>6, <2>7 DEF Owns
<1> QED
  BY <1>2, <1>3

\* A step of c that commits nothing.
LEMMA HoldsQuiet ==
    ASSUME CreditsTypeOK, HoldsInv, NEW c \in Calls, books'.ledger = books.ledger, books'.held = books.held, holdId' = holdId,
           \A d \in Chats : d # c => phase'[d] = phase[d] /\ actual'[d] = actual[d],
           c \in Chats => Follows(c)
    PROVE  HoldsInv'
<1>1. Shaped(books.ledger)' /\ Level(books.ledger, books.held)'
  BY DEF HoldsInv, Shaped, Level, OnceIn, OpenIn, HoldsIn, SettlesIn
<1>2. ASSUME NEW d \in Chats PROVE Owns(d)'
  <2>1. Follows(d)
    BY DEF Follows
  <2> QED
    BY <2>1, OwnsStays DEF HoldsInv
<1> QED
  BY <1>1, <1>2 DEF HoldsInv

\* c commits one entry.
LEMMA HoldsGrow ==
    ASSUME CreditsTypeOK, HoldsInv, NEW c \in Calls, NEW e \in Entry, books'.ledger = Append(books.ledger, e),
           Shaped(books'.ledger), Level(books'.ledger, books'.held),
           \A d \in Chats : d # c => /\ phase'[d] = phase[d]
                                     /\ actual'[d] = actual[d]
                                     /\ holdId'[d] = holdId[d]
                                     /\ holdId[d] = 0 \/ e.hold_id # holdId[d],
           c \in Chats => Owns(c)' /\ holdId'[c] \in {holdId[c], Len(books'.ledger)}
    PROVE  HoldsInv'
<1>0. books.ledger \in Seq(Entry) /\ \A d \in Chats : holdId[d] \in Nat
  BY DEF CreditsTypeOK, Database
<1>1. PICK n : OneMore(books.ledger, e, books'.ledger, n)
  BY <1>0, Appending
<1>2. ASSUME NEW d \in Chats PROVE Owns(d)'
  <2>1. CASE d = c
    BY <2>1
  <2>2. CASE d # c
    <3>1. Follows(d)
      BY <2>2 DEF Follows
    <3>2. Owns(d)
      BY DEF HoldsInv
    <3>3. holdId'[d] = holdId[d] /\ (holdId[d] = 0 \/ e.hold_id # holdId[d]) /\ holdId[d] \in Nat
      BY <1>0, <2>2
    <3> QED
      BY <1>0, <3>1, <3>2, <3>3, OwnsGrows
  <2> QED
    BY <2>1, <2>2
<1>3. ASSUME NEW d \in Chats, NEW f \in Chats, d # f, holdId'[d] # 0 PROVE holdId'[d] # holdId'[f]
  <2>1. Len(books'.ledger) = n /\ n \notin 1..Len(books.ledger)
    BY <1>1 DEF OneMore
  <2>2. \A g \in Chats : holdId[g] # 0 => holdId[g] \in 1..Len(books.ledger)
    BY DEF HoldsInv, Owns, HoldsIn
  <2>3. \A g \in Chats : g # c => holdId'[g] = holdId[g] /\ holdId'[g] # n
    <3>1. n # 0
      BY <1>0, <1>1 DEF OneMore
    <3> QED
      BY <2>1, <2>2, <3>1
  <2>4. \A g, k \in Chats : g # k /\ holdId[g] # 0 => holdId[g] # holdId[k]
    BY DEF HoldsInv
  <2>5. CASE holdId'[d] = holdId[d] /\ holdId'[f] = holdId[f]
    BY <1>3, <2>4, <2>5
  <2>6. CASE d = c /\ holdId'[d] = n
    BY <1>3, <2>3, <2>6
  <2>7. CASE f = c /\ holdId'[f] = n
    BY <1>3, <2>3, <2>7
  <2> QED
    BY <2>1, <2>3, <2>5, <2>6, <2>7
<1>4. Shaped(books.ledger)' /\ Level(books.ledger, books.held)'
  BY DEF Shaped, Level, OnceIn, OpenIn, HoldsIn, SettlesIn
<1> QED
  BY <1>2, <1>3, <1>4 DEF HoldsInv

\* What c has drafted when it is about to commit.
LEMMA CommitHolds ==
    ASSUME CreditsTypeOK, LockInv, HoldsInv, NEW c \in Calls, NEW next, lock = c, at[c] = "logged",
           CommitWrites(c), Enter(c, next), UNCHANGED actual,
           \/ holdId' = holdId /\ next = OnThrow(phase[c])
           \/ /\ next = OnReturn(phase[c])
              /\ holdId' = IF phase[c] = "hold" THEN [holdId EXCEPT ![c] = Len(draft.ledger)] ELSE holdId
    PROVE  HoldsInv'
<1>0. /\ phase'[c] = next
      /\ \A d \in Calls : d # c => phase'[d] = phase[d]
      /\ \A d \in Chats : d # c => phase'[d] = phase[d]
  BY OthersStay DEF Calls
<1>1. /\ books' = draft /\ books.ledger \in Seq(Entry) /\ books.held \in Nat
      /\ phase[c] \in Transactions /\ Drafted(c) /\ Kinds(c)
      /\ Shaped(books.ledger) /\ Level(books.ledger, books.held)
      /\ \A d \in Chats : Owns(d)
      /\ \A d \in Chats : d # c => holdId'[d] = holdId[d] /\ actual'[d] = actual[d]
      /\ \A d \in Chats : holdId[d] = 0 \/ holdId[d] # 0
  BY DEF CommitWrites, LockInv, HoldsInv, CreditsTypeOK, Database, Kinds
<1>2. CASE c \in Grants
  <2>1. c \notin Chats /\ phase[c] = "grant" /\ holdId' = holdId
    BY <1>1, <1>2, CreditsAssumption DEF Kinds, Transactions
  <2>2. books'.held = books.held
    BY <1>1, <1>2 DEF Drafted, HeldAfter
  <2>3. CASE books'.ledger = books.ledger
    BY <1>0, <1>1, <2>1, <2>2, <2>3, HoldsQuiet
  <2>4. CASE \E e \in Entry : books'.ledger = Append(books.ledger, e) /\ Logs(c, e)
    <3>1. PICK e \in Entry : books'.ledger = Append(books.ledger, e) /\ Logs(c, e)
      BY <2>4
    <3>2. e.kind = "grant" /\ e.hold_id = 0
      BY <1>2, <3>1 DEF Logs
    <3>3. Shaped(books'.ledger) /\ Level(books'.ledger, books'.held)
      BY <1>1, <2>2, <3>1, <3>2, GrantLeavesHolds
    <3>4. \A d \in Chats : d # c => /\ phase'[d] = phase[d]
                                    /\ actual'[d] = actual[d]
                                    /\ holdId'[d] = holdId[d]
                                    /\ holdId[d] = 0 \/ e.hold_id # holdId[d]
      BY <1>0, <1>1, <3>2
    <3> QED
      BY <2>1, <3>1, <3>3, <3>4, HoldsGrow
  <2> QED
    BY <1>1, <1>2, <2>3, <2>4 DEF Drafted
<1>3. CASE c \notin Grants
  <2>1. c \in Chats /\ phase[c] # "grant"
    BY <1>1, <1>3 DEF Calls, Kinds
  <2>2. PICK e \in Entry : books'.ledger = Append(books.ledger, e) /\ Logs(c, e)
    BY <1>1, <1>3 DEF Drafted
  <2>3. Estimate[c] \in Nat /\ Refund(c) \in Nat
    BY <2>1, RefundType
  <2>4. books'.held = HeldAfter(c)
    BY <1>1 DEF Drafted
  <2>5. \A d \in Chats : d # c /\ holdId[d] # 0 => holdId[d] # holdId[c]
    BY <2>1 DEF HoldsInv
  <2>6. PICK n : n = Len(books.ledger) + 1 /\ OneMore(books.ledger, e, books'.ledger, n)
    BY <1>1, <2>2, Appending
  <2>7. Len(books'.ledger) = n /\ n # 0 /\ n \in 1..Len(books'.ledger) /\ books'.ledger[n] = e
    BY <2>6 DEF OneMore
  <2>8. CASE phase[c] = "hold"
    <3>1. e.kind = "hold" /\ e.delta = -Estimate[c] /\ e.hold_id = 0 /\ books'.held = books.held + Estimate[c]
      BY <1>3, <2>2, <2>4, <2>8 DEF Logs, HeldAfter
    <3>2. /\ Shaped(books'.ledger) /\ Level(books'.ledger, books'.held)
          /\ SettlesIn(books'.ledger, Len(books'.ledger)) = {}
      <4>0. PICK k : k = books'.ledger
        OBVIOUS
      <4>1. PICK l \in Seq(Entry), held \in Nat, amount \in Nat :
                 l = books.ledger /\ held = books.held /\ amount = Estimate[c]
        BY <1>1, <2>3
      <4>2. /\ k = Append(l, e) /\ e.delta = -amount /\ e.kind = "hold" /\ e.hold_id = 0
            /\ Shaped(l) /\ Level(l, held)
        BY <1>1, <2>2, <3>1, <4>0, <4>1
      <4>3. Shaped(k) /\ Level(k, held + amount) /\ SettlesIn(k, Len(k)) = {}
        BY <4>2, HoldIsHeld
      <4> QED
        BY <3>1, <4>0, <4>1, <4>3
    <3>3. \A d \in Chats : d # c => /\ phase'[d] = phase[d]
                                    /\ actual'[d] = actual[d]
                                    /\ holdId'[d] = holdId[d]
                                    /\ holdId[d] = 0 \/ e.hold_id # holdId[d]
      BY <1>0, <1>1, <3>1
    <3>4. CASE next = "failed" /\ holdId' = holdId
      <4>1. holdId[c] = 0
        BY <1>1, <2>1, <2>8 DEF Owns
      <4>2. Owns(c)'
        BY <1>0, <3>4, <4>1 DEF Owns
      <4> QED
        BY <2>2, <3>2, <3>3, <3>4, <4>2, HoldsGrow
    <3>5. CASE next = "ask" /\ holdId'[c] = n
      <4>1. n \in HoldsIn(books'.ledger) /\ books'.ledger[n].delta = -Estimate[c]
        BY <2>7, <3>1 DEF HoldsIn
      <4>2. HoldsIn(books.ledger)' = HoldsIn(books'.ledger) /\ SettlesIn(books.ledger, holdId[c])' = SettlesIn(books'.ledger, n)
        BY <3>5 DEF HoldsIn, SettlesIn
      <4>3. Owns(c)'
        BY <1>0, <2>7, <3>2, <3>5, <4>1, <4>2 DEF Owns
      <4> QED
        BY <2>2, <2>7, <3>2, <3>3, <3>5, <4>3, HoldsGrow
    <3>6. OnThrow(phase[c]) = "failed" /\ OnReturn(phase[c]) = "ask" /\ holdId \in [Chats -> Nat]
      BY <2>8 DEF OnThrow, OnReturn, CreditsTypeOK
    <3> QED
      BY <1>1, <2>1, <2>7, <2>8, <3>4, <3>5, <3>6
  <2>9. CASE phase[c] \in {"settle", "release"}
    <3>0. PICK h : h = holdId[c]
      OBVIOUS
    <3>1. /\ h # 0 /\ h \in HoldsIn(books.ledger) /\ books.ledger[h].delta = -Estimate[c] /\ holdId' = holdId
          /\ phase[c] = "settle" => SettlesIn(books.ledger, h) = {}
      BY <1>1, <2>1, <2>9, <3>0 DEF Owns
    <3>2. /\ e.kind = "settle" /\ e.delta = Refund(c) /\ e.hold_id = h
          /\ books'.held = IF books.held > Estimate[c] THEN books.held - Estimate[c] ELSE 0
      BY <1>3, <2>2, <2>4, <2>9, <3>0 DEF Logs, HeldAfter
    <3>3. Shaped(books'.ledger) /\ Level(books'.ledger, books'.held)
      <4>1. e.delta >= 0
        BY <2>3, <3>2
      <4> QED
        <5>0. PICK k : k = books'.ledger
          OBVIOUS
        <5>1. PICK l \in Seq(Entry), held \in Nat, amount \in Nat :
                   l = books.ledger /\ held = books.held /\ amount = Estimate[c]
          BY <1>1, <2>3
        <5>2. /\ k = Append(l, e) /\ h \in HoldsIn(l) /\ l[h].delta = -amount
              /\ e.kind = "settle" /\ e.hold_id = h /\ Shaped(l) /\ Level(l, held)
          BY <1>1, <2>2, <3>1, <3>2, <5>0, <5>1
        <5>3. Shaped(k) /\ Level(k, IF held > amount THEN held - amount ELSE 0)
          BY <4>1, <5>2, SettledIsReleased
        <5> QED
          BY <3>2, <5>0, <5>1, <5>3
    <3>4. \A d \in Chats : d # c => /\ phase'[d] = phase[d]
                                    /\ actual'[d] = actual[d]
                                    /\ holdId'[d] = holdId[d]
                                    /\ holdId[d] = 0 \/ e.hold_id # holdId[d]
      BY <1>0, <1>1, <2>5, <3>0, <3>2
    <3>5. /\ HoldsIn(books.ledger)' = HoldsIn(books'.ledger)
          /\ SettlesIn(books.ledger, holdId[c])' = SettlesIn(books'.ledger, h)
          /\ h \in HoldsIn(books'.ledger) /\ books'.ledger[h] = books.ledger[h]
          /\ SettlesIn(books'.ledger, h) = SettlesIn(books.ledger, h) \cup {n}
      <4>1. holdId'[c] = h
        BY <3>0, <3>1
      <4>2. SettlesIn(books.ledger, holdId[c])' = SettlesIn(books'.ledger, h) /\ HoldsIn(books.ledger)' = HoldsIn(books'.ledger)
        BY <4>1 DEF SettlesIn, HoldsIn
      <4> QED
        BY <2>6, <3>1, <3>2, <4>2 DEF OneMore, HoldsIn
    <3>6. phase[c] = "settle" => SettlesIn(books'.ledger, h) = {n} /\ books'.ledger[n].delta = Refund(c)
      BY <2>7, <3>1, <3>2, <3>5
    <3>7. phase'[c] = "done" => phase[c] = "settle" /\ Refund(c)' = Refund(c)
      <4>1. phase'[c] = "done" => phase[c] = "settle"
        BY <1>0, <2>9 DEF OnThrow, OnReturn
      <4> QED
        BY <4>1 DEF Refund, Charged
    <3>8. phase'[c] \in {"done", "release", "failed"}
      BY <1>0, <2>9 DEF OnThrow, OnReturn
    <3>9. Owns(c)'
      BY <2>7, <3>0, <3>1, <3>5, <3>6, <3>7, <3>8 DEF Owns
    <3> QED
      BY <2>2, <3>1, <3>3, <3>4, <3>9, HoldsGrow
  <2> QED
    BY <1>1, <2>1, <2>8, <2>9 DEF Transactions
<1> QED
  BY <1>2, <1>3

LEMMA HoldsStep ==
    ASSUME CreditsTypeOK, LockInv, HoldsInv, [CreditsNext]_creditVars
    PROVE  HoldsInv'
<1>0. CASE UNCHANGED creditVars
  <2>1. Shaped(books.ledger)' /\ Level(books.ledger, books.held)'
    BY <1>0 DEF creditVars, HoldsInv, Shaped, Level, OnceIn, OpenIn, HoldsIn, SettlesIn
  <2>2. ASSUME NEW d \in Chats PROVE Owns(d)'
    BY <1>0, OwnsStays DEF creditVars, HoldsInv, Follows
  <2> QED
    BY <1>0, <2>1, <2>2 DEF creditVars, HoldsInv
<1> SUFFICES ASSUME NEW c \in Calls, Begin(c) \/ Progress(c) \/ Fault(c)
             PROVE  HoldsInv'
  BY <1>0 DEF CreditsNext
<1>x. c \in Chats => c \notin Grants
  BY CreditsAssumption
<1>d. \A d \in Chats : d # c => d \in Calls
  BY DEF Calls
<1>k. Kinds(c)
  BY DEF LockInv, Kinds
<1>1. CASE Begin(c)
  BY <1>1, <1>d, <1>x, OthersStay, HoldsQuiet DEF Begin, ReadOnly, Follows
<1>2. CASE \E statement : Ran(c, statement) /\ books' = books /\ UNCHANGED <<holdId, actual>>
  BY <1>2, HoldsQuiet DEF Ran, Follows
<1>3. CASE Ensure(c) \/ (c \in Grants /\ GrantStep(c)) \/ Claim(c) \/ LogHold(c) \/ GiveBack(c) \/ LogSettle(c)
  <2>1. \E statement : Ran(c, statement) /\ books' = books /\ UNCHANGED <<holdId, actual>>
    BY <1>3 DEF Ensure, EnsureAccount, GrantStep, LookUp, AddBalance, LogGrant, Claim, LogHold,
                GiveBack, LogSettle, Write, ReadOnly
  <2> QED
    BY <1>2, <2>1
<1>4. CASE c \in Chats /\ (Answer(c) \/ AskFails(c))
  <2>1. PICK next \in {"settle", "release"} : Enter(c, next)
    BY <1>4 DEF Answer, AskFails
  <2>2. phase[c] = "ask" /\ ReadOnly /\ holdId' = holdId /\ \A d \in Chats : d # c => actual'[d] = actual[d]
    BY <1>4 DEF Answer, AskFails, CreditsTypeOK
  <2>3. phase'[c] = next /\ \A d \in Chats : d # c => phase'[d] = phase[d]
    BY <1>d, <2>1, OthersStay
  <2>4. Follows(c)
    BY <2>1, <2>2, <2>3 DEF Follows
  <2> QED
    BY <2>2, <2>3, <2>4, HoldsQuiet DEF ReadOnly
<1>5. CASE (c \in Chats /\ Refuse(c)) \/ Throw(c) \/ Crash(c)
  <2>1. PICK next \in {"refused", "crashed", OnThrow(phase[c])} : Enter(c, next)
    BY <1>5 DEF Refuse, Throw, Crash
  <2>2. Rollback(c) /\ UNCHANGED <<holdId, actual>>
    BY <1>5 DEF Refuse, Throw, Crash
  <2>3. phase'[c] = next /\ \A d \in Chats : d # c => phase'[d] = phase[d]
    BY <1>d, <2>1, OthersStay
  <2>4. Follows(c)
    BY <2>1, <2>3 DEF Follows, OnThrow
  <2>5. books' = books
    BY <2>2 DEF Rollback, ReadOnly
  <2> QED
    BY <2>2, <2>3, <2>4, <2>5, HoldsQuiet
<1>6. CASE CommitTransaction(c) \/ CommitUnheard(c)
  <2>0. PICK next : Enter(c, next) /\ (\/ holdId' = holdId /\ next = OnThrow(phase[c])
           \/ /\ next = OnReturn(phase[c])
              /\ holdId' = IF phase[c] = "hold" THEN [holdId EXCEPT ![c] = Len(View(c).ledger)] ELSE holdId)
    BY <1>6 DEF CommitTransaction, CommitUnheard
  <2>1. /\ phase[c] \in Transactions /\ at[c] = "logged" /\ CommitWrites(c) /\ UNCHANGED actual
    BY <1>6 DEF CommitTransaction, CommitUnheard
  <2>2. CASE lock = c
    BY <2>0, <2>1, <2>2, CommitHolds DEF View
  <2>3. CASE lock # c
    <3>1. c \in Grants /\ phase[c] = "grant"
      BY <2>1, <2>3, <1>k DEF LockInv, Transactions, Kinds, Calls
    <3>2. c \notin Chats /\ holdId' = holdId /\ books' = books
      BY <1>x, <2>0, <2>1, <2>3, <3>1 DEF CommitWrites, ReadOnly
    <3>3. \A d \in Chats : d # c => phase'[d] = phase[d] /\ actual'[d] = actual[d]
      BY <1>d, <2>0, <2>1, OthersStay
    <3> QED
      BY <3>2, <3>3, HoldsQuiet
  <2> QED
    BY <2>2, <2>3
<1> QED
  BY <1>1, <1>3, <1>4, <1>5, <1>6 DEF Progress, Fault, ChatStep

LEMMA HoldsInit ==
    ASSUME CreditsInit
    PROVE  LockInv /\ HoldsInv
<1>1. books.ledger = <<>> /\ books.held = 0 /\ draft = books /\ lock = Nobody /\ Len(books.ledger) = 0 /\ 1..Len(books.ledger) = {}
  BY DEF CreditsInit
<1>2. LockInv
  BY <1>1, CreditsAssumption DEF CreditsInit, LockInv
<1>3. Shaped(books.ledger)
  BY <1>1 DEF Shaped
<1>4. OpenIn(books.ledger) = {}
  BY <1>1 DEF OpenIn, HoldsIn
<1>5. TotalOf(books.ledger, OpenIn(books.ledger)) = 0
  BY <1>4, TotalOfNothing
<1>6. Level(books.ledger, books.held)
  BY <1>1, <1>5 DEF Level
<1>7. ASSUME NEW c \in Chats PROVE holdId[c] = 0 /\ Owns(c)
  <2>1. holdId[c] = 0 /\ phase[c] = "idle"
    BY DEF CreditsInit, NoHold, Calls
  <2> QED
    BY <2>1 DEF Owns
<1> QED
  BY <1>2, <1>3, <1>6, <1>7 DEF HoldsInv

\* What a hold cost: what it took, less what settling it gave back.
LEMMA HoldCost ==
    ASSUME CreditsTypeOK, Shaped(books.ledger), NEW h \in HoldIds
    PROVE  \E back \in Nat :
               /\ Cost(h) = -books.ledger[h].delta - back
               /\ \A i \in Settles(h) : books.ledger[i].delta <= back
               /\ \A i : Settles(h) = {i} => back = books.ledger[i].delta
<1>0. PICK l \in Seq(Entry) : l = books.ledger
  BY DEF CreditsTypeOK, Database
<1>1. PICK S : S \subseteq 1..Len(l) /\ l = books.ledger /\ S = Settles(h)
  BY <1>0 DEF Settles
<1>2. h \in 1..Len(l) /\ h \notin S /\ \A i \in S : l[i].delta >= 0
  <2>1. h \in 1..Len(l) /\ l[h].kind = "hold" /\ h # 0
    BY <1>1 DEF HoldIds
  <2>2. \A i \in S : i \in 1..Len(l) /\ l[i].hold_id = h
    BY <1>1 DEF Settles
  <2> QED
    BY <1>1, <2>1, <2>2 DEF Shaped
<1>3. /\ HasDeltas(l, {h} \cup S) /\ HasDeltas(l, S) /\ l[h].delta \in Int
      /\ \A i \in S : HasDeltas(l, S \ {i}) /\ l[i].delta \in Int
  <2>1. {h} \cup S \subseteq 1..Len(l) /\ \A i \in S : S \ {i} \subseteq 1..Len(l)
    BY <1>1, <1>2
  <2>2. HasDeltas(l, {h} \cup S) /\ HasDeltas(l, S) /\ \A i \in S : HasDeltas(l, S \ {i})
    BY <2>1, LedgerDeltas
  <2> QED
    BY <2>2 DEF HasDeltas
<1>4. TotalOf(l, {h} \cup S) = l[h].delta + TotalOf(l, S)
  <2>1. ({h} \cup S) \ {h} = S
    BY <1>2
  <2>2. \A x \in {h} \cup S : TotalOf(l, {h} \cup S) = l[x].delta + TotalOf(l, ({h} \cup S) \ {x})
    BY <1>3, TotalTakesOne
  <2> QED
    BY <2>1, <2>2
<1>5. TotalOf(l, S) \in Nat
  BY <1>2, <1>3, TotalKeepsSign, TotalIsTyped
<1>6. ASSUME NEW i \in S
      PROVE  l[i].delta <= TotalOf(l, S) /\ (S = {i} => TotalOf(l, S) = l[i].delta)
  <2>1. TotalOf(l, S) = l[i].delta + TotalOf(l, S \ {i})
    BY <1>3, TotalTakesOne
  <2>2. TotalOf(l, S \ {i}) >= 0 /\ TotalOf(l, S \ {i}) \in Int
    <3>1. HasDeltas(l, S \ {i}) /\ \A j \in S \ {i} : l[j].delta >= 0
      BY <1>2, <1>3
    <3> QED
      BY <3>1, TotalKeepsSign, TotalIsTyped
  <2>3. S = {i} => TotalOf(l, S \ {i}) = 0
    BY TotalOfNothing
  <2>4. \A whole, rest, d \in Int :
             whole = d + rest /\ rest >= 0 => d <= whole /\ (rest = 0 => whole = d)
    OBVIOUS
  <2>5. TotalOf(l, S) \in Int /\ TotalOf(l, S \ {i}) \in Int /\ l[i].delta \in Int
    <3>1. l[i].delta \in Int
      BY <1>3
    <3>2. TotalOf(l, S) \in Int
      BY <1>5
    <3> QED
      BY <2>2, <3>1, <3>2
  <2>6. l[i].delta <= TotalOf(l, S) /\ (TotalOf(l, S \ {i}) = 0 => TotalOf(l, S) = l[i].delta)
    BY <2>1, <2>2, <2>4, <2>5
  <2> QED
    BY <2>3, <2>6
<1>7. Cost(h) = -TotalOf(l, {h} \cup S)
  BY <1>1 DEF Cost
<1>8. Cost(h) = -l[h].delta - TotalOf(l, S)
  BY <1>3, <1>4, <1>5, <1>7
<1> QED
  BY <1>1, <1>5, <1>6, <1>8

LEMMA HoldsHonoured ==
    ASSUME CreditsTypeOK, HoldsInv
    PROVE  HoldsAreHonoured
<1>0. /\ books.ledger \in Seq(Entry) /\ Shaped(books.ledger) /\ Level(books.ledger, books.held)
      /\ HoldIds = HoldsIn(books.ledger) /\ \A h : Settles(h) = SettlesIn(books.ledger, h)
  BY DEF CreditsTypeOK, Database, HoldsInv, HoldIds, HoldsIn, Settles, SettlesIn
<1>1. ASSUME NEW c \in Chats, phase[c] = "done"
      PROVE  Cost(holdId[c]) = IF actual[c] > Estimate[c] THEN Estimate[c] ELSE actual[c]
  <2>1. PICK h : h = holdId[c]
    OBVIOUS
  <2>2. h \in HoldIds /\ books.ledger[h].delta = -Estimate[c]
    BY <1>0, <1>1, <2>1 DEF HoldsInv, Owns
  <2>3. PICK i : Settles(h) = {i} /\ books.ledger[i].delta = Refund(c)
    BY <1>0, <1>1, <2>1 DEF HoldsInv, Owns
  <2>4. Cost(h) = -(-Estimate[c]) - Refund(c)
    BY <1>0, <2>2, <2>3, HoldCost
  <2>5. Estimate[c] \in Nat /\ Charged(c) \in Nat /\ Refund(c) = Estimate[c] - Charged(c)
    BY RefundType DEF Refund
  <2>6. Cost(h) = Charged(c)
    BY <2>4, <2>5
  <2> QED
    BY <1>1, <2>1, <2>6 DEF Charged
<1>2. ASSUME NEW h \in HoldIds
      PROVE  /\ Cost(h) <= -books.ledger[h].delta
             /\ (\E i \in Settles(h) : books.ledger[i].delta = -books.ledger[h].delta) => Cost(h) <= 0
  <2>1. PICK back \in Nat : /\ Cost(h) = -books.ledger[h].delta - back
                            /\ \A i \in Settles(h) : books.ledger[i].delta <= back
    BY <1>0, HoldCost
  <2>2. books.ledger[h].delta \in Int
    <3>1. h \in 1..Len(books.ledger)
      BY <1>0 DEF HoldsIn
    <3>2. books.ledger[h] \in Entry
      BY <1>0, <3>1
    <3> QED
      BY <3>2 DEF Entry
  <2> QED
    BY <2>1, <2>2
<1>3. HeldIsOpenHolds
  <2>1. SUFFICES ASSUME \A h \in HoldIds : Cardinality(Settles(h)) <= 1
                 PROVE  books.held = -TotalOf(books.ledger, {h \in HoldIds : Settles(h) = {}})
    BY DEF HeldIsOpenHolds
  <2>2. ASSUME NEW h \in HoldIds, NEW i \in Settles(h), NEW j \in Settles(h) PROVE i = j
    <3>0. Len(books.ledger) \in Int /\ 1 \in Int
      BY <1>0
    <3>1. Settles(h) \subseteq 1..Len(books.ledger) /\ IsFiniteSet(1..Len(books.ledger))
      BY <3>0, FS_Interval DEF Settles
    <3>2. IsFiniteSet(Settles(h))
      BY <3>1, FS_Subset
    <3>3. Cardinality({i, j}) <= Cardinality(Settles(h))
      <4>1. {i, j} \subseteq Settles(h)
        OBVIOUS
      <4> QED
        BY <3>2, <4>1, FS_Subset
    <3>4. i # j => Cardinality({i, j}) = 2
      <4>1. Cardinality({i}) = 1 /\ IsFiniteSet({i})
        BY FS_Singleton
      <4>2. {i, j} = {i} \cup {j}
        OBVIOUS
      <4>3. i # j => Cardinality({i} \cup {j}) = Cardinality({i}) + 1
        BY <4>1, FS_AddElement
      <4> QED
        BY <4>1, <4>2, <4>3
    <3>5. Cardinality(Settles(h)) \in Nat
      BY <3>2, FS_CardinalityType
    <3> QED
      BY <2>1, <3>3, <3>4, <3>5
  <2>3. OnceIn(books.ledger)
    BY <1>0, <2>2 DEF OnceIn
  <2>4. OpenIn(books.ledger) = {h \in HoldIds : Settles(h) = {}}
    BY <1>0 DEF OpenIn
  <2> QED
    BY <1>0, <2>3, <2>4 DEF Level
<1> QED
  BY <1>1, <1>2, <1>3 DEF HoldsAreHonoured, FairlyCharged

\* Whatever runs together, fails, crashes or is released after a settlement the
\* caller did not hear of: whoever was answered paid what settle() charged, no
\* hold costs more than itself, and `held` is what is still provisional.
THEOREM HoldsStayHonoured == CreditsSpec => []HoldsAreHonoured
<1>1. CreditsInit => LockInv /\ HoldsInv
  BY HoldsInit
<1>2. CreditsTypeOK /\ (LockInv /\ HoldsInv) /\ [CreditsNext]_creditVars => (LockInv /\ HoldsInv)'
  BY LockStep, HoldsStep
<1>3. CreditsTypeOK /\ (LockInv /\ HoldsInv) => HoldsAreHonoured
  BY HoldsHonoured
<1> QED
  BY <1>1, <1>2, <1>3, TypeCorrect, PTL DEF CreditsSpec
=============================================================================
