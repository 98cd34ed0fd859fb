----------------------------- MODULE MCAccounts -----------------------------
(***************************************************************************)
(* TLC instances of an account: who does what at the same time.            *)
(***************************************************************************)
EXTENDS AccountsHistory

CONSTANTS r1, r2, r3, r4, old, new, weak

Doing(k1, k2, k3, k4) ==
    [r \in Requests |-> CASE r = r1 -> k1 [] r = r2 -> k2 [] r = r3 -> k3 [] r = r4 -> k4]

\* Confirming with two links, or with one link twice beside a second sign-up or a
\* sign-out; resetting from one link twice, with a newer link, and beside
\* sign-ins, sign-outs and a confirmation.
Everyday ==
    { Doing("register", "resend", "verify", "verify"),
      Doing("register", "verify", "verify", "register"),
      Doing("register", "verify", "login",  "logout"),
      Doing("register", "resend", "login",  "everywhere"),
      Doing("register", "forgot", "reset",  "reset"),
      Doing("register", "forgot", "forgot", "reset"),
      Doing("register", "forgot", "reset",  "login"),
      Doing("register", "forgot", "reset",  "logout") }

OneReset == { Doing("register", "forgot", "reset", "login") }

Typing ==
    [k \in Kinds |->
        CASE k = "register" -> {old}
          [] k = "login"    -> {old, new}
          [] k = "reset"    -> {new, weak}
          [] OTHER          -> {}]

\* What decides the rest of a behaviour.  How a request ended decides nothing, nor
\* does what it carried and read, except the password behind its session; a link
\* nobody is left to follow need not be in the mailbox.
Ended(r) == at[r] \in Endings
Followed == \E r \in Requests : kind[r] \in {"verify", "reset"} /\ at[r] = "idle"

Future ==
    <<user, links, sessions, renewing, allowance, asked, invite, payer, paid, kind, missed,
      IF Followed THEN mailbox ELSE {},
      [r \in Requests |-> IF Ended(r) THEN "ended" ELSE at[r]],
      [r \in Requests |-> IF Ended(r) THEN None ELSE <<link[r], cookie[r], seen[r]>>],
      [r \in Requests |-> IF Ended(r) /\ sessions[r] = "none" /\ r \notin renewing
                          THEN None ELSE typed[r]],
      [l \in Requests |-> Cardinality(spentBy[l])],
      [l \in Requests |-> IF links[l] = "used" THEN {} ELSE together[l]]>>
=============================================================================
