-------------------------- MODULE MCSeatsAndCredits --------------------------
(***************************************************************************)
(* The two tables of packages/accounts that share neither rows nor locks,  *)
(* each on its own: `table' says whether a behaviour is of the seats or of *)
(* one account's credits.                                                  *)
(***************************************************************************)
EXTENDS MCAccess, MCCredits

VARIABLE table

MCInit == table \in {"access", "credits"} /\ HInit /\ CreditsInit

MCNext ==
    /\ UNCHANGED table
    /\ \/ table = "access" /\ HNext /\ UNCHANGED creditVars
       \/ table = "credits" /\ CreditsNext /\ UNCHANGED hvars

\* No call on the credits is ever begun where the seats are looked at.
MCSpec == MCInit /\ [][MCNext]_<<table, hvars, creditVars>> /\ Fairness

\* Only seats are shown to TLC by their view.
Shown == IF table = "access" THEN <<table, Rolling>> ELSE <<table, creditVars>>
=============================================================================
