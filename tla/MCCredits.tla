----------------------------- MODULE MCCredits -----------------------------
(***************************************************************************)
(* TLC instances of the credit store: one account and the calls on it.     *)
(***************************************************************************)
EXTENDS Credits

CONSTANTS welcome, again, invite, chat, followUp

\* The signup allowance twice, as when the backfill runs while an address is
\* being confirmed; or the allowance and an invite reward.
SignupTwice   == [g \in Grants |-> "signup"]
InviteAndRest == [g \in Grants |-> IF g = invite THEN "invite" ELSE "signup"]

EstimateEach == [c \in Chats |-> 3]
=============================================================================
