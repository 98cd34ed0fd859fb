-------------------------- MODULE AccountsHistory --------------------------
(***************************************************************************)
(* The account with history variables: who spent each link, which issues   *)
(* of a link overlapped, and which sign-ins a change of password did not   *)
(* reach.  No action reads them.                                           *)
(***************************************************************************)
EXTENDS Accounts

VARIABLES
    spentBy,   \* the requests each link let through
    together,  \* the issues of its kind that were under way when each began
    missed     \* the sign-ins whose session a reset may have left alive

hvars == <<vars, spentBy, together, missed>>

SpendsLink(r, l) ==
    link[r] = l /\ at[r] = "claimLink" /\ at'[r] \in {"markVerified", "setPassword"}

\* A sign-in between reading the password and its session.
SigningIn == {r \in Requests : at[r] = "startSession"}

\* A reset that dies between its two statements reaches nobody.
BreaksOff(r) == kind[r] = "reset" /\ at[r] = "endEverySession" /\ at'[r] = "failed"

Recorded ==
    /\ spentBy' = [l \in Requests |-> spentBy[l] \cup {r \in Requests : SpendsLink(r, l)}]
    /\ together' =
          [r \in Requests |->
              IF at[r] = "supersede" /\ at'[r] = "insertLink"
              THEN {q \in Requests : at[q] = "insertLink" /\ LinkKind(kind[q]) = LinkKind(kind[r])}
              ELSE together[r]]
    /\ missed' =
          missed \cup (IF user.exists /\ user'.password # user.password THEN SigningIn ELSE {})
                 \cup (IF \E r \in Requests : BreaksOff(r)
                       THEN {s \in Requests : sessions[s] # "none"} \cup SigningIn ELSE {})

HInit ==
    /\ Init
    /\ spentBy = [l \in Requests |-> {}]
    /\ together = [r \in Requests |-> {}]
    /\ missed = {}

HNext ==
    \E r \in Requests :
        \/ Begin(r) /\ Recorded
        \/ Progress(r) /\ Recorded
        \/ Fault(r) /\ Recorded
        \/ Elapse(r) /\ Recorded

HSpec == HInit /\ [][HNext]_hvars

-----------------------------------------------------------------------------
\* "Two clicks arriving together cannot both succeed": a link lets one request
\* through.
LinkSpentOnce == \A l \in Requests : Cardinality(spentBy[l]) <= 1

\* Issuing a link invalidates every earlier one of its kind: two are live at once
\* only when their issues overlapped.
LiveTogetherIssuedTogether ==
    \A k, l \in Requests :
        k # l /\ links[k] = "live" /\ links[l] = "live" /\ LinkKind(kind[k]) = LinkKind(kind[l])
            => k \in together[l] \/ l \in together[k]

\* A link in the mail lets one request through, and only the last of its kind does.
LinksAreSound == LinkSpentOnce /\ LiveTogetherIssuedTogether

\* A reset is under way that has set the password and not yet ended the sessions.
Resetting == \E r \in Requests : kind[r] = "reset" /\ at[r] = "endEverySession"

Outdated == {s \in Requests : sessions[s] = "live" /\ typed[s] # user.password}

\* A session begun with an earlier password outlives a reset only if its sign-in
\* had read that password and not finished, or the reset broke off.
OnlyRacersOutliveAReset == Resetting \/ Outdated \subseteq missed

\* "Every session goes with it": as long as nothing fails, a reset leaves no
\* session of an earlier password.
EverySessionGoes ==
    (\A r \in Requests : at[r] # "failed") => Resetting \/ Outdated = {}
=============================================================================
