------------------------------ MODULE Accounts ------------------------------
(***************************************************************************)
(* One account: its user row, the one-time links mailed to it, its         *)
(* sessions, and what confirmation sets off (packages/accounts/src/store.ts, *)
(* email-tokens.ts and invites.ts, driven by the routes of                 *)
(* packages/compile-service/src/auth-routes.ts).                           *)
(*                                                                         *)
(* Every statement names one user, so one account is modelled, with the    *)
(* requests that concern it.  A request runs its statements in order, one  *)
(* a step, and requests interleave between them; all but the invite reward *)
(* commit one by one.  Any statement may fail, and the process may die     *)
(* between two: what was committed stays.  Links and sessions expire, and  *)
(* the write that renews a session is not waited for.                      *)
(*                                                                         *)
(* Left out: rate limits (a refusal changes nothing here), profile fields, *)
(* and the address, which no operation changes.                            *)
(***************************************************************************)
EXTENDS Integers, FiniteSets

CONSTANTS
    Requests,     \* requests; one that makes a link or a session gives it its name
    Scenarios,    \* the kinds of requests that may run together
    Passwords,
    Strong,       \* the passwords strong enough to be set
    MayType,      \* the passwords each kind of request may carry
    MustConfirm   \* options.requireVerifiedEmail

None == "none"

Kinds == {"register", "login", "logout", "everywhere", "resend", "forgot", "verify", "reset"}

ASSUME AccountsAssumption ==
    /\ None \notin Requests \cup Passwords
    /\ Scenarios \subseteq [Requests -> Kinds]
    /\ Strong \subseteq Passwords
    /\ MayType \in [Kinds -> SUBSET Passwords]
    /\ MustConfirm \in BOOLEAN

VARIABLES
    user,       \* the users row
    links,      \* email_tokens: what has become of the link each request issued
    mailbox,    \* the links that reached the mailbox
    sessions,   \* the sessions row each sign-in made
    renewing,   \* the sessions a renewal is on its way to
    allowance,  \* the signup grant has been made
    asked,      \* the account has asked for a seat since it last gave one up
    invite,     \* its invite_redemptions row: none, one to reward, one rewarded
    payer,      \* the request whose open transaction has claimed the reward
    paid,       \* the inviter's grant has been made
    kind, at, typed, cookie, link,   \* each request: its route, its next
    seen                             \* statement, what it carries and has read

rows == <<user, links, mailbox, sessions, renewing, allowance, asked, invite, payer, paid>>
args == <<kind, typed, cookie, link>>
vars == <<rows, args, at, seen>>

Endings == {"done", "refused", "failed"}

Statements == {"insertUser", "startSession", "redeem", "authenticate", "findUser",
               "supersede", "insertLink", "send", "selectLink", "claimLink",
               "markVerified", "setPassword", "endEverySession", "endSession", "resolve",
               "grantAllowance", "claimReward", "payReward", "commitReward", "askForSeat"}

First ==
    [register   |-> "insertUser",   login      |-> "authenticate",
     logout     |-> "resolve",      everywhere |-> "resolve",
     resend     |-> "resolve",      forgot     |-> "findUser",
     verify     |-> "selectLink",   reset      |-> "selectLink"]

\* The kind of link a request deals in.
LinkKind(k) == IF k \in {"forgot", "reset"} THEN "reset" ELSE "verify"

Go(r, statement) == at' = [at EXCEPT ![r] = statement]

\* The rows of a kind with used_at IS NULL.
Unspent(k) == {l \in Requests : links[l] \in {"live", "expired"} /\ LinkKind(kind[l]) = k}

-----------------------------------------------------------------------------
(* Registering and signing in.                                             *)

\* The unique index decides between two registrations.
InsertUser(r) ==
    /\ at[r] = "insertUser"
    /\ IF typed[r] \in Strong /\ ~user.exists
       THEN /\ user' = [exists |-> TRUE, password |-> typed[r], verified |-> FALSE]
            /\ Go(r, "startSession")
       ELSE Go(r, "refused") /\ UNCHANGED user
    /\ UNCHANGED <<links, mailbox, sessions, renewing, allowance, asked, invite, payer, paid,
                   args, seen>>

\* The row is read here; hashing the typed password takes until the next step.
Authenticate(r) ==
    /\ at[r] = "authenticate"
    /\ IF user.exists /\ user.password = typed[r]
       THEN Go(r, "startSession") /\ seen' = [seen EXCEPT ![r] = user.verified]
       ELSE Go(r, "refused") /\ UNCHANGED seen
    /\ UNCHANGED <<rows, args>>

StartSession(r) ==
    /\ at[r] = "startSession"
    /\ sessions' = [sessions EXCEPT ![r] = "live"]
    /\ Go(r, IF kind[r] = "register" THEN "redeem" ELSE "askForSeat")
    /\ UNCHANGED <<user, links, mailbox, renewing, allowance, asked, invite, payer, paid,
                   args, seen>>

\* A code is optional, and one that does not work is ignored.
Redeem(r) ==
    /\ at[r] = "redeem"
    /\ invite' \in IF invite = "none" THEN {"none", "due"} ELSE {invite}
    /\ Go(r, IF MustConfirm THEN "supersede" ELSE "grantAllowance")
    /\ UNCHANGED <<user, links, mailbox, sessions, renewing, allowance, asked, payer, paid,
                   args, seen>>

\* Mutant: nobody looks whether the address has been confirmed.
AskForSeatUnchecked(r) ==
    /\ at[r] = "askForSeat"
    /\ asked' = TRUE
    /\ Go(r, "done")
    /\ UNCHANGED <<user, links, mailbox, sessions, renewing, allowance, invite, payer, paid,
                   args, seen>>

\* requestOrReport(), on the user as the request read it.
AskForSeat(r) ==
    /\ at[r] = "askForSeat"
    /\ asked' = (asked \/ seen[r] \/ ~MustConfirm)
    /\ Go(r, "done")
    /\ UNCHANGED <<user, links, mailbox, sessions, renewing, allowance, invite, payer, paid,
                   args, seen>>

-----------------------------------------------------------------------------
(* Sessions.                                                               *)

\* What a request does next once its cookie has been resolved, or has not.
SignedIn(r) ==
    CASE kind[r] = "resend"     -> IF user.verified THEN "done" ELSE "supersede"
      [] kind[r] = "logout"     -> "endSession"
      [] kind[r] = "everywhere" -> "endEverySession"
      [] kind[r] = "verify"     -> "askForSeat"

NotSignedIn(r) ==
    CASE kind[r] = "logout" -> "endSession"
      [] kind[r] = "verify" -> "done"
      [] OTHER              -> "refused"

\* resolveSession(), and access.release() where the route signs out.  A session
\* that is getting old is renewed behind the request's back.
Resolve(r) ==
    /\ at[r] = "resolve"
    /\ IF cookie[r] # None /\ sessions[cookie[r]] = "live"
       THEN /\ Go(r, SignedIn(r))
            /\ renewing' \in {renewing, renewing \cup {cookie[r]}}
            /\ asked' = (asked /\ kind[r] \notin {"logout", "everywhere"})
            /\ seen' = [seen EXCEPT ![r] = user.verified]
       ELSE Go(r, NotSignedIn(r)) /\ UNCHANGED <<renewing, asked, seen>>
    /\ UNCHANGED <<user, links, mailbox, sessions, allowance, invite, payer, paid, args>>

\* Mutant: the renewal inserts the row when it is not there.
RenewalUpserts(s) ==
    /\ s \in renewing
    /\ renewing' = renewing \ {s}
    /\ sessions' = [sessions EXCEPT ![s] = "live"]
    /\ UNCHANGED <<user, links, mailbox, allowance, asked, invite, payer, paid, args, at, seen>>

\* The UPDATE moves the expiry of the row, if there still is one.
Renewal(s) ==
    /\ s \in renewing
    /\ renewing' = renewing \ {s}
    /\ sessions' = [sessions EXCEPT ![s] = IF @ = "none" THEN @ ELSE "live"]
    /\ UNCHANGED <<user, links, mailbox, allowance, asked, invite, payer, paid, args, at, seen>>

RenewalLost(s) ==
    /\ s \in renewing
    /\ renewing' = renewing \ {s}
    /\ UNCHANGED <<user, links, mailbox, sessions, allowance, asked, invite, payer, paid,
                   args, at, seen>>

EndSession(r) ==
    /\ at[r] = "endSession"
    /\ sessions' = [s \in Requests |-> IF s = cookie[r] THEN "none" ELSE sessions[s]]
    /\ Go(r, "done")
    /\ UNCHANGED <<user, links, mailbox, renewing, allowance, asked, invite, payer, paid,
                   args, seen>>

\* Mutant: only the session the request came with.
EndCallersSession(r) ==
    /\ at[r] = "endEverySession"
    /\ sessions' = [s \in Requests |-> IF s = cookie[r] THEN "none" ELSE sessions[s]]
    /\ Go(r, IF kind[r] = "reset" THEN "markVerified" ELSE "done")
    /\ UNCHANGED <<user, links, mailbox, renewing, allowance, asked, invite, payer, paid,
                   args, seen>>

EndEverySession(r) ==
    /\ at[r] = "endEverySession"
    /\ sessions' = [s \in Requests |-> "none"]
    /\ Go(r, IF kind[r] = "reset" THEN "markVerified" ELSE "done")
    /\ UNCHANGED <<user, links, mailbox, renewing, allowance, asked, invite, payer, paid,
                   args, seen>>

-----------------------------------------------------------------------------
(* Issuing a link: sendLink() and issueEmailToken().                       *)

FindUser(r) ==
    /\ at[r] = "findUser"
    /\ Go(r, IF user.exists THEN "supersede" ELSE "done")
    /\ UNCHANGED <<rows, args, seen>>

\* Mutant: only the links that have expired.
SupersedeExpired(r) ==
    /\ at[r] = "supersede"
    /\ links' = [l \in Requests |->
                    IF l \in Unspent(LinkKind(kind[r])) /\ links[l] = "expired"
                    THEN "used" ELSE links[l]]
    /\ Go(r, "insertLink")
    /\ UNCHANGED <<user, mailbox, sessions, renewing, allowance, asked, invite, payer, paid,
                   args, seen>>

Supersede(r) ==
    /\ at[r] = "supersede"
    /\ links' = [l \in Requests |-> IF l \in Unspent(LinkKind(kind[r])) THEN "used" ELSE links[l]]
    /\ Go(r, "insertLink")
    /\ UNCHANGED <<user, mailbox, sessions, renewing, allowance, asked, invite, payer, paid,
                   args, seen>>

InsertLink(r) ==
    /\ at[r] = "insertLink"
    /\ links' = [links EXCEPT ![r] = "live"]
    /\ Go(r, "send")
    /\ UNCHANGED <<user, mailbox, sessions, renewing, allowance, asked, invite, payer, paid,
                   args, seen>>

AfterMail(r) == IF kind[r] = "register" THEN "askForSeat" ELSE "done"

Send(r) ==
    /\ at[r] = "send"
    /\ mailbox' = mailbox \cup {r}
    /\ Go(r, AfterMail(r))
    /\ UNCHANGED <<user, links, sessions, renewing, allowance, asked, invite, payer, paid,
                   args, seen>>

\* Whatever goes wrong, sendLink() does not throw.
MailFails(r) ==
    /\ at[r] \in {"supersede", "insertLink", "send"}
    /\ Go(r, AfterMail(r))
    /\ UNCHANGED <<rows, args, seen>>

-----------------------------------------------------------------------------
(* Spending a link: consumeEmailToken().                                   *)

SelectLink(r) ==
    /\ at[r] = "selectLink"
    /\ Go(r, IF links[link[r]] = "live" /\ LinkKind(kind[link[r]]) = LinkKind(kind[r])
             THEN "claimLink" ELSE "refused")
    /\ UNCHANGED <<rows, args, seen>>

ClaimLink(r) ==
    /\ at[r] = "claimLink"
    /\ IF links[link[r]] = "used"
       THEN Go(r, "refused") /\ UNCHANGED links
       ELSE /\ links' = [links EXCEPT ![link[r]] = "used"]
            /\ Go(r, IF kind[r] = "verify" THEN "markVerified" ELSE "setPassword")
    /\ UNCHANGED <<user, mailbox, sessions, renewing, allowance, asked, invite, payer, paid,
                   args, seen>>

\* A weak password is refused here, when the link has been spent.
SetPassword(r) ==
    /\ at[r] = "setPassword"
    /\ IF typed[r] \in Strong
       THEN user' = [user EXCEPT !.password = typed[r]] /\ Go(r, "endEverySession")
       ELSE UNCHANGED user /\ Go(r, "refused")
    /\ UNCHANGED <<links, mailbox, sessions, renewing, allowance, asked, invite, payer, paid,
                   args, seen>>

MarkVerified(r) ==
    /\ at[r] = "markVerified"
    /\ user' = [user EXCEPT !.verified = TRUE]
    /\ Go(r, IF kind[r] = "verify" THEN "grantAllowance" ELSE "done")
    /\ UNCHANGED <<links, mailbox, sessions, renewing, allowance, asked, invite, payer, paid,
                   args, seen>>

-----------------------------------------------------------------------------
(* What confirmation sets off.                                             *)

AfterAllowance(r) == IF kind[r] = "register" THEN "askForSeat" ELSE "claimReward"

\* grantSignupCredits(): the grant is made, or its failure is logged.
GrantAllowance(r) ==
    /\ at[r] = "grantAllowance"
    /\ allowance' \in {TRUE, allowance}
    /\ Go(r, AfterAllowance(r))
    /\ UNCHANGED <<user, links, mailbox, sessions, renewing, asked, invite, payer, paid,
                   args, seen>>

\* Mutant: the claim runs on the pool and is committed before the grant.
ClaimRewardOnPool(r) ==
    /\ at[r] = "claimReward"
    /\ payer = None
    /\ IF invite = "due" THEN invite' = "rewarded" /\ payer' = r /\ Go(r, "payReward")
                         ELSE UNCHANGED <<invite, payer>> /\ Go(r, "resolve")
    /\ UNCHANGED <<user, links, mailbox, sessions, renewing, allowance, asked, paid, args, seen>>

\* rewardFor(): the conditional UPDATE waits for another transaction's claim.
ClaimReward(r) ==
    /\ at[r] = "claimReward"
    /\ payer = None
    /\ IF invite = "due" THEN payer' = r /\ Go(r, "payReward")
                         ELSE UNCHANGED payer /\ Go(r, "resolve")
    /\ UNCHANGED <<user, links, mailbox, sessions, renewing, allowance, asked, invite, paid,
                   args, seen>>

\* The grant runs on another connection, in a transaction of its own.
PayReward(r) ==
    /\ at[r] = "payReward"
    /\ paid' = TRUE
    /\ Go(r, "commitReward")
    /\ UNCHANGED <<user, links, mailbox, sessions, renewing, allowance, asked, invite, payer,
                   args, seen>>

CommitReward(r) ==
    /\ at[r] = "commitReward"
    /\ invite' = "rewarded"
    /\ payer' = None
    /\ Go(r, "resolve")
    /\ UNCHANGED <<user, links, mailbox, sessions, renewing, allowance, asked, paid, args, seen>>

\* The claim is rolled back and the route logs the error.
RewardFails(r) ==
    /\ at[r] \in {"claimReward", "payReward", "commitReward"}
    /\ payer' = IF payer = r THEN None ELSE payer
    /\ Go(r, "resolve")
    /\ UNCHANGED <<user, links, mailbox, sessions, renewing, allowance, asked, invite, paid,
                   args, seen>>

-----------------------------------------------------------------------------
\* A request arrives, with what its route needs: a link out of the mailbox, the
\* cookie of a session that exists, a password.
Begin(r) ==
    /\ at[r] = "idle"
    /\ \E l \in IF kind[r] \in {"verify", "reset"} THEN mailbox ELSE {None} :
          link' = [link EXCEPT ![r] = l]
    /\ \E s \in {None} \cup {q \in Requests : sessions[q] # "none"} :
          /\ kind[r] \in {"register", "login", "forgot", "reset"} => s = None
          /\ cookie' = [cookie EXCEPT ![r] = s]
    /\ \E p \in IF kind[r] \in {"register", "login", "reset"} THEN MayType[kind[r]] ELSE {None} :
          typed' = [typed EXCEPT ![r] = p]
    /\ Go(r, First[kind[r]])
    /\ UNCHANGED <<rows, kind, seen>>

\* A statement throws out of the route, or the process dies: Postgres rolls back
\* the one transaction that may be open.
Fail(r) ==
    /\ at[r] \in Statements
    /\ payer' = IF payer = r THEN None ELSE payer
    /\ Go(r, "failed")
    /\ UNCHANGED <<user, links, mailbox, sessions, renewing, allowance, asked, invite, paid,
                   args, seen>>

LinkExpires(l) ==
    /\ links[l] = "live"
    /\ links' = [links EXCEPT ![l] = "expired"]
    /\ UNCHANGED <<user, mailbox, sessions, renewing, allowance, asked, invite, payer, paid,
                   args, at, seen>>

SessionExpires(s) ==
    /\ sessions[s] = "live"
    /\ sessions' = [sessions EXCEPT ![s] = "expired"]
    /\ UNCHANGED <<user, links, mailbox, renewing, allowance, asked, invite, payer, paid,
                   args, at, seen>>

Init ==
    /\ user = [exists |-> FALSE, password |-> None, verified |-> FALSE]
    /\ links = [r \in Requests |-> "none"]
    /\ mailbox = {}
    /\ sessions = [r \in Requests |-> "none"]
    /\ renewing = {}
    /\ allowance = FALSE
    /\ asked = FALSE
    /\ invite = "none"
    /\ payer = None
    /\ paid = FALSE
    /\ kind \in Scenarios
    /\ at = [r \in Requests |-> "idle"]
    /\ typed = [r \in Requests |-> None]
    /\ cookie = [r \in Requests |-> None]
    /\ link = [r \in Requests |-> None]
    /\ seen = [r \in Requests |-> FALSE]

Progress(r) ==
    \/ InsertUser(r) \/ Authenticate(r) \/ StartSession(r) \/ Redeem(r) \/ AskForSeat(r)
    \/ Resolve(r) \/ EndSession(r) \/ EndEverySession(r)
    \/ FindUser(r) \/ Supersede(r) \/ InsertLink(r) \/ Send(r)
    \/ SelectLink(r) \/ ClaimLink(r) \/ SetPassword(r) \/ MarkVerified(r)
    \/ GrantAllowance(r) \/ ClaimReward(r) \/ PayReward(r) \/ CommitReward(r)

Fault(r) == MailFails(r) \/ RewardFails(r) \/ Fail(r)

Elapse(x) == Renewal(x) \/ RenewalLost(x) \/ LinkExpires(x) \/ SessionExpires(x)

Next == \E r \in Requests : Begin(r) \/ Progress(r) \/ Fault(r) \/ Elapse(r)

Spec == Init /\ [][Next]_vars

-----------------------------------------------------------------------------
(* Properties.                                                             *)

\* The rows have the shape of the schema.
TypeOK ==
    /\ user \in [exists : BOOLEAN, password : Strong \cup {None}, verified : BOOLEAN]
    /\ links \in [Requests -> {"none", "live", "expired", "used"}]
    /\ mailbox \subseteq Requests
    /\ sessions \in [Requests -> {"none", "live", "expired"}]
    /\ renewing \subseteq Requests
    /\ allowance \in BOOLEAN /\ asked \in BOOLEAN /\ paid \in BOOLEAN
    /\ invite \in {"none", "due", "rewarded"}
    /\ payer \in Requests \cup {None}
    /\ kind \in [Requests -> Kinds]
    /\ at \in [Requests -> {"idle"} \cup Statements \cup Endings]
    /\ typed \in [Requests -> Passwords \cup {None}]
    /\ cookie \in [Requests -> Requests \cup {None}]
    /\ link \in [Requests -> Requests \cup {None}]
    /\ seen \in [Requests -> BOOLEAN]

\* No allowance, seat or invite reward "for an unconfirmed address", whatever
\* fails or overtakes on the way.
NothingBeforeConfirmation == MustConfirm => (allowance \/ asked \/ paid => user.verified)

\* The inviter has been paid wherever the reward is on record as paid, although
\* the record and the payment are two transactions.
RewardedIsPaid == invite = "rewarded" => paid

\* A session that was signed out is not brought back, not by a renewal that was
\* under way either: only the sign-in that makes a session ever creates its row.
SignedOutStaysOut ==
    [][\A s \in Requests :
          sessions[s] = "none" /\ sessions'[s] # "none" => at[s] = "startSession"]_vars
=============================================================================
