--------------------------- MODULE AccountsProofs ---------------------------
(***************************************************************************)
(* Proofs about an account, for any number of requests of any kinds, any   *)
(* failures and any delays.                                                *)
(***************************************************************************)
EXTENDS AccountsHistory, FiniteSetTheorems, TLAPS

\* Which kinds of request come to a statement that several share.
RouteOf(k, s, l) ==
    /\ s \in {"claimReward", "payReward", "commitReward"} => k = "verify"
    /\ s = "markVerified" => k \in {"verify", "reset"}
    /\ s = "grantAllowance" => k \in {"verify", "register"}
    /\ s \in {"supersede", "insertLink", "send"} =>
          k \in {"register", "resend", "forgot"}
    /\ s \in {"redeem", "insertUser"} => k = "register"
    /\ s = "authenticate" => k = "login"
    /\ s = "startSession" => k \in {"register", "login"}
    /\ s = "findUser" => k = "forgot"
    /\ s = "setPassword" => k = "reset"
    /\ s = "resolve" => k \in {"resend", "logout", "everywhere", "verify"}
    /\ s \in {"selectLink", "claimLink"} => k \in {"verify", "reset"} /\ l \in Requests

OnRoute == \A r \in Requests : RouteOf(kind[r], at[r], link[r])

TypeInv == TypeOK /\ OnRoute

LEMMA TypeStep ==
    ASSUME TypeInv, [Next]_vars
    PROVE  TypeInv'
<1> USE DEF TypeInv, TypeOK, OnRoute, RouteOf, Go
<1>0. CASE UNCHANGED vars
  BY <1>0 DEF vars, rows, args
<1> SUFFICES ASSUME NEW r \in Requests, Begin(r) \/ Progress(r) \/ Fault(r) \/ Elapse(r)
             PROVE  TypeInv'
  BY <1>0 DEF Next
<1>1. CASE InsertUser(r)
  <2>1. user' \in [exists : BOOLEAN, password : Strong \cup {None}, verified : BOOLEAN]
    <3>1. CASE typed[r] \in Strong /\ ~user.exists
      <4>1. [exists |-> TRUE, password |-> typed[r], verified |-> FALSE]
              \in [exists : BOOLEAN, password : Strong \cup {None}, verified : BOOLEAN]
        BY <3>1
      <4> QED
        BY <1>1, <3>1, <4>1 DEF InsertUser
    <3>2. CASE ~(typed[r] \in Strong /\ ~user.exists)
      BY <1>1, <3>2 DEF InsertUser
    <3> QED
      BY <3>1, <3>2
  <2>2. at' \in [Requests -> {"idle"} \cup Statements \cup Endings]
    BY <1>1 DEF InsertUser, Statements, Endings
  <2>3. OnRoute'
    BY <1>1 DEF InsertUser, args
  <2> QED
    BY <1>1, <2>1, <2>2, <2>3 DEF InsertUser, args
<1>2. CASE Authenticate(r)
  BY <1>2 DEF Authenticate, Statements, Endings, args, rows
<1>3. CASE StartSession(r)
  BY <1>3 DEF StartSession, Statements, Endings, args
<1>4. CASE Redeem(r)
  BY <1>4 DEF Redeem, Statements, Endings, args
<1>5. CASE AskForSeat(r)
  BY <1>5, AccountsAssumption DEF AskForSeat, Statements, Endings, args
<1>6. CASE Resolve(r)
  <2>1. SignedIn(r) \in {"done", "supersede", "endSession", "endEverySession", "askForSeat"}
    BY <1>6 DEF Resolve, SignedIn
  <2>2. NotSignedIn(r) \in {"endSession", "done", "refused"}
    BY <1>6 DEF Resolve, NotSignedIn
  <2>3. at' \in [Requests -> {"idle"} \cup Statements \cup Endings]
    BY <1>6, <2>1, <2>2 DEF Resolve, Statements, Endings
  <2>4. OnRoute'
    <3>1. SignedIn(r) = "supersede" => kind[r] = "resend"
      BY <1>6 DEF Resolve, SignedIn
    <3> QED
      BY <1>6, <2>1, <2>2, <3>1 DEF Resolve, args
  <2>5. renewing' \subseteq Requests
    BY <1>6 DEF Resolve
  <2>6. asked' \in BOOLEAN
    BY <1>6, Zenon DEF Resolve
  <2>7. seen' \in [Requests -> BOOLEAN]
    <3>1. user.verified \in BOOLEAN
      OBVIOUS
    <3> QED
      BY <1>6, <3>1, Zenon DEF Resolve
  <2> QED
    BY <1>6, <2>3, <2>4, <2>5, <2>6, <2>7 DEF Resolve, args
<1>7. CASE EndSession(r)
  BY <1>7 DEF EndSession, Statements, Endings, args
<1>8. CASE EndEverySession(r)
  BY <1>8 DEF EndEverySession, Statements, Endings, args
<1>9. CASE FindUser(r)
  BY <1>9 DEF FindUser, Statements, Endings, args, rows
<1>10. CASE Supersede(r)
  BY <1>10 DEF Supersede, Statements, Endings, args
<1>11. CASE InsertLink(r)
  BY <1>11 DEF InsertLink, Statements, Endings, args
<1>12. CASE Send(r)
  BY <1>12 DEF Send, AfterMail, Statements, Endings, args
<1>13. CASE SelectLink(r)
  BY <1>13 DEF SelectLink, Statements, Endings, args, rows
<1>14. CASE ClaimLink(r)
  BY <1>14 DEF ClaimLink, Statements, Endings, args
<1>15. CASE SetPassword(r)
  BY <1>15 DEF SetPassword, Statements, Endings, args
<1>16. CASE MarkVerified(r)
  BY <1>16, ZenonT(60) DEF MarkVerified, Statements, Endings, args
<1>17. CASE GrantAllowance(r)
  <2>1. allowance' \in BOOLEAN
    BY <1>17 DEF GrantAllowance
  <2>2. at' \in [Requests -> {"idle"} \cup Statements \cup Endings]
    BY <1>17 DEF GrantAllowance, AfterAllowance, Statements
  <2>3. OnRoute'
    BY <1>17 DEF GrantAllowance, AfterAllowance, args
  <2> QED
    BY <1>17, <2>1, <2>2, <2>3 DEF GrantAllowance, args
<1>18. CASE ClaimReward(r)
  <2>1. at' \in [Requests -> {"idle"} \cup Statements \cup Endings]
    BY <1>18 DEF ClaimReward, Statements, Endings
  <2>2. OnRoute'
    BY <1>18 DEF ClaimReward, args
  <2>3. payer' \in Requests \cup {None}
    BY <1>18 DEF ClaimReward
  <2> QED
    BY <1>18, <2>1, <2>2, <2>3 DEF ClaimReward, args
<1>19. CASE PayReward(r)
  BY <1>19 DEF PayReward, Statements, Endings, args
<1>20. CASE CommitReward(r)
  <2>1. at' \in [Requests -> {"idle"} \cup Statements \cup Endings]
    BY <1>20 DEF CommitReward, Statements, Endings
  <2>2. OnRoute'
    BY <1>20 DEF CommitReward, args
  <2>3. payer' \in Requests \cup {None} /\ invite' \in {"none", "due", "rewarded"}
    BY <1>20 DEF CommitReward
  <2> QED
    BY <1>20, <2>1, <2>2, <2>3 DEF CommitReward, args
<1>21. CASE Begin(r)
  <2>1. First[kind[r]] \in Statements
    BY DEF First, Kinds, Statements
  <2>2. at' \in [Requests -> {"idle"} \cup Statements \cup Endings]
    BY <1>21, <2>1 DEF Begin
  <2>3. link' \in [Requests -> Requests \cup {None}]
    BY <1>21 DEF Begin
  <2>4. cookie' \in [Requests -> Requests \cup {None}]
    BY <1>21 DEF Begin
  <2>5. typed' \in [Requests -> Passwords \cup {None}]
    <3>1. PICK p : /\ typed' = [typed EXCEPT ![r] = p]
                   /\ p \in IF kind[r] \in {"register", "login", "reset"}
                             THEN MayType[kind[r]] ELSE {None}
      BY <1>21 DEF Begin
    <3>2. MayType[kind[r]] \subseteq Passwords
      BY AccountsAssumption
    <3> QED
      BY <3>1, <3>2
  <2>6. OnRoute'
    <3>1. kind[r] \in {"verify", "reset"} => link'[r] \in Requests
      BY <1>21 DEF Begin
    <3>2. RouteOf(kind[r], First[kind[r]], link'[r])
      BY <3>1 DEF First, Kinds
    <3>3. /\ kind' = kind /\ at'[r] = First[kind[r]]
          /\ \A q \in Requests : q # r => at'[q] = at[q] /\ link'[q] = link[q]
      BY <1>21 DEF Begin
    <3> QED
      BY <3>1, <3>2, <3>3
  <2> QED
    BY <1>21, <2>2, <2>3, <2>4, <2>5, <2>6 DEF Begin, rows
<1>22. CASE MailFails(r)
  BY <1>22 DEF MailFails, AfterMail, Statements, Endings, args, rows
<1>23. CASE RewardFails(r) \/ Fail(r)
  <2>1. at' \in [Requests -> {"idle"} \cup Statements \cup Endings]
    BY <1>23 DEF RewardFails, Fail, Statements, Endings
  <2>2. payer' \in Requests \cup {None}
    BY <1>23 DEF RewardFails, Fail
  <2>3. OnRoute'
    <3>1. ASSUME at[r] \in {"claimReward", "payReward", "commitReward"}
          PROVE  kind[r] \in {"resend", "logout", "everywhere", "verify"}
      BY <3>1
    <3> QED
      BY <1>23, <3>1 DEF RewardFails, Fail, args
  <2> QED
    BY <1>23, <2>1, <2>2, <2>3 DEF RewardFails, Fail, args
<1>24. CASE Elapse(r)
  BY <1>24 DEF Elapse, Renewal, RenewalLost, LinkExpires, SessionExpires, args
<1> QED
  BY <1>1, <1>2, <1>3, <1>4, <1>5, <1>6, <1>7, <1>8, <1>9, <1>10, <1>11, <1>12, <1>13, <1>14,
     <1>15, <1>16, <1>17, <1>18, <1>19, <1>20, <1>21, <1>22, <1>23, <1>24 DEF Progress, Fault

LEMMA TypeInit == Init => TypeInv
<1> SUFFICES ASSUME Init PROVE TypeInv
  OBVIOUS
<1>1. kind \in [Requests -> Kinds]
  BY AccountsAssumption DEF Init
<1>2. user \in [exists : BOOLEAN, password : Strong \cup {None}, verified : BOOLEAN]
  BY DEF Init
<1>3. TypeOK
  BY <1>1, <1>2 DEF Init, TypeOK
<1> QED
  BY <1>3 DEF Init, TypeInv, OnRoute, RouteOf

LEMMA TypeInvariant == Spec => []TypeInv
BY TypeInit, TypeStep, PTL DEF Spec

\* The rows keep the shape of the schema, and the password is always one the
\* strength check let through, whatever requests run together and fail.
THEOREM TypeCorrect == Spec => []TypeOK
<1>1. TypeInv => TypeOK
  BY DEF TypeInv
<1> QED
  BY <1>1, TypeInvariant, PTL

-----------------------------------------------------------------------------
(***************************************************************************)
(* Confirmation.  NothingBeforeConfirmation is not inductive: a request    *)
(* asks for a seat on what it read of the user some steps before, and      *)
(* `verified` must not be taken back in the meantime.  Only a registration *)
(* could, and it finds the row there: whoever follows a link, or holds a   *)
(* session, belongs to a user that exists.                                 *)
(***************************************************************************)

\* The statements no request reaches unless the user exists.
Known == {"startSession", "redeem", "supersede", "insertLink", "send", "selectLink", "claimLink",
          "markVerified", "setPassword", "endEverySession"}

\* The statements of /auth/verify behind the one that marks the address.
Confirmed == {"grantAllowance", "claimReward", "payReward", "commitReward", "resolve"}

ConfirmInv ==
    /\ user.verified => user.exists
    /\ mailbox # {} => user.exists
    /\ \A r \in Requests :
          /\ sessions[r] # "none" \/ at[r] \in Known => user.exists
          /\ seen[r] => user.verified
          /\ kind[r] = "verify" /\ at[r] \in Confirmed => user.verified
          /\ MustConfirm /\ at[r] = "grantAllowance" => kind[r] = "verify"
    /\ NothingBeforeConfirmation

LEMMA ConfirmStep ==
    ASSUME TypeInv, ConfirmInv, [Next]_vars
    PROVE  ConfirmInv'
<1> USE DEF TypeInv, TypeOK, OnRoute, RouteOf, Go, ConfirmInv, NothingBeforeConfirmation,
            Known, Confirmed, Endings
<1>0. CASE UNCHANGED vars
  BY <1>0 DEF vars, rows, args
<1> SUFFICES ASSUME NEW r \in Requests, Begin(r) \/ Progress(r) \/ Fault(r) \/ Elapse(r)
             PROVE  ConfirmInv'
  BY <1>0 DEF Next
<1>1. CASE InsertUser(r)
  BY <1>1 DEF InsertUser, args
<1>2. CASE Authenticate(r)
  BY <1>2 DEF Authenticate, args, rows
<1>3. CASE StartSession(r)
  BY <1>3 DEF StartSession, args
<1>4. CASE Redeem(r)
  BY <1>4 DEF Redeem, args
<1>5. CASE AskForSeat(r)
  BY <1>5 DEF AskForSeat, args
<1>6. CASE Resolve(r)
  <2>0. /\ \A q \in Requests : q # r => at'[q] = at[q] /\ seen'[q] = seen[q]
        /\ at'[r] \in {SignedIn(r), NotSignedIn(r)}
        /\ UNCHANGED <<user, mailbox, sessions, allowance, paid, kind>>
    BY <1>6 DEF Resolve, args
  <2>1. CASE cookie[r] # None /\ sessions[cookie[r]] = "live"
    <3>1. user.exists
      BY <2>1
    <3>2. SignedIn(r) \notin Confirmed
      BY <1>6 DEF Resolve, SignedIn
    <3>3. asked' => asked
      BY <1>6, <2>1, Zenon DEF Resolve
    <3>4. seen'[r] => user.verified
      BY <1>6, <2>1 DEF Resolve
    <3>5. at'[r] = SignedIn(r)
      BY <1>6, <2>1 DEF Resolve
    <3> QED
      BY <2>0, <3>1, <3>2, <3>3, <3>4, <3>5
  <2>2. CASE ~(cookie[r] # None /\ sessions[cookie[r]] = "live")
    <3>1. at'[r] = NotSignedIn(r) /\ seen' = seen /\ asked' = asked
      BY <1>6, <2>2 DEF Resolve
    <3>2. NotSignedIn(r) \notin Confirmed \cup Known
      BY <1>6 DEF Resolve, NotSignedIn
    <3> QED
      BY <2>0, <3>1, <3>2
  <2> QED
    BY <2>1, <2>2
<1>7. CASE EndSession(r)
  BY <1>7 DEF EndSession, args
<1>8. CASE EndEverySession(r)
  BY <1>8 DEF EndEverySession, args
<1>9. CASE FindUser(r)
  BY <1>9 DEF FindUser, args, rows
<1>10. CASE Supersede(r)
  BY <1>10 DEF Supersede, args
<1>11. CASE InsertLink(r)
  BY <1>11 DEF InsertLink, args
<1>12. CASE Send(r)
  BY <1>12 DEF Send, args, AfterMail
<1>13. CASE SelectLink(r)
  BY <1>13 DEF SelectLink, args, rows
<1>14. CASE ClaimLink(r)
  BY <1>14 DEF ClaimLink, args
<1>15. CASE SetPassword(r)
  BY <1>15 DEF SetPassword, args
<1>16. CASE MarkVerified(r)
  BY <1>16 DEF MarkVerified, args
<1>17. CASE GrantAllowance(r)
  BY <1>17 DEF GrantAllowance, args, AfterAllowance
<1>18. CASE ClaimReward(r)
  BY <1>18 DEF ClaimReward, args
<1>19. CASE PayReward(r)
  BY <1>19 DEF PayReward, args
<1>20. CASE CommitReward(r)
  BY <1>20 DEF CommitReward, args
<1>21. CASE Begin(r)
  BY <1>21 DEF Begin, args, First, Kinds, rows
<1>22. CASE MailFails(r)
  BY <1>22 DEF MailFails, args, AfterMail, rows
<1>23. CASE RewardFails(r)
  BY <1>23 DEF RewardFails, args
<1>24. CASE Fail(r)
  BY <1>24 DEF Fail, args, Statements
<1>25. CASE Elapse(r)
  BY <1>25 DEF Elapse, Renewal, RenewalLost, LinkExpires, SessionExpires, args
<1> QED
  BY <1>1, <1>2, <1>3, <1>4, <1>5, <1>6, <1>7, <1>8, <1>9, <1>10, <1>11, <1>12, <1>13, <1>14, <1>15, <1>16, <1>17, <1>18, <1>19, <1>20, <1>21, <1>22, <1>23, <1>24, <1>25 DEF Progress, Fault

LEMMA ConfirmInit == Init => ConfirmInv
BY DEF Init, ConfirmInv, NothingBeforeConfirmation, Known, Confirmed

\* No allowance, seat or invite reward for an address that was not confirmed,
\* whatever fails, overtakes or comes twice.
THEOREM ConfirmationComesFirst == Spec => []NothingBeforeConfirmation
<1>1. TypeInv /\ ConfirmInv /\ [Next]_vars => ConfirmInv'
  BY ConfirmStep
<1>2. ConfirmInv => NothingBeforeConfirmation
  BY DEF ConfirmInv
<1> QED
  BY <1>1, <1>2, ConfirmInit, TypeInvariant, PTL DEF Spec

-----------------------------------------------------------------------------
(* The reward.                                                             *)

RewardInv ==
    /\ RewardedIsPaid
    /\ \A r \in Requests : at[r] = "commitReward" => paid

LEMMA RewardStep ==
    ASSUME TypeInv, RewardInv, [Next]_vars
    PROVE  RewardInv'
<1> USE DEF TypeInv, TypeOK, Go, RewardInv, RewardedIsPaid, Endings
<1>0. CASE UNCHANGED vars
  BY <1>0 DEF vars, rows, args
<1> SUFFICES ASSUME NEW r \in Requests, Begin(r) \/ Progress(r) \/ Fault(r) \/ Elapse(r)
             PROVE  RewardInv'
  BY <1>0 DEF Next
<1>1. CASE InsertUser(r)
  BY <1>1 DEF InsertUser, args
<1>2. CASE Authenticate(r)
  BY <1>2 DEF Authenticate, args, rows
<1>3. CASE StartSession(r)
  BY <1>3 DEF StartSession, args
<1>4. CASE Redeem(r)
  BY <1>4 DEF Redeem, args
<1>5. CASE AskForSeat(r)
  BY <1>5 DEF AskForSeat, args
<1>6. CASE Resolve(r)
  <2>1. SignedIn(r) # "commitReward" /\ NotSignedIn(r) # "commitReward"
    BY <1>6, TypeInv DEF Resolve, SignedIn, NotSignedIn, OnRoute, RouteOf
  <2> QED
    BY <1>6, <2>1 DEF Resolve, args
<1>7. CASE EndSession(r)
  BY <1>7 DEF EndSession, args
<1>8. CASE EndEverySession(r)
  BY <1>8 DEF EndEverySession, args
<1>9. CASE FindUser(r)
  BY <1>9 DEF FindUser, args, rows
<1>10. CASE Supersede(r)
  BY <1>10 DEF Supersede, args
<1>11. CASE InsertLink(r)
  BY <1>11 DEF InsertLink, args
<1>12. CASE Send(r)
  BY <1>12 DEF Send, args, AfterMail
<1>13. CASE SelectLink(r)
  BY <1>13 DEF SelectLink, args, rows
<1>14. CASE ClaimLink(r)
  BY <1>14 DEF ClaimLink, args
<1>15. CASE SetPassword(r)
  BY <1>15 DEF SetPassword, args
<1>16. CASE MarkVerified(r)
  BY <1>16 DEF MarkVerified, args
<1>17. CASE GrantAllowance(r)
  BY <1>17 DEF GrantAllowance, args, AfterAllowance
<1>18. CASE ClaimReward(r)
  BY <1>18 DEF ClaimReward, args
<1>19. CASE PayReward(r)
  BY <1>19 DEF PayReward, args
<1>20. CASE CommitReward(r)
  BY <1>20 DEF CommitReward, args
<1>21. CASE Begin(r)
  BY <1>21 DEF Begin, args, First, Kinds, rows
<1>22. CASE MailFails(r)
  BY <1>22 DEF MailFails, args, AfterMail, rows
<1>23. CASE RewardFails(r)
  BY <1>23 DEF RewardFails, args
<1>24. CASE Fail(r)
  BY <1>24 DEF Fail, args, Statements
<1>25. CASE Elapse(r)
  BY <1>25 DEF Elapse, Renewal, RenewalLost, LinkExpires, SessionExpires, args
<1> QED
  BY <1>1, <1>2, <1>3, <1>4, <1>5, <1>6, <1>7, <1>8, <1>9, <1>10, <1>11, <1>12, <1>13, <1>14, <1>15, <1>16, <1>17, <1>18, <1>19, <1>20, <1>21, <1>22, <1>23, <1>24, <1>25 DEF Progress, Fault

\* No reward is on record that the inviter was not paid, although the claim and
\* the grant commit on two connections and either may fail.
THEOREM NoRewardUnpaid == Spec => []RewardedIsPaid
<1>1. TypeInv /\ RewardInv /\ [Next]_vars => RewardInv'
  BY RewardStep
<1>2. Init => RewardInv
  BY DEF Init, RewardInv, RewardedIsPaid
<1>3. RewardInv => RewardedIsPaid
  BY DEF RewardInv
<1> QED
  BY <1>1, <1>2, <1>3, TypeInvariant, PTL DEF Spec

-----------------------------------------------------------------------------
(* Sessions.                                                               *)

LEMMA OnlySignInsMakeSessions ==
    ASSUME TypeInv, [Next]_vars, NEW s \in Requests, sessions[s] = "none", sessions'[s] # "none"
    PROVE  at[s] = "startSession"
<1> USE DEF TypeInv, TypeOK
<1>0. CASE UNCHANGED vars
  BY <1>0 DEF vars, rows
<1> SUFFICES ASSUME NEW r \in Requests, Begin(r) \/ Progress(r) \/ Fault(r) \/ Elapse(r)
             PROVE  at[s] = "startSession"
  BY <1>0 DEF Next
<1>1. CASE InsertUser(r)
  BY <1>1 DEF InsertUser
<1>2. CASE Authenticate(r)
  BY <1>2 DEF Authenticate, rows
<1>3. CASE StartSession(r)
  BY <1>3 DEF StartSession
<1>4. CASE Redeem(r)
  BY <1>4 DEF Redeem
<1>5. CASE AskForSeat(r)
  BY <1>5 DEF AskForSeat
<1>6. CASE Resolve(r)
  BY <1>6 DEF Resolve, SignedIn, NotSignedIn
<1>7. CASE EndSession(r)
  BY <1>7 DEF EndSession
<1>8. CASE EndEverySession(r)
  BY <1>8 DEF EndEverySession
<1>9. CASE FindUser(r)
  BY <1>9 DEF FindUser, rows
<1>10. CASE Supersede(r)
  BY <1>10 DEF Supersede
<1>11. CASE InsertLink(r)
  BY <1>11 DEF InsertLink
<1>12. CASE Send(r)
  BY <1>12 DEF Send, AfterMail
<1>13. CASE SelectLink(r)
  BY <1>13 DEF SelectLink, rows
<1>14. CASE ClaimLink(r)
  BY <1>14 DEF ClaimLink
<1>15. CASE SetPassword(r)
  BY <1>15 DEF SetPassword
<1>16. CASE MarkVerified(r)
  BY <1>16 DEF MarkVerified
<1>17. CASE GrantAllowance(r)
  BY <1>17 DEF GrantAllowance, AfterAllowance
<1>18. CASE ClaimReward(r)
  BY <1>18 DEF ClaimReward
<1>19. CASE PayReward(r)
  BY <1>19 DEF PayReward
<1>20. CASE CommitReward(r)
  BY <1>20 DEF CommitReward
<1>21. CASE Begin(r)
  BY <1>21 DEF Begin, First, Kinds, rows
<1>22. CASE MailFails(r)
  BY <1>22 DEF MailFails, AfterMail, rows
<1>23. CASE RewardFails(r)
  BY <1>23 DEF RewardFails
<1>24. CASE Fail(r)
  BY <1>24 DEF Fail, Statements
<1>25. CASE Elapse(r)
  BY <1>25 DEF Elapse, Renewal, RenewalLost, LinkExpires, SessionExpires
<1> QED
  BY <1>1, <1>2, <1>3, <1>4, <1>5, <1>6, <1>7, <1>8, <1>9, <1>10, <1>11, <1>12, <1>13, <1>14, <1>15, <1>16, <1>17, <1>18, <1>19, <1>20, <1>21, <1>22, <1>23, <1>24, <1>25 DEF Progress, Fault

\* Whoever has signed out stays signed out, whatever renewals are under way.
THEOREM NoSessionComesBack == Spec => SignedOutStaysOut
<1>1. TypeInv /\ [Next]_vars =>
        [\A s \in Requests :
            sessions[s] = "none" /\ sessions'[s] # "none" => at[s] = "startSession"]_vars
  BY OnlySignInsMakeSessions
<1> QED
  BY <1>1, TypeInvariant, PTL DEF Spec, SignedOutStaysOut

-----------------------------------------------------------------------------
(***************************************************************************)
(* Links.  A link is spent once because a spent one stays spent: its row   *)
(* is inserted by one request, before anybody can hold it.  Two are live   *)
(* together only if each request superseded the other's row, or found it   *)
(* not there yet.                                                          *)
(***************************************************************************)

\* Where a request can be that has inserted a link.
Issued == {"send", "askForSeat", "done", "failed"}

\* A step that leaves every link as it is.
LeavesLinks(r) ==
    /\ links' = links
    /\ at'[r] \in {"insertLink", "send"} => at'[r] = at[r]
    /\ at[r] = "claimLink" => at'[r] \notin {"markVerified", "setPassword"}
    /\ at[r] \in Issued => at'[r] \in Issued
    /\ mailbox' \subseteq mailbox \cup {q \in {r} : at[r] = "send"}
    /\ link'[r] \in {link[r], None} \cup mailbox

\* What any step does to the request it is about and to the links.
MovesOne(r) ==
    /\ kind' = kind
    /\ \A q \in Requests : q # r => at'[q] = at[q] /\ link'[q] = link[q] /\ typed'[q] = typed[q]
    /\ at[r] # "idle" => typed'[r] = typed[r]
    /\ at'[r] = "idle" => at[r] = "idle" /\ typed'[r] = typed[r]
    /\ Supersede(r) \/ InsertLink(r) \/ ClaimLink(r) \/ LinkExpires(r) \/ LeavesLinks(r)

\* A step moves one request on, and has one of five effects on the links.
LEMMA EveryStepMovesOne ==
    ASSUME TypeInv, NEW r \in Requests, Begin(r) \/ Progress(r) \/ Fault(r) \/ Elapse(r)
    PROVE  MovesOne(r)
<1> USE DEF TypeInv, TypeOK, Go, MovesOne, LeavesLinks, Issued
<1>1. CASE InsertUser(r)
  BY <1>1 DEF InsertUser, args
<1>2. CASE Authenticate(r)
  BY <1>2 DEF Authenticate, args, rows
<1>3. CASE StartSession(r)
  BY <1>3 DEF StartSession, args
<1>4. CASE Redeem(r)
  BY <1>4 DEF Redeem, args
<1>5. CASE AskForSeat(r)
  BY <1>5 DEF AskForSeat, args
<1>6. CASE Resolve(r)
  <2>1. /\ SignedIn(r) \notin {"idle", "insertLink", "send"}
        /\ NotSignedIn(r) \notin {"idle", "insertLink", "send"}
    BY <1>6 DEF Resolve, SignedIn, NotSignedIn, OnRoute, RouteOf
  <2> QED
    BY <1>6, <2>1 DEF Resolve, args
<1>7. CASE EndSession(r)
  BY <1>7 DEF EndSession, args
<1>8. CASE EndEverySession(r)
  BY <1>8 DEF EndEverySession, args
<1>9. CASE FindUser(r)
  BY <1>9 DEF FindUser, args, rows
<1>10. CASE Supersede(r)
  BY <1>10 DEF Supersede, args
<1>11. CASE InsertLink(r)
  BY <1>11 DEF InsertLink, args
<1>12. CASE Send(r)
  BY <1>12 DEF Send, args, AfterMail
<1>13. CASE SelectLink(r)
  BY <1>13 DEF SelectLink, args, rows
<1>14. CASE ClaimLink(r)
  BY <1>14 DEF ClaimLink, args
<1>15. CASE SetPassword(r)
  BY <1>15 DEF SetPassword, args
<1>16. CASE MarkVerified(r)
  BY <1>16 DEF MarkVerified, args
<1>17. CASE GrantAllowance(r)
  BY <1>17 DEF GrantAllowance, args, AfterAllowance
<1>18. CASE ClaimReward(r)
  BY <1>18 DEF ClaimReward, args
<1>19. CASE PayReward(r)
  BY <1>19 DEF PayReward, args
<1>20. CASE CommitReward(r)
  BY <1>20 DEF CommitReward, args
<1>21. CASE Begin(r)
  <2>1. First[kind[r]] \notin {"idle", "insertLink", "send"}
    BY DEF First, Kinds
  <2>2. link'[r] \in {None} \cup mailbox
    BY <1>21 DEF Begin
  <2>3. /\ at[r] = "idle" /\ at'[r] = First[kind[r]] /\ kind' = kind /\ links' = links /\ mailbox' = mailbox
        /\ \A q \in Requests : q # r => at'[q] = at[q]
    BY <1>21 DEF Begin, rows
  <2>4. \A q \in Requests : q # r => link'[q] = link[q]
    BY <1>21 DEF Begin
  <2>5. \A q \in Requests : q # r => typed'[q] = typed[q]
    BY <1>21 DEF Begin
  <2> QED
    BY <2>1, <2>2, <2>3, <2>4, <2>5
<1>22. CASE MailFails(r)
  BY <1>22 DEF MailFails, args, AfterMail, rows
<1>23. CASE RewardFails(r)
  BY <1>23 DEF RewardFails, args
<1>24. CASE Fail(r)
  BY <1>24 DEF Fail, args, Statements
<1>25. CASE Elapse(r)
  BY <1>25 DEF Elapse, Renewal, RenewalLost, LinkExpires, SessionExpires, args
<1> QED
  BY <1>1, <1>2, <1>3, <1>4, <1>5, <1>6, <1>7, <1>8, <1>9, <1>10, <1>11, <1>12, <1>13, <1>14, <1>15, <1>16, <1>17, <1>18, <1>19, <1>20, <1>21, <1>22, <1>23, <1>24, <1>25 DEF Progress, Fault

\* A link that is live, or is about to be.
Pending(r) == at[r] = "insertLink" \/ links[r] = "live"

LinksInv ==
    /\ spentBy \in [Requests -> SUBSET Requests]
    /\ together \in [Requests -> SUBSET Requests]
    /\ \A r \in Requests :
          /\ links[r] # "none" => at[r] \in Issued
          /\ at[r] = "send" \/ r \in mailbox => links[r] # "none"
          /\ link[r] # None => links[link[r]] # "none"
    /\ \A l \in Requests :
          /\ spentBy[l] # {} => links[l] = "used"
          /\ \A q, r \in spentBy[l] : q = r
    /\ \A k, l \in Requests :
          k # l /\ Pending(k) /\ Pending(l) /\ LinkKind(kind[k]) = LinkKind(kind[l])
             => k \in together[l] \/ l \in together[k]

\* One case for each of the effects a step can have on the links.
LEMMA LinksStep ==
    ASSUME TypeInv, LinksInv, NEW r \in Requests,
           Begin(r) \/ Progress(r) \/ Fault(r) \/ Elapse(r), Recorded
    PROVE  LinksInv'
<1>0. MovesOne(r)
  BY EveryStepMovesOne
<1>1. CASE LeavesLinks(r)
  <2>1. \A q, l \in Requests : ~SpendsLink(q, l)
    BY <1>0, <1>1 DEF MovesOne, LeavesLinks, SpendsLink
  <2>2. spentBy' = spentBy
    BY <2>1 DEF Recorded, LinksInv
  <2>3. together' = together
    BY <1>0, <1>1 DEF MovesOne, LeavesLinks, Recorded, LinksInv
  <2> QED
    BY <1>0, <1>1, <2>2, <2>3 DEF MovesOne, LeavesLinks, LinksInv, Pending, TypeInv, TypeOK
<1>2. CASE LinkExpires(r)
  <2>1. /\ at' = at /\ link' = link /\ kind' = kind /\ mailbox' = mailbox
        /\ links[r] = "live" /\ links' = [links EXCEPT ![r] = "expired"]
    BY <1>2 DEF LinkExpires, args
  <2>2. spentBy' = spentBy
    BY <2>1 DEF Recorded, LinksInv, SpendsLink
  <2>3. together' = together
    BY <2>1 DEF Recorded, LinksInv
  <2> QED
    BY <2>1, <2>2, <2>3 DEF LinksInv, Pending, TypeInv, TypeOK
<1>3. CASE Supersede(r)
  <2>1. /\ at[r] = "supersede" /\ at' = [at EXCEPT ![r] = "insertLink"]
        /\ links' = [l \in Requests |-> IF l \in Unspent(LinkKind(kind[r])) THEN "used" ELSE links[l]]
        /\ link' = link /\ kind' = kind /\ mailbox' = mailbox
    BY <1>3 DEF Supersede, args, Go
  <2>2. spentBy' = spentBy
    BY <2>1 DEF Recorded, LinksInv, SpendsLink, TypeInv, TypeOK
  <2>3. together' = [together EXCEPT ![r] =
            {q \in Requests : at[q] = "insertLink" /\ LinkKind(kind[q]) = LinkKind(kind[r])}]
    <3>1. \A q \in Requests : at[q] = "supersede" /\ at'[q] = "insertLink" <=> q = r
      BY <2>1 DEF TypeInv, TypeOK
    <3>2. together' = [q \in Requests |->
              IF q = r
              THEN {p \in Requests : at[p] = "insertLink" /\ LinkKind(kind[p]) = LinkKind(kind[q])}
              ELSE together[q]]
      BY <3>1, Zenon DEF Recorded
    <3> QED
      BY <3>2 DEF LinksInv
  <2>4. \A l \in Requests : /\ links'[l] = "none" <=> links[l] = "none"
                            /\ links[l] = "used" => links'[l] = "used"
                            /\ links'[l] = "live" => links[l] = "live"
                            /\ LinkKind(kind[l]) = LinkKind(kind[r]) => links'[l] # "live"
    BY <2>1 DEF Unspent, TypeInv, TypeOK
  <2>5. together' \in [Requests -> SUBSET Requests]
    BY <2>3 DEF LinksInv
  <2>6. ASSUME NEW k \in Requests, NEW l \in Requests, k # l, Pending(k)', Pending(l)',
               LinkKind(kind[k]) = LinkKind(kind[l])
        PROVE  k \in together'[l] \/ l \in together'[k]
    <3>1. CASE k = r
      BY <2>1, <2>3, <2>4, <2>6, <3>1 DEF Pending, LinksInv, TypeInv, TypeOK
    <3>2. CASE l = r
      BY <2>1, <2>3, <2>4, <2>6, <3>2 DEF Pending, LinksInv, TypeInv, TypeOK
    <3>3. CASE k # r /\ l # r
      BY <2>1, <2>3, <2>4, <2>6, <3>3 DEF Pending, LinksInv, TypeInv, TypeOK
    <3> QED
      BY <3>1, <3>2, <3>3
  <2>7. \A q \in Requests : /\ links'[q] # "none" => at'[q] \in Issued
                            /\ at'[q] = "send" \/ q \in mailbox' => links'[q] # "none"
                            /\ link'[q] # None => links'[link'[q]] # "none"
    BY <2>1, <2>4 DEF LinksInv, Issued, TypeInv, TypeOK
  <2>8. \A l \in Requests : /\ spentBy'[l] # {} => links'[l] = "used"
                            /\ \A q, s \in spentBy'[l] : q = s
    BY <2>2, <2>4 DEF LinksInv
  <2>9. spentBy' \in [Requests -> SUBSET Requests] /\ kind' = kind
    BY <2>1, <2>2 DEF LinksInv
  <2> QED
    BY <2>5, <2>6, <2>7, <2>8, <2>9 DEF LinksInv
<1>4. CASE InsertLink(r)
  <2>1. /\ at[r] = "insertLink" /\ at' = [at EXCEPT ![r] = "send"]
        /\ links' = [links EXCEPT ![r] = "live"]
        /\ link' = link /\ kind' = kind /\ mailbox' = mailbox
    BY <1>4 DEF InsertLink, args, Go
  <2>2. spentBy' = spentBy
    BY <2>1 DEF Recorded, LinksInv, SpendsLink, TypeInv, TypeOK
  <2>3. together' = together
    BY <2>1 DEF Recorded, LinksInv, TypeInv, TypeOK
  <2>4. links[r] = "none"
    BY <2>1 DEF LinksInv, Issued
  <2>5. spentBy[r] = {} /\ \A q \in Requests : Pending(q)' => Pending(q)
    BY <2>1, <2>4 DEF LinksInv, Pending, TypeInv, TypeOK
  <2>6. \A l \in Requests : /\ spentBy'[l] # {} => links'[l] = "used"
                            /\ \A q, s \in spentBy'[l] : q = s
    BY <2>1, <2>2, <2>5 DEF LinksInv, TypeInv, TypeOK
  <2>7. \A q \in Requests : /\ links'[q] # "none" => at'[q] \in Issued
                            /\ at'[q] = "send" \/ q \in mailbox' => links'[q] # "none"
                            /\ link'[q] # None => links'[link'[q]] # "none"
    BY <2>1, <2>4 DEF LinksInv, Issued, TypeInv, TypeOK
  <2> QED
    BY <2>1, <2>2, <2>3, <2>5, <2>6, <2>7 DEF LinksInv
<1>5. CASE ClaimLink(r)
  <2>0. at[r] = "claimLink" /\ link' = link /\ kind' = kind /\ mailbox' = mailbox
        /\ link[r] \in Requests
    BY <1>5 DEF ClaimLink, args, TypeInv, OnRoute, RouteOf
  <2>1. together' = together
    BY <1>0, <1>5, <2>0 DEF MovesOne, ClaimLink, Recorded, LinksInv, TypeInv, TypeOK, Go
  <2>2. CASE links[link[r]] = "used"
    <3>1. links' = links /\ at' = [at EXCEPT ![r] = "refused"]
      BY <1>5, <2>2 DEF ClaimLink, Go
    <3>2. spentBy' = spentBy
      BY <3>1 DEF Recorded, LinksInv, SpendsLink, TypeInv, TypeOK
    <3> QED
      BY <2>0, <2>1, <3>1, <3>2 DEF LinksInv, Pending, Issued, TypeInv, TypeOK
  <2>3. CASE links[link[r]] # "used"
    <3>1. /\ links' = [links EXCEPT ![link[r]] = "used"]
          /\ \E s \in {"markVerified", "setPassword"} : at' = [at EXCEPT ![r] = s]
      BY <1>5, <2>3 DEF ClaimLink, Go
    <3>2. PICK s \in {"markVerified", "setPassword"} : at' = [at EXCEPT ![r] = s]
      BY <3>1
    <3>3. spentBy' = [spentBy EXCEPT ![link[r]] = spentBy[link[r]] \cup {r}]
      <4>1. \A l \in Requests : {q \in Requests : SpendsLink(q, l)} = IF l = link[r] THEN {r} ELSE {}
        BY <2>0, <3>2 DEF SpendsLink, TypeInv, TypeOK
      <4> QED
        BY <4>1 DEF Recorded, LinksInv
    <3>4. spentBy[link[r]] = {}
      BY <2>0, <2>3 DEF LinksInv
    <3>5. \A l \in Requests : /\ spentBy'[l] # {} => links'[l] = "used"
                              /\ \A p, q \in spentBy'[l] : p = q
      BY <2>0, <3>1, <3>3, <3>4 DEF LinksInv, TypeInv, TypeOK
    <3>6. \A q \in Requests : Pending(q)' => Pending(q)
      BY <2>0, <3>1, <3>2 DEF Pending, TypeInv, TypeOK
    <3>7. \A q \in Requests : /\ links'[q] # "none" => at'[q] \in Issued
                              /\ at'[q] = "send" \/ q \in mailbox' => links'[q] # "none"
                              /\ link'[q] # None => links'[link'[q]] # "none"
      BY <2>0, <3>1, <3>2, AccountsAssumption DEF LinksInv, Issued, TypeInv, TypeOK
    <3>8. spentBy' \in [Requests -> SUBSET Requests]
      BY <2>0, <3>3 DEF LinksInv
    <3> QED
      BY <2>0, <2>1, <3>5, <3>6, <3>7, <3>8 DEF LinksInv
  <2> QED
    BY <2>2, <2>3
<1> QED
  BY <1>0, <1>1, <1>2, <1>3, <1>4, <1>5 DEF MovesOne

\* A set with at most one element in it has at most one element.
LEMMA LinksInvImplies == LinksInv => LinksAreSound
<1> SUFFICES ASSUME LinksInv PROVE LinksAreSound
  OBVIOUS
<1>1. ASSUME NEW l \in Requests PROVE Cardinality(spentBy[l]) <= 1
  <2>1. CASE spentBy[l] = {}
    BY <2>1, FS_EmptySet
  <2>2. CASE spentBy[l] # {}
    <3>1. PICK r \in spentBy[l] : TRUE
      BY <2>2
    <3>2. spentBy[l] = {r}
      BY <3>1 DEF LinksInv
    <3>3. Cardinality({r}) = 1
      BY FS_Singleton, Zenon
    <3>4. Cardinality(spentBy[l]) = 1
      BY <3>2, <3>3, Zenon
    <3> QED
      BY <3>4
  <2> QED
    BY <2>1, <2>2
<1>2. LiveTogetherIssuedTogether
  BY DEF LinksInv, Pending, LiveTogetherIssuedTogether
<1> QED
  BY <1>1, <1>2 DEF LinksAreSound, LinkSpentOnce

-----------------------------------------------------------------------------
(***************************************************************************)
(* Sessions and a reset.  A session of an earlier password is on the list  *)
(* of the missed ones, or its sign-in was, or the reset that changed the   *)
(* password has yet to end it.                                             *)
(***************************************************************************)

MissedInv ==
    /\ \A r \in Requests : at[r] = "idle" => sessions[r] = "none"
    /\ \A r \in Requests : at[r] = "startSession" /\ typed[r] # user.password => r \in missed
    /\ \/ Resetting
       \/ \A s \in Requests : sessions[s] # "none" /\ typed[s] # user.password => s \in missed

\* A step that neither makes nor ends a session nor changes the password.
LeavesSessions(r) ==
    /\ \A s \in Requests : sessions'[s] = "none" <=> sessions[s] = "none"
    /\ user'.password = user.password
    /\ at'[r] = "startSession" => at[r] = "startSession" \/ typed'[r] = user.password
    /\ at[r] = "endEverySession" => at'[r] = at[r]

\* All but seven kinds of step leave the sessions and the password as they are.
LEMMA SessionSteps ==
    ASSUME TypeInv, NEW r \in Requests, Begin(r) \/ Progress(r) \/ Fault(r) \/ Elapse(r)
    PROVE  \/ InsertUser(r) \/ StartSession(r) \/ SetPassword(r) \/ Fail(r)
           \/ EndSession(r) \/ EndEverySession(r) \/ LeavesSessions(r)
<1> SUFFICES ASSUME ~InsertUser(r), ~StartSession(r), ~SetPassword(r), ~Fail(r), ~EndSession(r),
                    ~EndEverySession(r)
             PROVE  LeavesSessions(r)
  OBVIOUS
<1> USE DEF TypeInv, TypeOK, Go, LeavesSessions
<1>2. CASE Authenticate(r)
  BY <1>2 DEF Authenticate, args, rows
<1>4. CASE Redeem(r)
  BY <1>4 DEF Redeem, args
<1>5. CASE AskForSeat(r)
  BY <1>5 DEF AskForSeat, args
<1>6. CASE Resolve(r)
  <2>1. SignedIn(r) # "startSession" /\ NotSignedIn(r) # "startSession"
    BY <1>6 DEF Resolve, SignedIn, NotSignedIn, OnRoute, RouteOf
  <2> QED
    BY <1>6, <2>1 DEF Resolve, args
<1>9. CASE FindUser(r)
  BY <1>9 DEF FindUser, args, rows
<1>10. CASE Supersede(r)
  BY <1>10 DEF Supersede, args
<1>11. CASE InsertLink(r)
  BY <1>11 DEF InsertLink, args
<1>12. CASE Send(r)
  BY <1>12 DEF Send, args, AfterMail
<1>13. CASE SelectLink(r)
  BY <1>13 DEF SelectLink, args, rows
<1>14. CASE ClaimLink(r)
  BY <1>14 DEF ClaimLink, args
<1>16. CASE MarkVerified(r)
  BY <1>16 DEF MarkVerified, args
<1>17. CASE GrantAllowance(r)
  BY <1>17 DEF GrantAllowance, args, AfterAllowance
<1>18. CASE ClaimReward(r)
  BY <1>18 DEF ClaimReward, args
<1>19. CASE PayReward(r)
  BY <1>19 DEF PayReward, args
<1>20. CASE CommitReward(r)
  BY <1>20 DEF CommitReward, args
<1>21. CASE Begin(r)
  <2>1. First[kind[r]] # "startSession"
    BY DEF First, Kinds
  <2> QED
    BY <1>21, <2>1 DEF Begin, rows
<1>22. CASE MailFails(r)
  BY <1>22 DEF MailFails, args, AfterMail, rows
<1>23. CASE RewardFails(r)
  BY <1>23 DEF RewardFails, args
<1>25. CASE Elapse(r)
  BY <1>25 DEF Elapse, Renewal, RenewalLost, LinkExpires, SessionExpires, args
<1> QED
  BY <1>2, <1>4, <1>5, <1>6, <1>9, <1>10, <1>11, <1>12, <1>13, <1>14, <1>16, <1>17, <1>18, <1>19, <1>20, <1>21, <1>22, <1>23, <1>25 DEF Progress, Fault

\* One case for each of those, and one for the rest.
LEMMA MissedStep ==
    ASSUME TypeInv, ConfirmInv, MissedInv, NEW r \in Requests,
           Begin(r) \/ Progress(r) \/ Fault(r) \/ Elapse(r), Recorded
    PROVE  MissedInv'
<1>0. MovesOne(r) /\ missed \subseteq missed'
  BY EveryStepMovesOne DEF Recorded
<1>1. CASE LeavesSessions(r)
  <2>1. Resetting => Resetting'
    BY <1>0, <1>1 DEF Resetting, MovesOne, LeavesSessions
  <2>2. \A s \in Requests : typed'[s] = typed[s] \/ sessions[s] = "none"
    BY <1>0 DEF MovesOne, MissedInv
  <2>3. \A s \in Requests : sessions'[s] # "none" /\ typed'[s] # user'.password
                               => sessions[s] # "none" /\ typed[s] # user.password
    BY <1>1, <2>2 DEF LeavesSessions
  <2>4. \A s \in Requests : at'[s] = "startSession" /\ typed'[s] # user'.password
                               => at[s] = "startSession" /\ typed[s] # user.password
    BY <1>0, <1>1 DEF LeavesSessions, MovesOne
  <2>5. \A s \in Requests : at'[s] = "idle" => sessions'[s] = "none"
    BY <1>0, <1>1 DEF LeavesSessions, MovesOne, MissedInv
  <2> QED
    BY <1>0, <2>1, <2>3, <2>4, <2>5 DEF MissedInv
<1>2. CASE InsertUser(r)
  <2>1. sessions' = sessions /\ typed' = typed /\ at[r] = "insertUser" /\ kind' = kind
    BY <1>2 DEF InsertUser, args
  <2>2. CASE typed[r] \in Strong /\ ~user.exists
    <3>1. user'.password = typed[r] /\ at' = [at EXCEPT ![r] = "startSession"]
      BY <1>2, <2>2 DEF InsertUser, Go
    <3>2. \A s \in Requests : sessions[s] = "none" /\ at[s] # "startSession"
      BY <2>2 DEF ConfirmInv, Known
    <3> QED
      BY <2>1, <3>1, <3>2 DEF MissedInv, TypeInv, TypeOK
  <2>3. CASE ~(typed[r] \in Strong /\ ~user.exists)
    <3>1. user' = user /\ at' = [at EXCEPT ![r] = "refused"]
      BY <1>2, <2>3 DEF InsertUser, Go
    <3> QED
      BY <1>0, <2>1, <3>1 DEF MissedInv, Resetting, TypeInv, TypeOK
  <2> QED
    BY <2>2, <2>3
<1>3. CASE StartSession(r)
  <2>1. /\ sessions' = [sessions EXCEPT ![r] = "live"] /\ typed' = typed /\ user' = user /\ kind' = kind
        /\ at[r] = "startSession" /\ at'[r] \in {"redeem", "askForSeat"}
        /\ \A q \in Requests : q # r => at'[q] = at[q]
    BY <1>3 DEF StartSession, args, Go, TypeInv, TypeOK
  <2>2. Resetting => Resetting'
    BY <2>1 DEF Resetting
  <2> QED
    BY <1>0, <2>1, <2>2 DEF MissedInv, TypeInv, TypeOK
<1>4. CASE SetPassword(r)
  <2>1. sessions' = sessions /\ typed' = typed /\ kind' = kind /\ at[r] = "setPassword" /\ kind[r] = "reset"
    BY <1>4 DEF SetPassword, args, TypeInv, OnRoute, RouteOf
  <2>2. CASE typed[r] \in Strong
    <3>1. /\ user'.password = typed[r] /\ at' = [at EXCEPT ![r] = "endEverySession"]
          /\ user.exists
      BY <1>4, <2>1, <2>2 DEF SetPassword, Go, TypeInv, TypeOK, ConfirmInv, Known
    <3>2. Resetting'
      BY <2>1, <3>1 DEF Resetting, TypeInv, TypeOK
    <3>3. user'.password # user.password => SigningIn \subseteq missed'
      BY <3>1 DEF Recorded
    <3> QED
      BY <1>0, <2>1, <3>1, <3>2, <3>3 DEF MissedInv, SigningIn, TypeInv, TypeOK
  <2>3. CASE typed[r] \notin Strong
    <3>1. user' = user /\ at' = [at EXCEPT ![r] = "refused"]
      BY <1>4, <2>3 DEF SetPassword, Go
    <3> QED
      BY <1>0, <2>1, <3>1 DEF MissedInv, Resetting, TypeInv, TypeOK
  <2> QED
    BY <2>2, <2>3
<1>5. CASE Fail(r)
  <2>1. /\ sessions' = sessions /\ typed' = typed /\ kind' = kind /\ user' = user
        /\ at' = [at EXCEPT ![r] = "failed"]
    BY <1>5 DEF Fail, args, Go
  <2>2. CASE BreaksOff(r)
    <3>1. {s \in Requests : sessions[s] # "none"} \subseteq missed'
      BY <2>2 DEF Recorded
    <3> QED
      BY <1>0, <2>1, <3>1 DEF MissedInv, TypeInv, TypeOK
  <2>3. CASE ~BreaksOff(r)
    <3>1. Resetting => Resetting'
      BY <2>1, <2>3 DEF Resetting, BreaksOff, TypeInv, TypeOK
    <3> QED
      BY <1>0, <2>1, <3>1 DEF MissedInv, TypeInv, TypeOK
  <2> QED
    BY <2>2, <2>3
<1>6. CASE EndSession(r)
  <2>1. /\ sessions' = [s \in Requests |-> IF s = cookie[r] THEN "none" ELSE sessions[s]]
        /\ typed' = typed /\ kind' = kind /\ user' = user
        /\ at[r] = "endSession" /\ at' = [at EXCEPT ![r] = "done"]
    BY <1>6 DEF EndSession, args, Go
  <2>2. Resetting => Resetting'
    BY <2>1 DEF Resetting, TypeInv, TypeOK
  <2> QED
    BY <1>0, <2>1, <2>2 DEF MissedInv, TypeInv, TypeOK
<1>7. CASE EndEverySession(r)
  <2>1. /\ sessions' = [s \in Requests |-> "none"]
        /\ typed' = typed /\ kind' = kind /\ user' = user
        /\ at'[r] \in {"markVerified", "done"}
    BY <1>7 DEF EndEverySession, args, Go, TypeInv, TypeOK
  <2> QED
    BY <1>0, <2>1 DEF MissedInv, MovesOne
<1> QED
  BY <1>1, <1>2, <1>3, <1>4, <1>5, <1>6, <1>7, SessionSteps

-----------------------------------------------------------------------------
(* The history variables only watch: what is proved of an account holds of the *)
(* account with its history.                                                   *)

LEMMA HistoryRefines == HSpec => Spec
<1>1. HInit => Init
  BY DEF HInit
<1>2. [HNext]_hvars => [Next]_vars
  BY DEF HNext, Next, hvars
<1> QED
  BY <1>1, <1>2, PTL DEF HSpec, Spec

LEMMA ConfirmInvariant == Spec => []ConfirmInv
BY ConfirmInit, ConfirmStep, TypeInvariant, PTL DEF Spec

LEMMA LinksStart == HInit => LinksInv
BY AccountsAssumption DEF HInit, Init, LinksInv, Pending

LEMMA LinksInvariant == HSpec => []LinksInv
<1>1. ASSUME TypeInv, LinksInv, [HNext]_hvars
      PROVE  LinksInv'
  <2>1. CASE UNCHANGED hvars
    BY <1>1, <2>1 DEF hvars, vars, rows, args, LinksInv, Pending
  <2>2. CASE HNext
    BY <1>1, <2>2, LinksStep DEF HNext
  <2> QED
    BY <1>1, <2>1, <2>2
<1> QED
  BY <1>1, LinksStart, HistoryRefines, TypeInvariant, PTL DEF HSpec

\* A link lets one request through however many follow it at once, and only the
\* last link of its kind that was issued does, whatever fails on the way to the
\* mailbox (email-tokens.ts).
THEOREM LinksAreSpentOnce == HSpec => []LinksAreSound
BY LinksInvariant, LinksInvImplies, PTL

LEMMA MissedStarts == HInit => MissedInv
BY DEF HInit, Init, MissedInv

\* A session opened with an earlier password outlives a reset only if its sign-in
\* had read that password when it changed, or the reset broke off between its two
\* statements (auth-routes.ts).
THEOREM ResetsEndSessions == HSpec => []OnlyRacersOutliveAReset
<1>1. ASSUME TypeInv, ConfirmInv, MissedInv, [HNext]_hvars
      PROVE  MissedInv'
  <2>1. CASE UNCHANGED hvars
    BY <1>1, <2>1 DEF hvars, vars, rows, args, MissedInv, Resetting
  <2>2. CASE HNext
    BY <1>1, <2>2, MissedStep DEF HNext
  <2> QED
    BY <1>1, <2>1, <2>2
<1>2. MissedInv => OnlyRacersOutliveAReset
  BY DEF MissedInv, OnlyRacersOutliveAReset, Outdated
<1> QED
  BY <1>1, <1>2, MissedStarts, HistoryRefines, TypeInvariant, ConfirmInvariant, PTL DEF HSpec
=============================================================================
