---------------------------- MODULE AccessClient ----------------------------
(***************************************************************************)
(* The studio's seat client: apps/studio/src/useAccess.ts, usePresence.ts, *)
(* the screens of panels/AccessGate.tsx and the routes of App.tsx, against *)
(* the seat of one account as packages/accounts/src/access.ts keeps it.    *)
(*                                                                         *)
(* A page sends calls and may be answered out of order, late or not at     *)
(* all.  Nothing tells it that it has a seat or has lost it but the answer *)
(* to a heartbeat, and nothing tells the service that it is still there    *)
(* but a heartbeat.  Time passes in ticks; every window is a number of     *)
(* them.  The seat is Access seen by one account: everybody else is the    *)
(* variable `room`, whether a seat is free for it.                         *)
(***************************************************************************)
EXTENDS Integers

CONSTANTS
    Calls,          \* the calls the page may have in flight
    BeatActive,     \* ticks between heartbeats with a seat
    BeatQueued,     \* ticks between heartbeats in the line
    WarnFrom,       \* ticks without input after which a warning counts down
    IdleAfter,      \* ticks without input after which nobody is there
    Grace,          \* ticks of silence after which the service takes a seat
    Delay,          \* ticks a call may be on its way, there and back together
    MaxFaults       \* bound: calls lost, calls refused and repaints

ASSUME ClientAssumption ==
    /\ BeatActive \in Nat \ {0}
    /\ BeatQueued \in Nat \ {0}
    /\ WarnFrom \in Nat
    /\ IdleAfter \in Nat
    /\ Grace \in Nat
    /\ Delay \in Nat
    /\ MaxFaults \in Nat

VARIABLES
    \* the page
    route,     \* what the address bar asks for
    phase,     \* what the gate believes: "loading", "unreachable", "signed-out",
               \* "unverified", "idle", "queued" or "active"
    who,       \* the user it has: "nobody", "unverified" or "verified"
    calls,     \* what it has asked and not been answered
    beatIn,    \* ticks until the heartbeat timer fires
    input,     \* ticks since the last input
    hidden,    \* the tab is not the one being looked at
    \* the service
    cookie,    \* the page's session is a session
    verified,  \* the account's address is confirmed
    seat,      \* its row in `access`, the stamps as ages
    room,      \* a seat is free for it, should it be in line
    \* bounds and history
    faults,    \* faults and repaints so far
    left,      \* signed out, and neither signed in nor asked again since
    reopened,  \* a join begun before that sign-out has been answered
    steady,    \* the last heartbeat of this workspace was heard, and nothing
               \* but its own answer has started the timer again
    misses     \* heartbeats not answered properly since one was heard

page    == <<route, phase, who, beatIn, input, hidden>>
service == <<cookie, verified, seat, room>>
history == <<left, reopened, steady, misses>>
cvars   == <<page, calls, service, faults, history>>

\* "changed" is the reset landing once the new password is set.
Routes == {"landing", "app", "verify", "reset", "changed"}

(***************************************************************************)
(* A call: whether its answer will be taken, the user its closure holds,   *)
(* its age, and the answer once there is one.  A heartbeat also says       *)
(* whether anybody is there.                                               *)
(***************************************************************************)
Waiting == [word |-> "none"]
Call(kind) ==
    [kind |-> kind, live |-> TRUE, as |-> IF kind \in {"join", "beat"} THEN who ELSE "nobody",
     present |-> FALSE, age |-> 0, answer |-> Waiting]
BeatCall(present) == [Call("beat") EXCEPT !.present = present]
NoCall == [kind |-> "none"]

NoSeat == [state |-> "idle", unheard |-> 0, unused |-> 0]

UpTo(n, bound) == IF n <= bound THEN n ELSE bound

-----------------------------------------------------------------------------
(* The service.                                                            *)

\* The seat of the account after reconcile(), with the room it leaves for it:
\* a seat given up may go to somebody who is ahead in line.
Lapse(s) ==
    IF s.seat.state = "active"
    THEN (IF s.seat.unheard > Grace THEN {} ELSE {s})
           \cup {[seat |-> NoSeat, room |-> r] : r \in BOOLEAN}
    ELSE {s}

Bump(s) ==
    IF s.seat.state = "active" /\ s.seat.unused > IdleAfter
    THEN {[seat |-> [s.seat EXCEPT !.state = "queued", !.unused = 0], room |-> r] : r \in BOOLEAN}
    ELSE {s}

Drop(s) ==
    IF s.seat.state = "queued" /\ s.seat.unheard > Grace
    THEN [s EXCEPT !.seat = NoSeat] ELSE s

Admit(s) ==
    IF s.seat.state = "queued" /\ s.room
    THEN [seat |-> [state |-> "active", unheard |-> 0, unused |-> 0], room |-> FALSE] ELSE s

Reconciled(s) == {Admit(Drop(b)) : b \in UNION {Bump(l) : l \in Lapse(s)}}

Here == [seat |-> seat, room |-> room]

Asked(s) ==
    IF s.seat.state = "idle"
    THEN [s EXCEPT !.seat = [state |-> "queued", unheard |-> 0, unused |-> 0]] ELSE s

\* A queued account's last use is never looked at, so its age is not kept.
Beaten(s, present) ==
    IF s.seat.state = "idle" THEN s
    ELSE [s EXCEPT !.seat.unheard = 0,
                   !.seat.unused = IF present THEN 0 ELSE @]

\* Every state request(), heartbeat() or release() may leave.
AfterRequest == UNION {Reconciled(Asked(s)) : s \in Reconciled(Here)}
AfterBeat(present) == UNION {Reconciled(Beaten(s, present)) : s \in Reconciled(Here)}
AfterRelease ==
    UNION {{[seat |-> NoSeat, room |-> r] : r \in IF s.seat.state = "active" THEN BOOLEAN ELSE {s.room}}
             : s \in Reconciled(Here)}

Account(isVerified) == IF isVerified THEN "verified" ELSE "unverified"

Session(person, state) == [word |-> "session", who |-> person, state |-> state]
Status(state)          == [word |-> "status", state |-> state]
Word(w)                == [word |-> w]

\* A seat is only ever asked for by a confirmed account.
SeatFor(isVerified) == IF isVerified THEN AfterRequest ELSE Reconciled(Here)

\* An answer nobody will take (an earlier refresh's, a cancelled beat's, one for a
\* page that has gone) need not be kept.
AnswerWith(c, answer) ==
    calls' = [calls EXCEPT ![c] =
                IF @.live THEN [@ EXCEPT !.answer = answer, !.present = FALSE] ELSE NoCall]

SetSeat(s) == seat' = s.seat /\ room' = s.room

ServeRefresh(c) ==
    /\ calls[c].kind = "refresh"
    /\ \/ /\ cookie
          /\ \E s \in Reconciled(Here) :
                SetSeat(s) /\ AnswerWith(c, Session(Account(verified), s.seat.state))
       \/ /\ ~cookie
          /\ AnswerWith(c, Session("nobody", "none"))
          /\ UNCHANGED <<seat, room>>
    /\ UNCHANGED <<cookie, verified>>

ServeJoin(c) ==
    /\ calls[c].kind = "join" /\ cookie
    /\ \E s \in SeatFor(verified) :
        /\ SetSeat(s)
        /\ AnswerWith(c, IF verified THEN Status(s.seat.state) ELSE Word("refused"))
    /\ UNCHANGED <<cookie, verified>>

ServeBeat(c) ==
    /\ calls[c].kind = "beat" /\ cookie
    /\ \E s \in AfterBeat(calls[c].present) : SetSeat(s) /\ AnswerWith(c, Status(s.seat.state))
    /\ UNCHANGED <<cookie, verified>>

\* requireUser(): 401.
ServeStranger(c) ==
    /\ calls[c].kind \in {"join", "beat"} /\ ~cookie
    /\ AnswerWith(c, Word("denied"))
    /\ UNCHANGED service

ServeLogout(c) ==
    /\ calls[c].kind = "logout"
    /\ \/ cookie /\ \E s \in AfterRelease : SetSeat(s)
       \/ ~cookie /\ UNCHANGED <<seat, room>>
    /\ cookie' = FALSE
    /\ AnswerWith(c, Word("ok"))
    /\ UNCHANGED verified

\* POST /auth/login; a registration differs in that its account is unverified.
ServeSignIn(c) ==
    /\ calls[c].kind = "signin"
    /\ cookie' = TRUE
    /\ \E s \in SeatFor(verified) :
        SetSeat(s) /\ AnswerWith(c, Session(Account(verified), s.seat.state))
    /\ UNCHANGED verified

\* The link's owner is reported whether or not this browser is signed in; the
\* seat is asked for, and reported, only if it is.
ServeVerify(c) ==
    /\ calls[c].kind = "verify"
    /\ \/ /\ cookie
          /\ \E s \in AfterRequest : SetSeat(s) /\ AnswerWith(c, Session("verified", s.seat.state))
       \/ /\ ~cookie
          /\ AnswerWith(c, Session("verified", "none"))
          /\ UNCHANGED <<seat, room>>
    /\ verified' = TRUE
    /\ UNCHANGED cookie

\* Every session is ended; the seat is left to its grace.
ServeReset(c) ==
    /\ calls[c].kind = "reset"
    /\ cookie' = FALSE
    /\ verified' = TRUE
    /\ AnswerWith(c, Word("ok"))
    /\ UNCHANGED <<seat, room>>

Unserved(c) == calls[c] # NoCall /\ calls[c].answer = Waiting

Heard(c) == calls[c].kind = "beat" /\ cookie

Serve(c) ==
    /\ Unserved(c)
    /\ \/ ServeRefresh(c) \/ ServeJoin(c) \/ ServeBeat(c) \/ ServeStranger(c)
       \/ ServeLogout(c) \/ ServeSignIn(c) \/ ServeVerify(c) \/ ServeReset(c)
    /\ steady' = IF Heard(c) THEN phase = "active" /\ calls[c].live ELSE steady
    /\ misses' = IF Heard(c) THEN 0 ELSE misses
    /\ UNCHANGED <<page, faults, left, reopened>>

-----------------------------------------------------------------------------
(* The page: what a render does.                                           *)

Beating(p) == p \in {"active", "queued"}

\* Mutant: a heartbeat only when the grace is nearly over.
EverySlow(p) == IF p = "active" THEN Grace + 1 ELSE BeatQueued

Every(p) == IF p = "active" THEN BeatActive ELSE BeatQueued

\* Milliseconds shown in the warning, or -1 for none.
Warning(p, out, since) ==
    IF p = "active" /\ ~out /\ since >= WarnFrom THEN IdleAfter - since ELSE -1

\* The call goes on; its answer will be dropped.
Orphan(call) == IF call.answer = Waiting THEN [call EXCEPT !.live = FALSE] ELSE NoCall

Cancelled(cs, kind) ==
    [c \in Calls |-> IF cs[c].kind = kind THEN Orphan(cs[c]) ELSE cs[c]]

\* usePresence() returns a new object each time, and the heartbeat effect
\* depends on it: every render of the hook drops the beat in flight and starts
\* the interval again.
Rendered(p, cs) ==
    /\ calls' = Cancelled(cs, "beat")
    /\ beatIn' = IF Beating(p) THEN Every(p) ELSE 0

\* The same render leaves another screen, or the same one with a new answer.
\* The idle clock starts with the seat.
Show(p, person, cs) ==
    /\ phase' = p
    /\ who' = person
    /\ input' = IF p = "active" /\ phase = "active" THEN input ELSE 0
    /\ Rendered(p, cs)

PhaseOf(person, state) ==
    CASE person = "nobody"     -> "signed-out"
      [] person = "unverified" -> "unverified"
      [] OTHER                 -> IF state = "none" THEN "idle" ELSE state

Without(c) == [calls EXCEPT ![c] = NoCall]
Put(cs, c, call) == [cs EXCEPT ![c] = call]

\* ++generation: the refresh in flight is no longer the latest.
Refreshing(c, cs) == Put(Cancelled(cs, "refresh"), c, Call("refresh"))

\* Mutant: signing out leaves the generation alone.
SignedOutQuietly(cs) == cs

SignedOut(cs) == Cancelled(cs, "refresh")

\* The next call takes the first free place.
Free(c) == calls[c] = NoCall /\ \A d \in Calls : calls[d] = NoCall => c <= d

-----------------------------------------------------------------------------
(* The page: answers.                                                      *)

NotSteady == steady' = FALSE /\ misses' = 0

\* There is a heartbeat to be steady only with a workspace, or with what a
\* failed beat made of it.
StillSteady ==
    /\ steady' = (steady /\ phase' \in {"active", "unreachable"})
    /\ misses' = IF steady' THEN misses ELSE 0

RefreshAnswered(c, a) ==
    /\ calls[c].kind = "refresh"
    /\ \/ a.word = "session" /\ Show(PhaseOf(a.who, a.state), a.who, Without(c))
       \/ a.word = "unreachable" /\ Show("unreachable", who, Without(c))
       \/ a.word = "error" /\ Show("signed-out", who, Without(c))
    /\ UNCHANGED <<left, reopened>>

\* adopt(): of a sign-in, or of the link that was just spent.
Adopted(c, a) ==
    /\ calls[c].kind \in {"signin", "verify"}
    /\ a.word = "session"
    /\ Show(PhaseOf(a.who, a.state), a.who, Cancelled(Without(c), "refresh"))
    /\ left' = FALSE
    /\ UNCHANGED reopened

\* A sign-in, verification or reset refused says so on its own screen.
FormRefused(c, a) ==
    /\ calls[c].kind \in {"signin", "verify", "reset"}
    /\ a.word \in {"unreachable", "error"}
    /\ calls' = Without(c)
    /\ UNCHANGED <<phase, who, input, beatIn, left, reopened>>

ResetAnswered(c, a) ==
    /\ calls[c].kind = "reset" /\ a.word = "ok"
    /\ calls' = Refreshing(c, calls)
    /\ left' = FALSE
    /\ UNCHANGED <<phase, who, input, beatIn, reopened>>

\* join() has no generation and the user of the render it was clicked in; a
\* refusal asks where we stand.
JoinAnswered(c, a) ==
    /\ calls[c].kind = "join"
    /\ \/ a.word = "status" /\ Show(PhaseOf(calls[c].as, a.state), who, Without(c))
       \/ a.word # "status" /\ Show(phase, who, Refreshing(c, calls))
    /\ reopened' = (reopened \/ left)
    /\ UNCHANGED left

LogoutAnswered(c) ==
    /\ calls[c].kind = "logout"
    /\ Show("signed-out", "nobody", SignedOut(Without(c)))
    /\ left' = TRUE
    /\ reopened' = FALSE

BeatAnswered(c, a) ==
    /\ calls[c].kind = "beat"
    /\ \/ a.word = "status" /\ Show(PhaseOf(calls[c].as, a.state), who, Without(c))
       \/ a.word = "unreachable" /\ Show("unreachable", who, Without(c))
       \/ a.word = "denied" /\ Show("signed-out", "nobody", Without(c))
       \/ /\ a.word = "error"
          /\ calls' = Without(c)
          /\ UNCHANGED <<phase, who, input, beatIn>>
    /\ UNCHANGED <<left, reopened>>

Answered(c) ==
    /\ calls[c] # NoCall
    /\ calls[c].answer # Waiting
    /\ LET a == calls[c].answer
       IN  \/ /\ \/ RefreshAnswered(c, a) \/ Adopted(c, a) \/ ResetAnswered(c, a)
                 \/ JoinAnswered(c, a) \/ LogoutAnswered(c)
              /\ NotSteady
           \/ /\ BeatAnswered(c, a) \/ FormRefused(c, a)
              /\ StillSteady
    /\ route' = IF calls[c].kind = "reset" /\ calls[c].answer.word = "ok" THEN "changed" ELSE route
    /\ UNCHANGED <<hidden, service, faults>>

-----------------------------------------------------------------------------
(* The page: what people do.                                               *)

Asks(c, kind) == Free(c) /\ calls' = Put(calls, c, Call(kind))

InFlight(kind) == \E c \in Calls : calls[c].kind = kind

OnScreen(p) == route = "app" /\ phase = p

\* Start a session; the button is disabled while the answer is awaited.
Join(c) ==
    /\ OnScreen("idle") /\ ~InFlight("join")
    /\ Asks(c, "join")
    /\ UNCHANGED <<page, service, faults, history>>

\* Offered by the line, the ready and the confirmation screen and the studio.
SignOut(c) ==
    /\ route = "app" /\ phase \in {"idle", "queued", "unverified", "active"}
    /\ ~InFlight("logout")
    /\ Asks(c, "logout")
    /\ UNCHANGED <<page, service, faults, history>>

SignIn(c) ==
    /\ OnScreen("signed-out") /\ ~InFlight("signin")
    /\ Asks(c, "signin")
    /\ left' = FALSE
    /\ UNCHANGED <<page, service, faults, reopened, steady, misses>>

Retry(c) ==
    /\ OnScreen("unreachable")
    /\ Free(c) /\ calls' = Refreshing(c, calls)
    /\ left' = FALSE
    /\ UNCHANGED <<page, service, faults, reopened, steady, misses>>

ChoosePassword(c) ==
    /\ route = "reset" /\ ~InFlight("reset")
    /\ Asks(c, "reset")
    /\ UNCHANGED <<page, service, faults, history>>

\* Gated is mounted: nothing is known and the session is asked for.
Enter(c) ==
    /\ route = "landing"
    /\ route' = "app"
    /\ phase' = "loading" /\ who' = "nobody" /\ beatIn' = 0 /\ input' = 0
    /\ Free(c) /\ calls' = Put(calls, c, Call("refresh"))
    /\ left' = FALSE
    /\ NotSteady
    /\ UNCHANGED <<hidden, service, faults, reopened>>

\* Back, or a reload: what was asked is answered to nobody.
Leave ==
    /\ route = "app"
    /\ route' = "landing"
    /\ phase' = "loading" /\ who' = "nobody" /\ beatIn' = 0 /\ input' = 0
    /\ calls' = [c \in Calls |-> IF calls[c] = NoCall THEN NoCall ELSE Orphan(calls[c])]
    /\ left' = FALSE
    /\ NotSteady
    /\ UNCHANGED <<hidden, service, faults, reopened>>

\* The landing of a link gives way to the app: by itself once it has worked,
\* by Continue or Sign in, with a refresh, otherwise.  The gate stays mounted.
LandingDone(c) ==
    /\ route \in {"verify", "changed"} /\ ~InFlight(route)
    /\ route' = "app"
    /\ \/ /\ route = "verify" /\ who = "verified"
          /\ UNCHANGED <<calls, left>>
       \/ /\ Free(c) /\ calls' = Refreshing(c, calls)
          /\ left' = FALSE
    /\ UNCHANGED <<phase, who, beatIn, input, hidden, service, faults, reopened, steady, misses>>

\* The presence tick notices within a second; a changed warning is a render.
Noticed(out, since) ==
    IF Warning(phase, out, since) # Warning(phase, hidden, input)
    THEN Rendered(phase, calls) /\ NotSteady
    ELSE UNCHANGED <<calls, beatIn, steady, misses>>

Touch ==
    /\ phase = "active" /\ ~hidden /\ input > 0
    /\ input' = 0
    /\ Noticed(hidden, 0)
    /\ UNCHANGED <<route, phase, who, hidden, service, faults, left, reopened>>

Hide ==
    /\ phase = "active" /\ ~hidden
    /\ hidden' = TRUE
    /\ Noticed(TRUE, input)
    /\ UNCHANGED <<route, phase, who, input, service, faults, left, reopened>>

Return ==
    /\ hidden
    /\ hidden' = FALSE
    /\ input' = 0
    /\ UNCHANGED <<route, phase, who, beatIn, calls, service, faults, history>>

-----------------------------------------------------------------------------
(* The timer, the clock, the network and everybody else.                   *)

Due == Beating(phase) /\ beatIn = 0

\* Mutant: nobody beats for a place in the line.
BeatSeated(c) ==
    /\ phase = "active" /\ beatIn = 0 /\ Free(c)
    /\ calls' = Put(calls, c, BeatCall(~hidden /\ input < IdleAfter))
    /\ beatIn' = Every(phase)
    /\ UNCHANGED <<route, phase, who, input, hidden, service, faults, history>>

\* In the line one is always present: waiting is not idling.
Beat(c) ==
    /\ Due /\ Free(c)
    /\ calls' = Put(calls, c, BeatCall(phase = "queued" \/ (~hidden /\ input < IdleAfter)))
    /\ beatIn' = Every(phase)
    /\ UNCHANGED <<route, phase, who, input, hidden, service, faults, history>>

Older(cs) == [c \in Calls |-> IF cs[c] = NoCall THEN NoCall ELSE [cs[c] EXCEPT !.age = @ + 1]]

Tick ==
    LET since == IF phase = "active" THEN UpTo(input + 1, IdleAfter) ELSE 0
        warned == Warning(phase, hidden, since) # Warning(phase, hidden, input)
    IN  /\ ~(Due /\ \E c \in Calls : Free(c))
        /\ \A c \in Calls : calls[c] # NoCall => calls[c].age < Delay
        /\ input' = since
        /\ IF warned
           THEN Rendered(phase, Older(calls)) /\ NotSteady
           ELSE /\ calls' = Older(calls)
                /\ beatIn' = IF Beating(phase) /\ beatIn > 0 THEN beatIn - 1 ELSE beatIn
                /\ UNCHANGED <<steady, misses>>
        /\ seat' = IF seat.state = "idle" THEN seat
                   ELSE [seat EXCEPT !.unheard = UpTo(@ + 1, Grace + 1),
                                     !.unused = IF seat.state = "active"
                                                THEN UpTo(@ + 1, IdleAfter + 1) ELSE 0]
        /\ UNCHANGED <<route, phase, who, hidden, cookie, verified, room, faults, left, reopened>>

Missed(c) == IF calls[c].kind = "beat" /\ steady THEN UpTo(misses + 1, 2) ELSE misses

\* The request or its answer does not arrive.
Lose(c) ==
    /\ calls[c] # NoCall /\ faults < MaxFaults
    /\ calls[c].answer # Word("unreachable")
    /\ AnswerWith(c, Word("unreachable"))
    /\ misses' = Missed(c)
    /\ faults' = faults + 1
    /\ UNCHANGED <<page, service, left, reopened, steady>>

\* 429 or 500, or a wrong password or link.
Refuse(c) ==
    /\ Unserved(c) /\ faults < MaxFaults
    /\ AnswerWith(c, Word("error"))
    /\ misses' = Missed(c)
    /\ faults' = faults + 1
    /\ UNCHANGED <<page, service, left, reopened, steady>>

\* App renders for a reason of its own: the theme.
Repaint ==
    /\ Beating(phase) /\ faults < MaxFaults
    /\ Rendered(phase, calls)
    /\ NotSteady
    /\ faults' = faults + 1
    /\ UNCHANGED <<route, phase, who, input, hidden, service, left, reopened>>

\* Somebody else's operation reconciles the whole table.
OthersReconcile ==
    /\ \E s \in Reconciled(Here) : SetSeat(s)
    /\ UNCHANGED <<page, calls, cookie, verified, faults, history>>

\* Somebody leaves a seat that this account would be next for.
MakeRoom ==
    /\ ~room /\ seat.state # "active"
    /\ room' = TRUE
    /\ UNCHANGED <<page, calls, cookie, verified, seat, faults, history>>

\* Who comes later takes a free seat, but never ahead of the line.
TakeRoom ==
    /\ room /\ seat.state # "queued"
    /\ room' = FALSE
    /\ UNCHANGED <<page, calls, cookie, verified, seat, faults, history>>

\* Expired, or ended from another browser.
SessionEnds ==
    /\ cookie /\ cookie' = FALSE
    /\ UNCHANGED <<page, calls, verified, seat, room, faults, history>>

\* The link is opened elsewhere; in a browser signed in it asks for the seat.
VerifiedElsewhere ==
    /\ ~verified /\ verified' = TRUE
    /\ \/ UNCHANGED <<seat, room>>
       \/ \E s \in AfterRequest : SetSeat(s)
    /\ UNCHANGED <<page, calls, cookie, faults, history>>

-----------------------------------------------------------------------------
Mounted(r) ==
    LET first == CHOOSE c \in Calls : TRUE
        asked == Call("refresh")
    IN  CASE r = "landing" -> [c \in Calls |-> NoCall]
          [] r = "verify"  -> [c \in Calls |-> IF c = first THEN [asked EXCEPT !.kind = "verify"]
                                               ELSE asked]
          [] OTHER         -> [c \in Calls |-> IF c = first THEN asked ELSE NoCall]

Init ==
    /\ route \in Routes \ {"changed"} /\ phase = "loading" /\ who = "nobody"
    /\ beatIn = 0 /\ input = 0 /\ hidden = FALSE
    /\ calls = Mounted(route)
    /\ cookie \in BOOLEAN /\ verified \in BOOLEAN
    /\ seat = NoSeat /\ room \in BOOLEAN
    /\ faults = 0
    /\ left = FALSE /\ reopened = FALSE /\ steady = FALSE /\ misses = 0

Next ==
    \/ Tick \/ Touch \/ Hide \/ Return \/ Leave \/ Repaint
    \/ OthersReconcile \/ MakeRoom \/ TakeRoom \/ SessionEnds \/ VerifiedElsewhere
    \/ \E c \in Calls :
        \/ Serve(c) \/ Answered(c) \/ Lose(c) \/ Refuse(c) \/ Beat(c)
        \/ Join(c) \/ SignOut(c) \/ SignIn(c) \/ Retry(c) \/ ChoosePassword(c)
        \/ Enter(c) \/ LandingDone(c)

(***************************************************************************)
(* Time passes and the browser's timers fire whatever else the page does   *)
(* in between (strong: a call in flight disables both for a moment), a     *)
(* call ends one way or another, and hours end, so a seat comes free for   *)
(* whoever is next in line (Access seats them in order).                   *)
(***************************************************************************)
Fairness ==
    /\ SF_cvars(Tick) /\ SF_cvars(\E c \in Calls : Beat(c)) /\ WF_cvars(MakeRoom)
    /\ \A c \in Calls : WF_cvars(Serve(c)) /\ WF_cvars(Answered(c))

CSpec == Init /\ [][Next]_cvars /\ Fairness

-----------------------------------------------------------------------------
(* Properties.                                                             *)

\* Signing out stays signed out, whatever was in flight and comes back later,
\* until somebody asks again; the one exception is a join begun before it,
\* which has no generation to be checked against.
SignedOutStaysOut == left => phase = "signed-out" \/ reopened

\* While the workspace is on screen and its heartbeat is undisturbed, the
\* service never takes the seat for silence, even if one beat is refused.
SteadyTabKeepsSeat ==
    [][steady /\ misses <= 1 /\ phase = "active"
          /\ seat.state = "active" /\ seat'.state # "active" => seat.unheard <= Grace]_cvars

\* Nobody is left watching the line: it lets them in, or tells them otherwise.
TheLineMovesOn == phase = "queued" ~> phase # "queued"
=============================================================================
