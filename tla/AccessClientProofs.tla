-------------------------- MODULE AccessClientProofs --------------------------
(* Proofs about the studio's seat client, for any number of calls in flight,   *)
(* any intervals and windows and any number of faults.                         *)
EXTENDS AccessClient, TLAPS

-------------------------------------------------------------------------------
(* What is kept of a seat and of a call.                                       *)

People == {"nobody", "unverified", "verified"}
Standings == {"idle", "queued", "active"}
Places == [state : Standings, unheard : Nat, unused : Nat]
Positions == [seat : Places, room : BOOLEAN]

Kinds == {"refresh", "join", "beat", "logout", "signin", "verify", "reset"}
Answers ==
    [word : {"none", "refused", "denied", "ok", "unreachable", "error"}]
    \cup [word : {"session"}, who : People, state : Standings \cup {"none"}]
    \cup [word : {"status"}, state : Standings]
CallRecords ==
    [kind : Kinds, live : BOOLEAN, as : People, present : BOOLEAN, age : Nat, answer : Answers]

(* Only an answer that will be taken is kept.                                  *)
Sound(call) == call = NoCall \/ (call \in CallRecords /\ (call.answer # Waiting => call.live))
Talk == [Calls -> CallRecords \cup {NoCall}]
SoundTalk(cs) == cs \in Talk /\ \A c \in Calls : Sound(cs[c])

(* No answer is awaited that says where the account stands.                    *)
Quiet(call) == call.kind \in {"refresh", "beat"} => ~call.live
Hushed(cs) == \A c \in Calls : Quiet(cs[c])

ClientInv ==
    /\ seat \in Places /\ room \in BOOLEAN /\ who \in People
    /\ SoundTalk(calls)
    /\ left \in BOOLEAN /\ reopened \in BOOLEAN
    /\ left /\ ~reopened => phase = "signed-out" /\ Hushed(calls)

-------------------------------------------------------------------------------
(* The service: whatever it does it leaves a seat and room, and knows where    *)
(* the account stands.                                                         *)

LEMMA ReconciledIsTyped ==
    ASSUME NEW s \in Positions
    PROVE  Reconciled(s) \subseteq Positions
<1>1. NoSeat \in Places
  BY DEF NoSeat, Places, Standings
<1>2. Lapse(s) \subseteq Positions
  BY <1>1 DEF Lapse, Positions
<1>3. \A l \in Positions : Bump(l) \subseteq Positions
  <2> SUFFICES ASSUME NEW l \in Positions
               PROVE  Bump(l) \subseteq Positions
    OBVIOUS
  <2>1. l.seat \in Places
    BY DEF Positions
  <2>2. [l.seat EXCEPT !.state = "queued", !.unused = 0] \in Places
    BY <2>1 DEF Places, Standings
  <2>3. QED
    BY <2>2 DEF Bump, Positions
<1>4. \A b \in Positions : Drop(b) \in Positions
  BY <1>1 DEF Drop, Positions
<1>5. \A b \in Positions : Admit(b) \in Positions
  <2>1. [state |-> "active", unheard |-> 0, unused |-> 0] \in Places
    BY DEF Places, Standings
  <2>2. QED
    BY <2>1 DEF Admit, Positions
<1>6. QED
  BY <1>2, <1>3, <1>4, <1>5 DEF Reconciled

LEMMA AskedIsTyped ==
    ASSUME NEW s \in Positions
    PROVE  Asked(s) \in Positions
<1>1. [state |-> "queued", unheard |-> 0, unused |-> 0] \in Places
  BY DEF Places, Standings
<1>2. QED
  BY <1>1 DEF Asked, Positions

LEMMA BeatenIsTyped ==
    ASSUME NEW s \in Positions, NEW present \in BOOLEAN
    PROVE  Beaten(s, present) \in Positions
<1>1. CASE s.seat.state = "idle"
  BY <1>1 DEF Beaten
<1>2. CASE s.seat.state # "idle"
  <2> DEFINE unused == IF present THEN 0 ELSE s.seat.unused
             heard == [s.seat EXCEPT !.unheard = 0, !.unused = unused]
  <2>1. unused \in Nat
    BY DEF Positions, Places
  <2> HIDE DEF unused
  <2>2. heard \in Places
    <3>1. s.seat \in Places
      BY DEF Positions
    <3>2. QED
      BY <2>1, <3>1 DEF Places
  <2>3. Beaten(s, present) = [s EXCEPT !.seat = heard]
    BY <1>2 DEF Beaten, Positions, Places, unused
  <2> HIDE DEF heard
  <2>4. QED
    BY <2>2, <2>3 DEF Positions
<1>3. QED
  BY <1>1, <1>2

(* Every state an operation may leave.                                         *)
LEMMA OperationsAreTyped ==
    ASSUME seat \in Places, room \in BOOLEAN
    PROVE  /\ Reconciled(Here) \subseteq Positions /\ AfterRequest \subseteq Positions
           /\ AfterRelease \subseteq Positions
           /\ \A present \in BOOLEAN : AfterBeat(present) \subseteq Positions
<1>1. Here \in Positions
  BY DEF Here, Positions
<1>2. Reconciled(Here) \subseteq Positions
  BY <1>1, ReconciledIsTyped
<1>3. AfterRequest \subseteq Positions
  BY <1>2, AskedIsTyped, ReconciledIsTyped DEF AfterRequest
<1>4. \A present \in BOOLEAN : AfterBeat(present) \subseteq Positions
  BY <1>2, BeatenIsTyped, ReconciledIsTyped DEF AfterBeat
<1>5. AfterRelease \subseteq Positions
  <2>1. NoSeat \in Places
    BY DEF NoSeat, Places, Standings
  <2>2. QED
    BY <1>2, <2>1 DEF AfterRelease, Positions
<1>6. QED
  BY <1>2, <1>3, <1>4, <1>5

-------------------------------------------------------------------------------
(* The calls in flight.                                                        *)

LEMMA CallsAreFresh ==
    ASSUME who \in People, NEW kind \in Kinds
    PROVE  /\ Call(kind) \in CallRecords
           /\ Call(kind).kind = kind /\ Call(kind).answer = Waiting
<1>1. Waiting \in Answers
  BY DEF Waiting, Answers
<1>2. QED
  BY <1>1 DEF Call, CallRecords, People, Kinds

LEMMA BeatsAreFresh ==
    ASSUME who \in People, NEW present \in BOOLEAN
    PROVE  BeatCall(present) \in CallRecords /\ BeatCall(present).answer = Waiting
<1>1. Call("beat") \in CallRecords /\ Call("beat").answer = Waiting
  BY CallsAreFresh DEF Kinds
<1>2. QED
  BY <1>1 DEF BeatCall, CallRecords

LEMMA NothingIsQuiet ==
    Sound(NoCall) /\ Quiet(NoCall) /\ NoCall.kind = "none"
<1>1. NoCall.kind = "none"
  BY DEF NoCall
<1>2. Quiet(NoCall)
  BY <1>1 DEF Quiet
<1>3. Sound(NoCall)
  BY DEF Sound
<1>4. QED
  BY <1>1, <1>2, <1>3

LEMMA OrphansAreSound ==
    ASSUME NEW call \in CallRecords
    PROVE  /\ Orphan(call) \in CallRecords \cup {NoCall} /\ Sound(Orphan(call)) /\ Quiet(Orphan(call))
           /\ Orphan(call).kind \in {call.kind, "none"}
<1>1. CASE call.answer = Waiting
  BY <1>1 DEF Orphan, CallRecords, Sound, Quiet
<1>2. CASE call.answer # Waiting
  BY <1>2, NothingIsQuiet DEF Orphan
<1>3. QED
  BY <1>1, <1>2

(* Cancelled: what was asked is answered to nobody.                            *)
LEMMA CancelledIsSound ==
    ASSUME NEW cs, SoundTalk(cs), NEW kind \in Kinds
    PROVE  /\ SoundTalk(Cancelled(cs, kind))
           /\ Hushed(cs) => Hushed(Cancelled(cs, kind))
           /\ \A c \in Calls : /\ Cancelled(cs, kind)[c].kind = kind => Quiet(Cancelled(cs, kind)[c])
                               /\ Quiet(cs[c]) => Quiet(Cancelled(cs, kind)[c])
<1> DEFINE after == Cancelled(cs, kind)
<1>1. \A c \in Calls : /\ after[c] \in CallRecords \cup {NoCall} /\ Sound(after[c])
                       /\ after[c].kind = kind => Quiet(after[c])
                       /\ Quiet(cs[c]) => Quiet(after[c])
  <2> SUFFICES ASSUME NEW c \in Calls
               PROVE  /\ after[c] \in CallRecords \cup {NoCall} /\ Sound(after[c])
                      /\ after[c].kind = kind => Quiet(after[c])
                      /\ Quiet(cs[c]) => Quiet(after[c])
    OBVIOUS
  <2>1. after[c] = IF cs[c].kind = kind THEN Orphan(cs[c]) ELSE cs[c]
    BY DEF Cancelled
  <2>2. cs[c] \in CallRecords \cup {NoCall} /\ Sound(cs[c])
    BY DEF SoundTalk, Talk
  <2>3. NoCall.kind # kind
    BY DEF NoCall, Kinds
  <2> HIDE DEF after
  <2>4. CASE cs[c].kind = kind
    BY <2>1, <2>2, <2>3, <2>4, OrphansAreSound
  <2>5. CASE cs[c].kind # kind
    BY <2>1, <2>2, <2>5
  <2>6. QED
    BY <2>4, <2>5
<1>2. after \in Talk
  <2>1. after = [c \in Calls |-> after[c]]
    BY DEF Cancelled
  <2> HIDE DEF after
  <2>2. QED
    BY <1>1, <2>1 DEF Talk
<1>3. QED
  BY <1>1, <1>2 DEF SoundTalk, Hushed

LEMMA PutIsSound ==
    ASSUME NEW cs, SoundTalk(cs), NEW c \in Calls,
           NEW call \in CallRecords, call.answer = Waiting \/ call.live
    PROVE  /\ SoundTalk(Put(cs, c, call))
           /\ Hushed(cs) /\ Quiet(call) => Hushed(Put(cs, c, call))
<1>1. \A d \in Calls : Put(cs, c, call)[d] = IF d = c THEN call ELSE cs[d]
  BY DEF Put, SoundTalk, Talk
<1>2. Put(cs, c, call) \in Talk
  BY DEF Put, SoundTalk, Talk
<1>3. Sound(call)
  BY DEF Sound
<1>4. QED
  BY <1>1, <1>2, <1>3 DEF SoundTalk, Hushed

LEMMA WithoutIsSound ==
    ASSUME SoundTalk(calls), NEW c \in Calls
    PROVE  /\ SoundTalk(Without(c))
           /\ Hushed(calls) => Hushed(Without(c))
<1>1. \A d \in Calls : Without(c)[d] = IF d = c THEN NoCall ELSE calls[d]
  BY DEF Without, SoundTalk, Talk
<1>2. Without(c) \in Talk
  BY DEF Without, SoundTalk, Talk
<1>3. Sound(NoCall) /\ Quiet(NoCall)
  BY NothingIsQuiet
<1>4. QED
  BY <1>1, <1>2, <1>3 DEF SoundTalk, Hushed

LEMMA AnswerIsSound ==
    ASSUME SoundTalk(calls), NEW c \in Calls, calls[c] # NoCall, NEW answer \in Answers, AnswerWith(c, answer)
    PROVE  SoundTalk(calls') /\ (Hushed(calls) => Hushed(calls'))
<1> DEFINE told == [calls[c] EXCEPT !.answer = answer, !.present = FALSE]
<1>1. calls[c] \in CallRecords
  BY DEF SoundTalk, Talk
<1>2. told \in CallRecords /\ told.live = calls[c].live /\ told.kind = calls[c].kind
  BY <1>1 DEF CallRecords
<1>3. calls' = IF calls[c].live THEN Put(calls, c, told) ELSE Without(c)
  BY <1>1 DEF AnswerWith, Put, Without, SoundTalk, Talk
<1> HIDE DEF told
<1>4. CASE calls[c].live
  <2>1. Hushed(calls) => Quiet(told)
    BY <1>2 DEF Hushed, Quiet
  <2>2. told.live
    BY <1>2, <1>4
  <2>3. QED
    BY <1>2, <1>3, <1>4, <2>1, <2>2, PutIsSound
<1>5. CASE ~calls[c].live
  BY <1>3, <1>5, WithoutIsSound
<1>6. QED
  BY <1>4, <1>5

(* A render cancels the heartbeats.                                            *)
LEMMA RenderedIsSound ==
    ASSUME NEW cs, SoundTalk(cs), NEW p, Rendered(p, cs)
    PROVE  /\ SoundTalk(calls')
           /\ (\A c \in Calls : cs[c].kind = "refresh" => Quiet(cs[c])) => Hushed(calls')
<1>1. calls' = Cancelled(cs, "beat")
  BY DEF Rendered
<1>2. "beat" \in Kinds
  BY DEF Kinds
<1>3. /\ SoundTalk(calls')
      /\ \A c \in Calls : /\ calls'[c].kind = "beat" => Quiet(calls'[c])
                          /\ Quiet(cs[c]) => Quiet(calls'[c])
  BY <1>1, <1>2, CancelledIsSound
<1>4. ASSUME NEW c \in Calls, cs[c].kind = "refresh" => Quiet(cs[c])
      PROVE  Quiet(calls'[c])
  <2>1. CASE cs[c].kind = "beat"
    <3>1. calls'[c] = Orphan(cs[c]) /\ cs[c] \in CallRecords
      BY <1>1, <2>1 DEF Cancelled, SoundTalk, Talk, NoCall
    <3>2. QED
      BY <3>1, OrphansAreSound
  <2>2. CASE cs[c].kind # "beat"
    BY <1>3, <1>4, <2>2 DEF Quiet
  <2>3. QED
    BY <2>1, <2>2
<1>5. QED
  BY <1>3, <1>4 DEF Hushed

LEMMA OlderIsSound ==
    ASSUME NEW cs, SoundTalk(cs)
    PROVE  /\ SoundTalk(Older(cs))
           /\ Hushed(cs) => Hushed(Older(cs))
           /\ \A c \in Calls : Quiet(cs[c]) => Quiet(Older(cs)[c])
<1> DEFINE aged(c) == [cs[c] EXCEPT !.age = @ + 1]
<1>1. \A c \in Calls : Older(cs)[c] = IF cs[c] = NoCall THEN NoCall ELSE aged(c)
  BY DEF Older
<1>2. \A c \in Calls : cs[c] # NoCall =>
        /\ aged(c) \in CallRecords /\ aged(c).live = cs[c].live /\ aged(c).kind = cs[c].kind
        /\ aged(c).answer = cs[c].answer
  BY DEF SoundTalk, Talk, CallRecords
<1> HIDE DEF aged
<1>3. \A c \in Calls : /\ Older(cs)[c] \in CallRecords \cup {NoCall} /\ Sound(Older(cs)[c])
                       /\ Quiet(cs[c]) => Quiet(Older(cs)[c])
  BY <1>1, <1>2, NothingIsQuiet DEF SoundTalk, Sound, Quiet
<1>4. Older(cs) \in Talk
  <2>1. Older(cs) = [c \in Calls |-> Older(cs)[c]]
    BY DEF Older
  <2>2. QED
    BY <1>3, <2>1 DEF Talk
<1>5. QED
  BY <1>3, <1>4 DEF SoundTalk, Hushed

-------------------------------------------------------------------------------
(* The steps.                                                                  *)

LEMMA ClientStarts == Init => ClientInv
<1> SUFFICES ASSUME Init
             PROVE  ClientInv
  OBVIOUS
<1>1. NoSeat \in Places /\ "nobody" \in People
  BY DEF NoSeat, Places, Standings, People
<1>2. /\ seat = NoSeat /\ room \in BOOLEAN /\ who = "nobody" /\ left = FALSE /\ reopened = FALSE
      /\ calls = Mounted(route) /\ route \in {"landing", "app", "verify", "reset"}
  BY DEF Init, Routes
<1>3. Call("refresh") \in CallRecords /\ Call("refresh").answer = Waiting
  BY <1>1, <1>2, CallsAreFresh DEF Kinds
<1>4. [Call("refresh") EXCEPT !.kind = "verify"] \in CallRecords
      /\ [Call("refresh") EXCEPT !.kind = "verify"].answer = Waiting
  BY <1>3 DEF CallRecords, Kinds
<1>5. calls \in [Calls -> {NoCall, Call("refresh"), [Call("refresh") EXCEPT !.kind = "verify"]}]
  <2> DEFINE f == CHOOSE c \in Calls : TRUE
             asked == Call("refresh")
             spent == [Call("refresh") EXCEPT !.kind = "verify"]
  <2>1. Mounted(route) = CASE route = "landing" -> [c \in Calls |-> NoCall]
                           [] route = "verify"  -> [c \in Calls |-> IF c = f THEN spent ELSE asked]
                           [] OTHER         -> [c \in Calls |-> IF c = f THEN asked ELSE NoCall]
    BY DEF Mounted
  <2> HIDE DEF f, asked, spent
  <2>2. Mounted(route) \in [Calls -> {NoCall, asked, spent}]
    BY <1>2, <2>1
  <2>3. QED
    BY <1>2, <2>2 DEF asked, spent
<1>6. SoundTalk(calls)
  BY <1>3, <1>4, <1>5 DEF SoundTalk, Talk, Sound
<1>7. QED
  BY <1>1, <1>2, <1>6 DEF ClientInv

LEMMA StandingIsAnAnswer ==
    ASSUME NEW s \in Positions
    PROVE  /\ s.seat \in Places /\ s.room \in BOOLEAN
           /\ \A person \in People : Session(person, s.seat.state) \in Answers
           /\ Status(s.seat.state) \in Answers
BY DEF Positions, Places, Session, Status, Answers

LEMMA WordsAreAnswers ==
    /\ \A w \in {"refused", "denied", "ok", "unreachable", "error"} : Word(w) \in Answers
    /\ \A person \in People : Session(person, "none") \in Answers
    /\ \A b : Account(b) \in People
BY DEF Word, Session, Answers, Account, People

LEMMA ServeKeeps ==
    ASSUME ClientInv, NEW c \in Calls, Serve(c)
    PROVE  ClientInv'
<1>1. /\ calls[c] # NoCall /\ SoundTalk(calls) /\ seat \in Places /\ room \in BOOLEAN
      /\ UNCHANGED <<phase, who, left, reopened>>
  BY DEF Serve, Unserved, ClientInv, page
<1>2. calls[c] \in CallRecords
  BY <1>1 DEF SoundTalk, Talk
<1>3. /\ Reconciled(Here) \subseteq Positions /\ AfterRequest \subseteq Positions
      /\ AfterRelease \subseteq Positions
      /\ \A present \in BOOLEAN : AfterBeat(present) \subseteq Positions
  BY <1>1, OperationsAreTyped
<1>4. seat' \in Places /\ room' \in BOOLEAN /\ \E a \in Answers : AnswerWith(c, a)
  <2>1. CASE ServeRefresh(c)
    BY <1>1, <1>3, <2>1, StandingIsAnAnswer, WordsAreAnswers DEF ServeRefresh, SetSeat, People
  <2>2. CASE ServeJoin(c)
    BY <1>1, <1>3, <2>2, StandingIsAnAnswer, WordsAreAnswers DEF ServeJoin, SetSeat, SeatFor
  <2>3. CASE ServeBeat(c)
    <3>1. calls[c].present \in BOOLEAN
      BY <1>2 DEF CallRecords
    <3>2. QED
      BY <1>1, <1>3, <2>3, <3>1, StandingIsAnAnswer DEF ServeBeat, SetSeat
  <2>4. CASE ServeStranger(c)
    BY <1>1, <2>4, WordsAreAnswers DEF ServeStranger, service
  <2>5. CASE ServeLogout(c)
    BY <1>1, <1>3, <2>5, StandingIsAnAnswer, WordsAreAnswers DEF ServeLogout, SetSeat
  <2>6. CASE ServeSignIn(c)
    BY <1>1, <1>3, <2>6, StandingIsAnAnswer, WordsAreAnswers DEF ServeSignIn, SetSeat, SeatFor
  <2>7. CASE ServeVerify(c)
    BY <1>1, <1>3, <2>7, StandingIsAnAnswer, WordsAreAnswers DEF ServeVerify, SetSeat, People
  <2>8. CASE ServeReset(c)
    BY <1>1, <2>8, WordsAreAnswers DEF ServeReset
  <2>9. QED
    BY <2>1, <2>2, <2>3, <2>4, <2>5, <2>6, <2>7, <2>8 DEF Serve
<1>5. SoundTalk(calls') /\ (Hushed(calls) => Hushed(calls'))
  BY <1>1, <1>4, AnswerIsSound
<1>6. QED
  BY <1>1, <1>4, <1>5 DEF ClientInv

LEMMA FailKeeps ==
    ASSUME ClientInv, NEW c \in Calls, Lose(c) \/ Refuse(c)
    PROVE  ClientInv'
<1>1. /\ calls[c] # NoCall /\ \E a \in Answers : AnswerWith(c, a)
      /\ UNCHANGED <<seat, room, phase, who, left, reopened>>
  BY WordsAreAnswers DEF Lose, Refuse, Unserved, page, service
<1>2. SoundTalk(calls') /\ (Hushed(calls) => Hushed(calls'))
  BY <1>1, AnswerIsSound DEF ClientInv
<1>3. QED
  BY <1>1, <1>2 DEF ClientInv

LEMMA ShowIsSound ==
    ASSUME NEW p, NEW person \in People, NEW cs, SoundTalk(cs), Show(p, person, cs)
    PROVE  /\ phase' = p /\ who' \in People /\ SoundTalk(calls')
           /\ (\A c \in Calls : cs[c].kind = "refresh" => Quiet(cs[c])) => Hushed(calls')
<1>1. phase' = p /\ who' = person /\ Rendered(p, cs)
  BY DEF Show
<1>2. QED
  BY <1>1, RenderedIsSound

LEMMA RefreshingIsSound ==
    ASSUME who \in People, NEW cs, SoundTalk(cs), NEW c \in Calls
    PROVE  SoundTalk(Refreshing(c, cs))
<1>1. "refresh" \in Kinds
  BY DEF Kinds
<1>2. SoundTalk(Cancelled(cs, "refresh"))
  BY <1>1, CancelledIsSound
<1>3. Call("refresh") \in CallRecords /\ Call("refresh").answer = Waiting
  BY <1>1, CallsAreFresh
<1>4. QED
  BY <1>2, <1>3, PutIsSound DEF Refreshing

(* The answer of a call that is taken is what it was when it came.             *)
LEMMA AnsweredIsLive ==
    ASSUME ClientInv, NEW c \in Calls, calls[c] # NoCall, calls[c].answer # Waiting
    PROVE  /\ calls[c] \in CallRecords /\ calls[c].live
           /\ left /\ ~reopened => calls[c].kind \notin {"refresh", "beat"}
<1>1. calls[c] \in CallRecords /\ calls[c].live
  BY DEF ClientInv, SoundTalk, Sound
<1>2. left /\ ~reopened => Quiet(calls[c])
  BY DEF ClientInv, Hushed
<1>3. QED
  BY <1>1, <1>2 DEF Quiet

LEMMA AnsweredKeeps ==
    ASSUME ClientInv, NEW c \in Calls, Answered(c)
    PROVE  ClientInv'
<1> DEFINE a == calls[c].answer
<1>1. /\ calls[c] # NoCall /\ a # Waiting /\ UNCHANGED <<seat, room>>
      /\ SoundTalk(calls) /\ who \in People /\ left \in BOOLEAN /\ reopened \in BOOLEAN
  BY DEF Answered, service, ClientInv
<1>2. /\ calls[c] \in CallRecords /\ a \in Answers /\ calls[c].as \in People
      /\ left /\ ~reopened => calls[c].kind \notin {"refresh", "beat"}
  BY <1>1, AnsweredIsLive DEF CallRecords
<1>3. a.word = "session" => a.who \in People
  BY <1>2 DEF Answers
<1>4. /\ RefreshAnswered(c, a) \/ Adopted(c, a) \/ ResetAnswered(c, a) \/ JoinAnswered(c, a)
         \/ LogoutAnswered(c) \/ BeatAnswered(c, a) \/ FormRefused(c, a)
  BY DEF Answered
<1>5. SoundTalk(Without(c)) /\ (Hushed(calls) => Hushed(Without(c)))
  BY <1>1, WithoutIsSound
<1>6. "nobody" \in People /\ "refresh" \in Kinds
  BY DEF People, Kinds
<1> HIDE DEF a
<1>7. SUFFICES /\ who' \in People /\ SoundTalk(calls')
               /\ left' \in BOOLEAN /\ reopened' \in BOOLEAN
               /\ left' /\ ~reopened' => phase' = "signed-out" /\ Hushed(calls')
  BY <1>1 DEF ClientInv
<1>8. CASE RefreshAnswered(c, a)
  <2>1. calls[c].kind = "refresh" /\ left' = left /\ reopened' = reopened
    BY <1>8 DEF RefreshAnswered
  <2>2. \E p, person : person \in People /\ Show(p, person, Without(c))
    BY <1>1, <1>3, <1>8 DEF RefreshAnswered
  <2>3. who' \in People /\ SoundTalk(calls')
    BY <1>5, <2>2, ShowIsSound
  <2>4. QED
    BY <1>1, <1>2, <2>1, <2>3
<1>9. CASE Adopted(c, a)
  <2>1. /\ left' = FALSE /\ reopened' = reopened
        /\ Show(PhaseOf(a.who, a.state), a.who, Cancelled(Without(c), "refresh"))
    BY <1>9 DEF Adopted
  <2>2. a.who \in People
    BY <1>3, <1>9 DEF Adopted
  <2>3. SoundTalk(Cancelled(Without(c), "refresh"))
    BY <1>5, <1>6, CancelledIsSound
  <2>4. who' \in People /\ SoundTalk(calls')
    BY <2>1, <2>2, <2>3, ShowIsSound
  <2>5. QED
    BY <1>1, <2>1, <2>4
<1>10. CASE ResetAnswered(c, a)
  BY <1>1, <1>10, RefreshingIsSound DEF ResetAnswered
<1>11. CASE JoinAnswered(c, a)
  <2>1. left' = left /\ reopened' = (reopened \/ left)
    BY <1>11 DEF JoinAnswered
  <2>2. \E p, cs : SoundTalk(cs) /\ Show(p, who, cs)
    BY <1>1, <1>5, <1>11, RefreshingIsSound DEF JoinAnswered
  <2>3. who' \in People /\ SoundTalk(calls')
    BY <1>1, <2>2, ShowIsSound
  <2>4. left' \in BOOLEAN /\ reopened' \in BOOLEAN /\ ~(left' /\ ~reopened')
    BY <1>1, <2>1
  <2>5. QED
    BY <2>3, <2>4
<1>12. CASE LogoutAnswered(c)
  <2>1. /\ left' = TRUE /\ reopened' = FALSE
        /\ Show("signed-out", "nobody", Cancelled(Without(c), "refresh"))
    BY <1>12 DEF LogoutAnswered, SignedOut
  <2>2. /\ SoundTalk(Cancelled(Without(c), "refresh"))
        /\ \A d \in Calls : Cancelled(Without(c), "refresh")[d].kind = "refresh"
                             => Quiet(Cancelled(Without(c), "refresh")[d])
    BY <1>5, <1>6, CancelledIsSound
  <2>3. who' \in People /\ SoundTalk(calls') /\ phase' = "signed-out" /\ Hushed(calls')
    BY <1>6, <2>1, <2>2, ShowIsSound
  <2>4. QED
    BY <2>1, <2>3
<1>13. CASE BeatAnswered(c, a)
  <2>1. calls[c].kind = "beat" /\ left' = left /\ reopened' = reopened
    BY <1>13 DEF BeatAnswered
  <2>2. \/ \E p, person : person \in People /\ Show(p, person, Without(c))
        \/ calls' = Without(c) /\ who' = who
    BY <1>1, <1>6, <1>13 DEF BeatAnswered
  <2>3. who' \in People /\ SoundTalk(calls')
    BY <1>1, <1>5, <2>2, ShowIsSound
  <2>4. QED
    BY <1>1, <1>2, <2>1, <2>3
<1>14. CASE FormRefused(c, a)
  BY <1>1, <1>5, <1>14 DEF FormRefused, ClientInv
<1>15. QED
  BY <1>4, <1>8, <1>9, <1>10, <1>11, <1>12, <1>13, <1>14

(* Whoever asks is heard out: a new call leaves those in flight alone.         *)
LEMMA AskingKeeps ==
    ASSUME ClientInv, NEW c \in Calls,
           Join(c) \/ SignOut(c) \/ SignIn(c) \/ Retry(c) \/ ChoosePassword(c)
    PROVE  ClientInv'
<1>1. SoundTalk(calls) /\ who \in People /\ left \in BOOLEAN /\ reopened \in BOOLEAN
  BY DEF ClientInv
<1>2. UNCHANGED <<seat, room, phase, who, reopened>>
  BY DEF Join, SignOut, SignIn, Retry, ChoosePassword, page, service, history
<1>3. \/ left' = left /\ \E kind \in {"join", "logout", "reset"} : calls' = Put(calls, c, Call(kind))
      \/ left' = FALSE /\ calls' = Put(calls, c, Call("signin"))
      \/ left' = FALSE /\ calls' = Refreshing(c, calls)
  BY DEF Join, SignOut, SignIn, Retry, ChoosePassword, Asks, history
<1>4. CASE left' = left /\ \E kind \in {"join", "logout", "reset"} : calls' = Put(calls, c, Call(kind))
  <2>1. PICK kind \in {"join", "logout", "reset"} : calls' = Put(calls, c, Call(kind))
    BY <1>4
  <2>2. Call(kind) \in CallRecords /\ Call(kind).kind = kind /\ Call(kind).answer = Waiting
    BY <1>1, CallsAreFresh DEF Kinds
  <2>3. Quiet(Call(kind))
    BY <2>2 DEF Quiet
  <2>4. SoundTalk(calls') /\ (Hushed(calls) => Hushed(calls'))
    BY <1>1, <2>1, <2>2, <2>3, PutIsSound
  <2>5. QED
    BY <1>2, <1>4, <2>4 DEF ClientInv
<1>5. CASE left' = FALSE /\ calls' = Put(calls, c, Call("signin"))
  <2>1. Call("signin") \in CallRecords /\ Call("signin").answer = Waiting
    BY <1>1, CallsAreFresh DEF Kinds
  <2>2. SoundTalk(calls')
    BY <1>1, <1>5, <2>1, PutIsSound
  <2>3. QED
    BY <1>2, <1>5, <2>2 DEF ClientInv
<1>6. CASE left' = FALSE /\ calls' = Refreshing(c, calls)
  <2>1. SoundTalk(calls')
    BY <1>1, <1>6, RefreshingIsSound
  <2>2. QED
    BY <1>2, <1>6, <2>1 DEF ClientInv
<1>7. QED
  BY <1>3, <1>4, <1>5, <1>6

LEMMA RoutesKeep ==
    ASSUME ClientInv, (\E c \in Calls : Enter(c) \/ LandingDone(c)) \/ Leave
    PROVE  ClientInv'
<1>1. SoundTalk(calls) /\ who \in People /\ "nobody" \in People
  BY DEF ClientInv, People
<1>2. ASSUME NEW c \in Calls, Enter(c)
      PROVE  ClientInv'
  <2>1. /\ calls' = Put(calls, c, Call("refresh")) /\ left' = FALSE /\ who' = "nobody"
        /\ UNCHANGED <<seat, room, reopened>>
    BY <1>2 DEF Enter, service
  <2>2. Call("refresh") \in CallRecords /\ Call("refresh").answer = Waiting
    BY <1>1, CallsAreFresh DEF Kinds
  <2>3. SoundTalk(calls')
    BY <1>1, <2>1, <2>2, PutIsSound
  <2>4. QED
    BY <1>1, <2>1, <2>3 DEF ClientInv
<1>3. ASSUME NEW c \in Calls, LandingDone(c)
      PROVE  ClientInv'
  <2>1. UNCHANGED <<phase, who, seat, room, reopened>>
    BY <1>3 DEF LandingDone, service
  <2>2. CASE UNCHANGED <<calls, left>>
    BY <2>1, <2>2 DEF ClientInv
  <2>3. CASE calls' = Refreshing(c, calls) /\ left' = FALSE
    <3>1. SoundTalk(calls')
      BY <1>1, <2>3, RefreshingIsSound
    <3>2. QED
      BY <2>1, <2>3, <3>1 DEF ClientInv
  <2>4. QED
    BY <1>3, <2>2, <2>3 DEF LandingDone
<1>4. CASE Leave
  <2>1. /\ calls' = [c \in Calls |-> IF calls[c] = NoCall THEN NoCall ELSE Orphan(calls[c])]
        /\ left' = FALSE /\ who' = "nobody" /\ UNCHANGED <<seat, room, reopened>>
    BY <1>4 DEF Leave, service
  <2>2. \A c \in Calls : /\ calls'[c] \in CallRecords \cup {NoCall} /\ Sound(calls'[c])
    BY <1>1, <2>1, OrphansAreSound, NothingIsQuiet DEF SoundTalk, Talk
  <2>3. calls' = [c \in Calls |-> calls'[c]]
    BY <2>1
  <2>4. SoundTalk(calls')
    BY <2>2, <2>3 DEF SoundTalk, Talk
  <2>5. QED
    BY <1>1, <2>1, <2>4 DEF ClientInv
<1>5. QED
  BY <1>2, <1>3, <1>4

LEMMA TimerKeeps ==
    ASSUME ClientInv, \/ \E c \in Calls : Beat(c)
                      \/ Tick \/ Touch \/ Hide \/ Return \/ Repaint
    PROVE  ClientInv'
<1>1. SoundTalk(calls) /\ who \in People
  BY DEF ClientInv
<1>2. UNCHANGED <<phase, who, left, reopened>> /\ room' = room
  BY DEF Beat, Tick, Touch, Hide, Return, Repaint, service, history
<1>3. SUFFICES /\ seat' \in Places /\ SoundTalk(calls')
               /\ left /\ ~reopened => Hushed(calls')
  BY <1>2 DEF ClientInv
<1>4. ASSUME NEW cs, SoundTalk(cs), Hushed(calls) => Hushed(cs), Rendered(phase, cs)
      PROVE  SoundTalk(calls') /\ (left /\ ~reopened => Hushed(calls'))
  BY <1>4, RenderedIsSound DEF ClientInv, Hushed
<1>5. UNCHANGED calls => SoundTalk(calls') /\ (left /\ ~reopened => Hushed(calls'))
  BY DEF ClientInv
<1>6. ASSUME NEW c \in Calls, Beat(c)
      PROVE  /\ seat' \in Places /\ SoundTalk(calls')
             /\ left /\ ~reopened => Hushed(calls')
  <2>1. phase # "signed-out" /\ seat' = seat
    BY <1>6 DEF Beat, Due, Beating, service
  <2>2. \E present \in BOOLEAN : calls' = Put(calls, c, BeatCall(present))
    BY <1>6 DEF Beat
  <2>3. SoundTalk(calls')
    BY <1>1, <2>2, BeatsAreFresh, PutIsSound
  <2>4. QED
    BY <2>1, <2>3 DEF ClientInv
<1>7. CASE Tick
  <2>1. seat' \in Places
    <3>1. seat \in Places /\ Grace \in Nat /\ IdleAfter \in Nat
      BY ClientAssumption DEF ClientInv
    <3>2. UpTo(seat.unheard + 1, Grace + 1) \in Nat /\ UpTo(seat.unused + 1, IdleAfter + 1) \in Nat
      BY <3>1 DEF Places, UpTo
    <3>3. \A m, n \in Nat : [seat EXCEPT !.unheard = m, !.unused = n] \in Places
      BY <3>1 DEF Places
    <3> DEFINE unheard == UpTo(seat.unheard + 1, Grace + 1)
               unused == UpTo(seat.unused + 1, IdleAfter + 1)
    <3>4. \/ seat' = seat
          \/ seat' = [seat EXCEPT !.unheard = unheard, !.unused = unused]
          \/ seat' = [seat EXCEPT !.unheard = unheard, !.unused = 0]
      BY <1>7, <3>1 DEF Tick, Places
    <3> HIDE DEF unheard, unused
    <3>5. unheard \in Nat /\ unused \in Nat /\ 0 \in Nat
      BY <3>2 DEF unheard, unused
    <3>6. QED
      BY <3>1, <3>3, <3>4, <3>5
  <2>2. SoundTalk(Older(calls)) /\ (Hushed(calls) => Hushed(Older(calls)))
    BY <1>1, OlderIsSound
  <2>3. Rendered(phase, Older(calls)) \/ calls' = Older(calls)
    BY <1>7 DEF Tick
  <2>4. QED
    BY <1>4, <2>1, <2>2, <2>3 DEF ClientInv
<1>8. CASE Touch \/ Hide \/ Return \/ Repaint
  <2>1. seat' = seat /\ (Rendered(phase, calls) \/ UNCHANGED calls)
    BY <1>8 DEF Touch, Hide, Return, Repaint, Noticed, service
  <2>2. QED
    BY <1>1, <1>4, <1>5, <2>1 DEF ClientInv
<1>9. QED
  BY <1>6, <1>7, <1>8

LEMMA OthersKeep ==
    ASSUME ClientInv, OthersReconcile \/ MakeRoom \/ TakeRoom \/ SessionEnds \/ VerifiedElsewhere
    PROVE  ClientInv'
<1>1. UNCHANGED <<phase, who, calls, left, reopened>>
  BY DEF OthersReconcile, MakeRoom, TakeRoom, SessionEnds, VerifiedElsewhere, page, history
<1>2. seat' \in Places /\ room' \in BOOLEAN
  <2>1. /\ seat \in Places /\ room \in BOOLEAN
        /\ Reconciled(Here) \subseteq Positions /\ AfterRequest \subseteq Positions
    BY OperationsAreTyped DEF ClientInv
  <2>2. CASE OthersReconcile
    BY <2>1, <2>2, StandingIsAnAnswer DEF OthersReconcile, SetSeat
  <2>3. CASE MakeRoom \/ TakeRoom \/ SessionEnds
    BY <2>1, <2>3 DEF MakeRoom, TakeRoom, SessionEnds
  <2>4. CASE VerifiedElsewhere
    BY <2>1, <2>4, StandingIsAnAnswer DEF VerifiedElsewhere, SetSeat
  <2>5. QED
    BY <2>2, <2>3, <2>4
<1>3. QED
  BY <1>1, <1>2 DEF ClientInv

LEMMA ClientStep == ClientInv /\ [Next]_cvars => ClientInv'
<1> SUFFICES ASSUME ClientInv, [Next]_cvars
             PROVE  ClientInv'
  OBVIOUS
<1>1. CASE UNCHANGED cvars
  BY <1>1 DEF cvars, page, service, history, ClientInv
<1>2. CASE Next
  <2>1. ASSUME NEW c \in Calls,
               Serve(c) \/ Answered(c) \/ Lose(c) \/ Refuse(c) \/ Join(c) \/ SignOut(c) \/ SignIn(c)
               \/ Retry(c) \/ ChoosePassword(c)
        PROVE  ClientInv'
    BY <2>1, ServeKeeps, AnsweredKeeps, FailKeeps, AskingKeeps
  <2>2. CASE \E c \in Calls : Enter(c) \/ LandingDone(c) \/ Beat(c)
    BY <2>2, RoutesKeep, TimerKeeps
  <2>3. CASE Tick \/ Touch \/ Hide \/ Return \/ Leave \/ Repaint
    BY <2>3, RoutesKeep, TimerKeeps
  <2>4. CASE OthersReconcile \/ MakeRoom \/ TakeRoom \/ SessionEnds \/ VerifiedElsewhere
    BY <2>4, OthersKeep
  <2>5. QED
    BY <1>2, <2>1, <2>2, <2>3, <2>4 DEF Next
<1>3. QED
  BY <1>1, <1>2

(* Signing out stays signed out, whatever was in flight and comes back later,  *)
(* until somebody asks again, but for a join begun before it.                  *)
THEOREM SignedOutIsKept == CSpec => []SignedOutStaysOut
<1>1. ClientInv => SignedOutStaysOut
  BY DEF ClientInv, SignedOutStaysOut
<1>2. QED
  BY <1>1, ClientStarts, ClientStep, PTL DEF CSpec

===============================================================================
