---------------------------- MODULE SeatService ----------------------------
(***************************************************************************)
(* What the seat controller promises, with no clock, table or transaction: *)
(* a set of seated people and one line.  In one turn some people leave the *)
(* seats and the line, some of the seated go to the back of the line,      *)
(* possibly one newcomer joins behind them, and then the seats are filled  *)
(* from the front until either runs out.                                   *)
(***************************************************************************)
EXTENDS Naturals, FiniteSets

CONSTANTS People, Seats

VARIABLES
    seated,
    waiting,   \* who is in the line
    ahead      \* the pairs <<p, q>> of them with p ahead of q

svars == <<seated, waiting, ahead>>

SInit == seated = {} /\ waiting = {} /\ ahead = {}

Among(order, S) == order \cap (S \X S)

\* The ways to line up the people of a set.
Lines(S) ==
    {order \in SUBSET (S \X S) :
        /\ \A p \in S : <<p, p>> \notin order
        /\ \A p, q \in S : p # q => <<p, q>> \in order \/ <<q, p>> \in order
        /\ \A p, q, r \in S : <<p, q>> \in order /\ <<q, r>> \in order => <<p, r>> \in order}

\* The seats of those who stay, and then those at the head of a line for the rest.
Fill(staying, people, order) ==
    \E front \in SUBSET people :
        /\ \A p \in front, q \in people \ front : <<p, q>> \in order
        /\ Cardinality(staying \cup front) <= Seats
        /\ front # people => Cardinality(staying \cup front) = Seats
        /\ seated'  = staying \cup front
        /\ waiting' = people \ front
        /\ ahead'   = Among(order, people \ front)

Turn ==
    \E gone \in SUBSET (seated \cup waiting) :
    \E bumped \in SUBSET (seated \ gone) :
    \E back \in Lines(bumped) :
    \E joins \in {{}} \cup {{p} : p \in (People \ (seated \cup waiting)) \cup gone} :
        LET kept == waiting \ gone
        IN  Fill(seated \ (gone \cup bumped), kept \cup bumped \cup joins,
                 Among(ahead, kept) \cup back \cup (kept \X bumped)
                                    \cup ((kept \cup bumped) \X joins))

SSpec == SInit /\ [][Turn]_svars
=============================================================================
