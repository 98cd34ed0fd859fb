------------------------------ MODULE Timeline ------------------------------
(* What an undo stack promises, whatever it is made of: the states of one   *)
(* document in a line, and a cursor on the one on screen. An edit writes    *)
(* after the cursor and forgets what was beyond it; going back and forth    *)
(* moves the cursor and touches nothing.                                    *)
EXTENDS Naturals, Sequences

CONSTANT Limit          \* how many steps back are kept

VARIABLES tape, cursor

vars == <<tape, cursor>>

Init == Len(tape) = 1 /\ cursor = 1

(* An edit, of one step or of several at once, keeps everything up to the   *)
(* cursor but what the limit pushes off the far end.                        *)
Edit ==
    /\ cursor' = Len(tape')
    /\ \E lost \in 0 .. cursor :
         /\ Len(tape') > cursor - lost
         /\ lost > 0 => Len(tape') = Limit + 1
         /\ \A i \in 1 .. cursor - lost : tape'[i] = tape[i + lost]

(* What is typed goes into the state on screen, with no step of its own.    *)
Retype ==
    /\ Len(tape') = Len(tape) /\ cursor' = cursor
    /\ \A i \in 1 .. Len(tape) : i # cursor => tape'[i] = tape[i]

Back == cursor > 1 /\ cursor' = cursor - 1 /\ tape' = tape

Forth == cursor < Len(tape) /\ cursor' = cursor + 1 /\ tape' = tape

(* Another document is opened: it has no history.                           *)
Load == Len(tape') = 1 /\ cursor' = 1

Next == Edit \/ Retype \/ Back \/ Forth \/ Load

Spec == Init /\ [][Next]_vars
=============================================================================
