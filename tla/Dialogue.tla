------------------------------ MODULE Dialogue ------------------------------
(***************************************************************************)
(* What a router promises its controllers: on every connection the         *)
(* commands are taken one by one, in the order in which they were sent, and *)
(* each is answered, with its own control code, when it is taken.          *)
(***************************************************************************)
EXTENDS Naturals, Sequences

CONSTANTS
    Ctl,      \* the connections of controllers
    Command,  \* the commands, by their control code
    Silent    \* the commands that may go without an answer

VARIABLES
    asked,    \* asked[c]: the commands sent on c
    taken,    \* taken[c]: how many of them the router has taken
    answers   \* answers[c]: the answers sent on c

vars == <<asked, taken, answers>>

Answer(c, k) == [to |-> c, code |-> k]

Init ==
    /\ asked = [c \in Ctl |-> <<>>]
    /\ taken = [c \in Ctl |-> 0]
    /\ answers = [c \in Ctl |-> <<>>]

Ask(c) ==
    /\ \E k \in Command : asked' = [asked EXCEPT ![c] = Append(@, k)]
    /\ UNCHANGED <<taken, answers>>

Take(c) ==
    /\ taken[c] < Len(asked[c])
    /\ taken' = [taken EXCEPT ![c] = @ + 1]
    /\ LET k == asked[c][taken'[c]]
       IN  \/ answers' = [answers EXCEPT ![c] = Append(@, Answer(c, k))]
           \/ k \in Silent /\ UNCHANGED answers
    /\ UNCHANGED asked

Next == \E c \in Ctl : Ask(c) \/ Take(c)

Spec == Init /\ [][Next]_vars
=============================================================================
