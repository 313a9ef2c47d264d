---------------------------- MODULE FileChannel -----------------------------
(***************************************************************************)
(* What the data plane promises of a file: the packets its first router    *)
(* sends arrive at its destination in order, none of them twice and none   *)
(* left out, and the file there is open from the first to the last one.    *)
(***************************************************************************)
EXTENDS Naturals, Sequences

CONSTANTS
    Files,    \* the transfers
    Packets   \* Packets[f]: the sequence numbers of the packets of f

VARIABLES
    sent,     \* sent[f]: how many packets of f have been sent
    written,  \* written[f]: the packets that are in the file at the destination
    open      \* open[f]: the file is being written

vars == <<sent, written, open>>

Init ==
    /\ sent = [f \in Files |-> 0]
    /\ written = [f \in Files |-> <<>>]
    /\ open = [f \in Files |-> FALSE]

Send(f) ==
    /\ sent[f] < Len(Packets[f])
    /\ sent' = [sent EXCEPT ![f] = @ + 1]
    /\ UNCHANGED <<written, open>>

Deliver(f) ==
    LET next == Len(written[f]) + 1
    IN  /\ next <= sent[f]
        /\ written' = [written EXCEPT ![f] = Append(@, Packets[f][next])]
        /\ open' = [open EXCEPT ![f] = next < Len(Packets[f])]
        /\ UNCHANGED sent

Next == \E f \in Files : Send(f) \/ Deliver(f)

Spec == Init /\ [][Next]_vars
=============================================================================
