---------------------------- MODULE MCDVRouting -----------------------------
(***************************************************************************)
(* Topologies of three routers for the model checking of DVRouting.        *)
(***************************************************************************)
EXTENDS DVRouting

Undirected(c01, c02, c12) ==
    [r \in 0 .. 2 |-> [s \in 0 .. 2 |->
        CASE r = s             -> 0
          [] {r, s} = {0, 1} -> c01
          [] {r, s} = {0, 2} -> c02
          [] {r, s} = {1, 2} -> c12]]

\* The direct link from 0 to 2 is dearer than the way through 1.
ShortcutThrough1 == Undirected(1, 5, 2)

\* No link between 1 and 2.
LineThrough0 == Undirected(1, 2, INF)

\* No link between 0 and 2.
Line == Undirected(1, INF, 2)

\* The costs UPDATE sets, among them none at all, and the lower bounds then.
CheaperOrDearer == {1, 6, 7, INF}
LineAtLeast == Undirected(1, INF, 1)
LineAtLeastDist == Undirected(1, 2, 1)

\* What an unfilled field may hold: an old field of the same kind, or a field
\* that names no router.
OldField == {[id |-> 0, cost |-> 1]}
OldOrUnknownField == OldField \cup {[id |-> Unknown, cost |-> 0]}
=============================================================================
