------------------------------- MODULE Loops --------------------------------
(***************************************************************************)
(* The for loops of the source, as a recursive function.                   *)
(***************************************************************************)
EXTENDS Integers

\* What for (k = 1; k <= n; k++) t = step(t, k); leaves in t.
Repeat(n, step, t) ==
    LET loop[k \in 0 .. n] == IF k = 0 THEN t ELSE step[<<loop[k - 1], k>>]
    IN  loop[n]
=============================================================================
