--------------------------- MODULE LoopInduction ----------------------------
(***************************************************************************)
(* Induction over the natural numbers, stated with a set in the place of a *)
(* predicate, and what it says of a loop: a recursive function that goes   *)
(* from the value before the loop to the value after n rounds.             *)
(***************************************************************************)
EXTENDS Loops, WellFoundedInduction, TLAPS

\* Every non-empty set of natural numbers has a least element.
THEOREM LeastNat ==
  ASSUME NEW T, T \subseteq Nat, T # {}
  PROVE  \E x \in T : \A y \in T : x <= y
<1> DEFINE R == OpToRel(<, Nat)
<1>1. IsWellFoundedOn(R, Nat)
  BY NatLessThanWellFounded
<1> HIDE DEF R
<1>2. \E x \in T : \A y \in T : ~ (<<y, x>> \in R)
  BY <1>1, WFMin
<1>3. \A x \in Nat, y \in Nat : y < x => <<y, x>> \in R
  BY DEF R, OpToRel
<1>4. PICK x \in T : \A y \in T : ~ (<<y, x>> \in R)
  BY <1>2
<1>5. x \in Nat
  OBVIOUS
<1>6. ASSUME NEW y \in T
      PROVE  x <= y
  <2>1. y \in Nat /\ ~ (<<y, x>> \in R)
    BY <1>4
  <2>2. ~ (y < x)
    BY <1>3, <1>5, <2>1
  <2> QED BY <1>5, <2>1, <2>2
<1> QED BY <1>6

\* A non-empty set of natural numbers that are at most n has a greatest element.
THEOREM GreatestUpto ==
  ASSUME NEW n \in Nat, NEW T, T \subseteq 0 .. n, T # {}
  PROVE  \E x \in T : \A y \in T : y <= x
<1> DEFINE U == {n - y : y \in T}
<1>1. U \subseteq Nat /\ U # {}
  <2>1. \A y \in T : n - y \in Nat
    OBVIOUS
  <2> QED BY <2>1
<1>2. PICK u \in U : \A v \in U : u <= v
  BY <1>1, LeastNat
<1>3. PICK x \in T : u = n - x
  BY <1>2
<1>4. ASSUME NEW y \in T
      PROVE  y <= x
  <2>1. n - x <= n - y
    BY <1>2, <1>3
  <2>2. x \in Int /\ y \in Int
    OBVIOUS
  <2> QED BY <2>1, <2>2
<1> QED BY <1>4

\* A set that holds 0 and the successor of every number it holds, holds all.
THEOREM SetInduction ==
  ASSUME NEW S, 0 \in S, \A n \in Nat : n \in S => n + 1 \in S
  PROVE  Nat \subseteq S
<1> DEFINE T == Nat \ S
<1> SUFFICES ASSUME T # {} PROVE FALSE
  OBVIOUS
<1>1. PICK x \in T : \A y \in T : x <= y
  BY LeastNat
<1>2. x # 0 /\ x - 1 \in Nat
  OBVIOUS
<1>3. x - 1 \in S
  BY <1>1, <1>2
<1> QED BY <1>2, <1>3

\* n rounds of a loop with the body step never take the value out of the set V.
Keeps(step, n, V) == \A u \in V, k \in 1 .. n : step[<<u, k>>] \in V

\* The body of a loop is a function step of the value and the round.  However often it is run, the loop has a value after every round.
THEOREM LoopExists ==
  ASSUME NEW V, NEW start \in V, NEW n \in Nat,
         NEW step, Keeps(step, n, V)
  PROVE  \E f \in [0 .. n -> V] :
            /\ f[0] = start
            /\ \A k \in 1 .. n : f[k] = step[<<f[k - 1], k>>]
<1> DEFINE Upto(m, f) ==
             /\ f \in [0 .. m -> V]
             /\ f[0] = start
             /\ \A k \in 1 .. m : f[k] = step[<<f[k - 1], k>>]
           S == {m \in Nat : m <= n => \E f : Upto(m, f)}
<1>1. 0 \in S
  <2>1. Upto(0, [k \in 0 .. 0 |-> start])
    OBVIOUS
  <2> QED BY <2>1
<1>2. ASSUME NEW m \in Nat, m \in S
      PROVE  m + 1 \in S
  <2> SUFFICES ASSUME m + 1 <= n
               PROVE  \E f : Upto(m + 1, f)
    BY DEF S
  <2>1. PICK f : Upto(m, f)
    BY <1>2
  <2> DEFINE g == [k \in 0 .. m + 1 |->
                     IF k = m + 1 THEN step[<<f[m], m + 1>>] ELSE f[k]]
  <2>2. f \in [0 .. m -> V] /\ f[m] \in V
    BY <2>1
  <2>3. step[<<f[m], m + 1>>] \in V
    BY <2>2 DEF Keeps
  <2>4. g \in [0 .. m + 1 -> V]
    BY <2>2, <2>3
  <2>5. g[0] = start
    BY <2>1
  <2>6. ASSUME NEW k \in 1 .. m + 1
        PROVE  g[k] = step[<<g[k - 1], k>>]
    <3>1. CASE k = m + 1
      <4>1. k - 1 = m /\ k - 1 \in 0 .. m + 1 /\ k - 1 # m + 1
        BY <3>1
      <4>2. g[k - 1] = f[m]
        BY <4>1
      <4>3. g[k] = step[<<f[m], m + 1>>]
        BY <3>1
      <4> QED BY <3>1, <4>2, <4>3
    <3>2. CASE k \in 1 .. m
      <4>1. g[k] = f[k] /\ g[k - 1] = f[k - 1]
        BY <3>2
      <4> QED BY <2>1, <3>2, <4>1
    <3> QED BY <3>1, <3>2
  <2>7. Upto(m + 1, g)
    BY <2>4, <2>5, <2>6
  <2> QED BY <2>7
<1> HIDE DEF S
<1>3. n \in S
  BY <1>1, <1>2, SetInduction
<1>4. PICK f : Upto(n, f)
  BY <1>3 DEF S
<1> QED BY <1>4

\* What holds of the value a loop starts with and is preserved by every round
\* holds of the value after every round.
THEOREM LoopInvariant ==
  ASSUME NEW V, NEW n \in Nat, NEW f, f[0] \in V,
         \A k \in 1 .. n : f[k - 1] \in V => f[k] \in V
  PROVE  \A k \in 0 .. n : f[k] \in V
<1> DEFINE S == {m \in Nat : m <= n => f[m] \in V}
<1>1. 0 \in S
  OBVIOUS
<1>2. ASSUME NEW m \in Nat, m \in S
      PROVE  m + 1 \in S
  <2> SUFFICES ASSUME m + 1 <= n PROVE f[m + 1] \in V
    BY DEF S
  <2>1. m + 1 \in 1 .. n /\ (m + 1) - 1 = m /\ f[m] \in V
    BY <1>2
  <2> QED BY <2>1
<1> HIDE DEF S
<1>3. Nat \subseteq S
  BY <1>1, <1>2, SetInduction
<1> QED BY <1>3 DEF S

\* A loop whose body keeps the value in the set V leaves a value in V.
THEOREM RepeatClosed ==
  ASSUME NEW V, NEW t \in V, NEW n \in Nat, NEW step,
         Keeps(step, n, V)
  PROVE  Repeat(n, step, t) \in V
<1>1. PICK f \in [0 .. n -> V] :
         f[0] = t /\ \A k \in 1 .. n : f[k] = step[<<f[k - 1], k>>]
  BY LoopExists
<1> DEFINE loop[k \in 0 .. n] == IF k = 0 THEN t
                                 ELSE step[<<loop[k - 1], k>>]
<1>2. Repeat(n, step, t) = loop[n]
  BY DEF Repeat
<1>3. f = [k \in 0 .. n |-> IF k = 0 THEN t ELSE step[<<f[k - 1], k>>]]
  BY <1>1
<1>4. loop = [k \in 0 .. n |-> IF k = 0 THEN t ELSE step[<<loop[k - 1], k>>]]
  BY <1>3
<1> HIDE DEF loop
<1>5. loop[0] \in V
  BY <1>4
<1>6. ASSUME NEW k \in 1 .. n, loop[k - 1] \in V
      PROVE  loop[k] \in V
  BY <1>4, <1>6 DEF Keeps
<1>7. \A k \in 0 .. n : loop[k] \in V
  BY <1>5, <1>6, LoopInvariant
<1> QED BY <1>2, <1>7
=============================================================================
