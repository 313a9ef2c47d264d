----------------------- MODULE RoutingTableTheorems ------------------------
(***************************************************************************)
(* What the operations on a routing table preserve, for any number of      *)
(* routers and any INF.                                                    *)
(***************************************************************************)
EXTENDS RoutingTable, LoopInduction

\* What single relaxations preserve, a whole round of Bellman-Ford preserves:
\* the way to prove of updateDVBybellmanFord what is seen of one comparison.
THEOREM BellmanFordClosed ==
  ASSUME NEW me \in Idx, NEW V, V \subseteq Table,
         \A u \in V, i \in Idx, j \in Idx, k \in Idx :
            Relax(me, u, i, j, k) \in V,
         NEW t \in V
  PROVE  BellmanFord(me, t) \in V
<1>1. N \in Nat /\ N - 1 \in Nat /\ Idx = 0 .. N - 1
  BY SizeAssumption DEF Idx
<1>2. ASSUME NEW u \in V, NEW i \in Idx, NEW j \in Idx
      PROVE  RelaxEntry(me, u, i, j) \in V
  <2> DEFINE step == [p \in Table \X (1 .. N - 1) |->
                        Relax(me, p[1], i, j, p[2])]
  <2>1. Keeps(step, N - 1, V)
    <3> SUFFICES ASSUME NEW w \in V, NEW k \in 1 .. N - 1
                 PROVE  step[<<w, k>>] \in V
      BY DEF Keeps
    <3>1. <<w, k>> \in Table \X (1 .. N - 1) /\ k \in Idx
      BY <1>1
    <3> QED BY <3>1
  <2>2. RelaxEntry(me, u, i, j) = Repeat(N - 1, step, u)
    BY DEF RelaxEntry
  <2> HIDE DEF step
  <2> QED BY <1>1, <2>1, <2>2, RepeatClosed
<1>3. ASSUME NEW u \in V, NEW i \in Idx
      PROVE  RelaxRow(me, u, i) \in V
  <2> DEFINE step == [p \in Table \X (1 .. N) |->
                        RelaxEntry(me, p[1], i, p[2] - 1)]
  <2>1. Keeps(step, N, V)
    <3> SUFFICES ASSUME NEW w \in V, NEW k \in 1 .. N
                 PROVE  step[<<w, k>>] \in V
      BY DEF Keeps
    <3>1. <<w, k>> \in Table \X (1 .. N) /\ k - 1 \in Idx
      BY <1>1
    <3> QED BY <1>2, <3>1
  <2>2. RelaxRow(me, u, i) = Repeat(N, step, u)
    BY DEF RelaxRow
  <2> HIDE DEF step
  <2> QED BY <1>1, <2>1, <2>2, RepeatClosed
<1> DEFINE step == [p \in Table \X (1 .. N) |-> RelaxRow(me, p[1], p[2] - 1)]
<1>4. Keeps(step, N, V)
  <2> SUFFICES ASSUME NEW w \in V, NEW k \in 1 .. N
               PROVE  step[<<w, k>>] \in V
    BY DEF Keeps
  <2>1. <<w, k>> \in Table \X (1 .. N) /\ k - 1 \in Idx
    BY <1>1
  <2> QED BY <1>3, <2>1
<1>5. BellmanFord(me, t) = Repeat(N, step, t)
  BY DEF BellmanFord
<1> HIDE DEF step
<1> QED BY <1>1, <1>4, <1>5, RepeatClosed

-----------------------------------------------------------------------------
(***************************************************************************)
(* Every operation maps tables to tables: no cost leaves 0 .. INF.         *)
(***************************************************************************)

LEMMA RelaxTyped ==
  ASSUME NEW me \in Idx, NEW t \in Table,
         NEW i \in Idx, NEW j \in Idx, NEW k \in Idx
  PROVE  Relax(me, t, i, j, k) \in Table
<1> DEFINE via == t.dv[i][k] + t.dv[k][j]
           shorter == t.dv[i][j] > via
<1>1. t.dv \in [Idx -> [Idx -> Cost]] /\ t.nh \in [Idx -> Hop]
  BY DEF Table
<1>2. INF \in Nat /\ Cost = 0 .. INF
  BY SizeAssumption DEF Cost
<1>3. via \in Nat
  <2>1. t.dv[i][k] \in 0 .. INF /\ t.dv[k][j] \in 0 .. INF
    BY <1>1, <1>2
  <2> QED BY <1>2, <2>1
<1>4. Clip(IF shorter THEN via ELSE t.dv[i][j]) \in Cost
  <2>1. t.dv[i][j] \in 0 .. INF
    BY <1>1, <1>2
  <2> HIDE DEF via
  <2> QED BY <1>2, <1>3, <2>1 DEF Clip
<1> DEFINE c == Clip(IF shorter THEN via ELSE t.dv[i][j])
<1>5. Relax(me, t, i, j, k) =
        [dv |-> [t.dv EXCEPT ![i][j] = c],
         nh |-> IF shorter /\ i = me THEN [t.nh EXCEPT ![j] = t.nh[k]]
                                     ELSE t.nh]
  BY DEF Relax
<1> HIDE DEF c, shorter, via
<1>6. [t.dv EXCEPT ![i][j] = c] \in [Idx -> [Idx -> Cost]]
  BY <1>1, <1>4 DEF c
<1>7. [t.nh EXCEPT ![j] = t.nh[k]] \in [Idx -> Hop]
  BY <1>1
<1> QED BY <1>1, <1>5, <1>6, <1>7 DEF Table

THEOREM BellmanFordTyped ==
  ASSUME NEW me \in Idx, NEW t \in Table
  PROVE  BellmanFord(me, t) \in Table
BY RelaxTyped, BellmanFordClosed

LEMMA TableParts ==
  ASSUME NEW t \in Table
  PROVE  /\ t.dv \in [Idx -> [Idx -> Cost]]
         /\ t.nh \in [Idx -> Hop]
         /\ \A i, j \in Idx : t.dv[i][j] \in 0 .. INF
         /\ INF \in Nat
BY SizeAssumption DEF Table, Cost

\* A field is applied to some router of the topology, known or not.
LEMMA TargetTyped ==
  ASSUME NEW adv \in Advert, NEW f \in Idx
  PROVE  /\ Target(adv, f) \in Idx
         /\ (\A g \in Idx : adv[g].id = g) => Target(adv, f) = f
<1> DEFINE known == {g \in 0 .. f : adv[g].id # Unknown}
           last == CHOOSE g \in known : \A h \in known : h <= g
<1>1. Idx = 0 .. N - 1 /\ N \in Nat /\ 0 \in Idx /\ f \in Nat
  BY SizeAssumption DEF Idx
<1>2. \A g \in 0 .. f : adv[g].id \in Idx \cup {Unknown}
  BY <1>1 DEF Advert, Field
<1>3. Target(adv, f) = IF known = {} THEN 0 ELSE adv[last].id
  BY DEF Target
<1>4. known # {} => last \in known /\ \A h \in known : h <= last
  BY <1>1, GreatestUpto
<1> HIDE DEF last
<1>5. Target(adv, f) \in Idx
  BY <1>1, <1>2, <1>3, <1>4
<1>6. ASSUME \A g \in Idx : adv[g].id = g
      PROVE  Target(adv, f) = f
  <2>1. f \in known
    BY <1>1, <1>6 DEF Unknown
  <2>2. last = f
    BY <1>1, <1>4, <2>1
  <2> QED BY <1>3, <1>6, <2>1, <2>2
<1> QED BY <1>5, <1>6

\* What row src holds after some fields stems from the row or from a field.
LEMMA HeldFrom ==
  ASSUME NEW t \in Table, NEW src \in Idx, NEW adv \in Advert,
         NEW x \in Idx, NEW f \in 0 .. N
  PROVE  \/ Held(t, src, adv, x, f) = t.dv[src][x]
         \/ \E g \in Idx : /\ Target(adv, g) = x
                           /\ Held(t, src, adv, x, f) = adv[g].cost
<1> DEFINE hits == {g \in 0 .. f - 1 : Target(adv, g) = x}
           last == CHOOSE g \in hits : \A h \in hits : h <= g
<1>1. Idx = 0 .. N - 1 /\ N \in Nat /\ f \in Nat
  BY SizeAssumption DEF Idx
<1>2. Held(t, src, adv, x, f) =
        IF hits = {} THEN t.dv[src][x] ELSE adv[last].cost
  BY DEF Held
<1>3. CASE hits = {}
  BY <1>2, <1>3
<1>4. CASE hits # {}
  <2>1. hits \subseteq 0 .. f
    BY <1>1
  <2>2. \E g \in hits : \A h \in hits : h <= g
    BY <1>1, <1>4, <2>1, GreatestUpto
  <2>3. last \in hits
    BY <2>2
  <2> HIDE DEF last
  <2>4. last \in Idx /\ Target(adv, last) = x
    BY <1>1, <2>3
  <2> QED BY <1>2, <1>4, <2>4
<1> QED BY <1>3, <1>4

LEMMA HeldTyped ==
  ASSUME NEW t \in Table, NEW src \in Idx, NEW adv \in Advert,
         NEW x \in Idx, NEW f \in 0 .. N
  PROVE  Held(t, src, adv, x, f) \in Cost
<1>1. \A g \in Idx : adv[g].cost \in Cost
  BY DEF Advert, Field
<1>2. t.dv[src][x] \in Cost
  BY DEF Table
<1> QED BY <1>1, <1>2, HeldFrom

LEMMA MergeTyped ==
  ASSUME NEW me \in Idx, NEW t \in Table, NEW src \in Idx, NEW adv \in Advert
  PROVE  Merge(me, t, src, adv) \in Table
<1> DEFINE dropped == {x \in Idx : t.nh[x] = src /\ Worsened(t, src, adv, x)}
           row == [x \in Idx |-> Held(t, src, adv, x, N)]
<1>1. N \in 0 .. N /\ INF \in Cost /\ INF \in Hop
  BY SizeAssumption DEF Cost, Hop
<1>2. row \in [Idx -> Cost]
  BY <1>1, HeldTyped
<1>3. Merge(me, t, src, adv) =
        [dv |-> [t.dv EXCEPT
                    ![src] = row,
                    ![me]  = [x \in Idx |-> IF x \in dropped THEN INF
                                                             ELSE @[x]]],
         nh |-> [x \in Idx |-> IF x \in dropped THEN INF ELSE t.nh[x]]]
  BY DEF Merge
<1> HIDE DEF row, dropped
<1>4. t.dv \in [Idx -> [Idx -> Cost]] /\ t.nh \in [Idx -> Hop]
  BY DEF Table
<1>5. [t.dv EXCEPT ![src] = row] \in [Idx -> [Idx -> Cost]]
  BY <1>2, <1>4
<1> QED BY <1>1, <1>3, <1>4, <1>5 DEF Table

THEOREM ReceiveUpdateTyped ==
  ASSUME NEW me \in Idx, NEW t \in Table, NEW src \in Idx, NEW adv \in Advert
  PROVE  ReceiveUpdate(me, t, src, adv) \in Table
BY MergeTyped, BellmanFordTyped DEF ReceiveUpdate

LEMMA GiveUpTyped ==
  ASSUME NEW me \in Idx, NEW t \in Table, NEW lost
  PROVE  GiveUp(me, t, lost) \in Table
<1>1. INF \in Cost /\ INF \in Hop
  BY SizeAssumption DEF Cost, Hop
<1>2. t.dv \in [Idx -> [Idx -> Cost]] /\ t.nh \in [Idx -> Hop]
  BY DEF Table
<1> QED BY <1>1, <1>2 DEF GiveUp, Table

THEOREM ExpireTyped ==
  ASSUME NEW me \in Idx, NEW t \in Table, NEW lost
  PROVE  Expire(me, t, lost) \in Table
BY GiveUpTyped, BellmanFordTyped DEF Expire

LEMMA SetLinkTyped ==
  ASSUME NEW me \in Idx, NEW t \in Table, NEW r \in Idx, NEW c \in Cost
  PROVE  SetLink(me, t, r, c) \in Table
<1>1. INF \in Hop /\ r \in Hop
  BY DEF Hop
<1>2. t.dv \in [Idx -> [Idx -> Cost]] /\ t.nh \in [Idx -> Hop]
  BY DEF Table
<1> QED BY <1>1, <1>2 DEF SetLink, Table

LEMMA ClipTyped ==
  ASSUME NEW c \in Nat
  PROVE  Clip(c) \in Cost /\ (c <= INF => Clip(c) = c) /\ Clip(c) <= c
BY SizeAssumption DEF Clip, Cost

\* Reprice, entry by entry.
Repriced(me, t, r, u) ==
    /\ u \in Table
    /\ \A i \in Idx \ {me} : u.dv[i] = t.dv[i]
    /\ \A i \in Idx : t.nh[i] # r =>
          u.dv[me][i] = t.dv[me][i] /\ u.nh[i] = t.nh[i]
    /\ \A i \in Idx : t.nh[i] = r => \E b \in Nat :
          /\ b >= t.dv[me][r] \/ b >= INF
          /\ u.dv[me][i] = Clip(b + t.dv[r][i])
          /\ u.nh[i] = IF b + t.dv[r][i] > INF THEN INF ELSE r

LEMMA RepriceParts ==
  ASSUME NEW me \in Idx, NEW t \in Table, NEW r \in Idx
  PROVE  Repriced(me, t, r, Reprice(me, t, r))
<1> DEFINE base(i) == IF i > r /\ t.nh[r] = r
                      THEN Clip(t.dv[me][r] + t.dv[r][r]) ELSE t.dv[me][r]
           price(i) == base(i) + t.dv[r][i]
           moved == {i \in Idx : t.nh[i] = r}
           row == [i \in Idx |-> IF i \in moved THEN Clip(price(i))
                                                ELSE t.dv[me][i]]
           hops == [i \in Idx |-> IF i \in moved /\ price(i) > INF
                                  THEN INF ELSE t.nh[i]]
<1>1. /\ t.dv \in [Idx -> [Idx -> Cost]]
      /\ t.nh \in [Idx -> Hop]
      /\ \A i, j \in Idx : t.dv[i][j] \in 0 .. INF
      /\ INF \in Nat /\ INF \in Hop
  BY TableParts DEF Hop
<1>2. ASSUME NEW i \in Idx
      PROVE  /\ base(i) \in Nat /\ price(i) \in Nat
             /\ base(i) >= t.dv[me][r] \/ base(i) >= INF
             /\ price(i) = base(i) + t.dv[r][i]
  <2>1. t.dv[me][r] \in 0 .. INF /\ t.dv[r][r] \in 0 .. INF
           /\ t.dv[r][i] \in 0 .. INF
    BY <1>1
  <2>2. base(i) \in Nat /\ (base(i) >= t.dv[me][r] \/ base(i) >= INF)
    <3> DEFINE sum == t.dv[me][r] + t.dv[r][r]
    <3>1. sum \in Nat /\ sum >= t.dv[me][r]
      BY <1>1, <2>1
    <3> HIDE DEF sum
    <3>2. Clip(sum) \in Nat /\ (Clip(sum) >= t.dv[me][r] \/ Clip(sum) >= INF)
      BY <1>1, <2>1, <3>1 DEF Clip
    <3>3. base(i) = Clip(sum) \/ base(i) = t.dv[me][r]
      BY DEF sum
    <3> QED BY <1>1, <2>1, <3>2, <3>3
  <2>3. price(i) = base(i) + t.dv[r][i]
    OBVIOUS
  <2> HIDE DEF base, price
  <2> QED BY <1>1, <2>1, <2>2, <2>3
<1>3. Reprice(me, t, r) = [dv |-> [t.dv EXCEPT ![me] = row], nh |-> hops]
  <2>1. row = [i \in Idx |-> IF i \in moved THEN Clip(price(i))
                                            ELSE (t.dv[me])[i]]
    OBVIOUS
  <2> QED BY <1>1, <2>1 DEF Reprice
<1> HIDE DEF base, price
<1>4. row \in [Idx -> Cost]
  BY <1>1, <1>2, ClipTyped DEF Cost
<1>5. hops \in [Idx -> Hop]
  BY <1>1
<1>6. Reprice(me, t, r) \in Table
  BY <1>1, <1>3, <1>4, <1>5 DEF Table
<1>7. /\ Reprice(me, t, r).dv[me] = row
      /\ Reprice(me, t, r).nh = hops
      /\ \A i \in Idx \ {me} : Reprice(me, t, r).dv[i] = t.dv[i]
  BY <1>1, <1>3
<1>8. ASSUME NEW i \in Idx, t.nh[i] # r
      PROVE  row[i] = t.dv[me][i] /\ hops[i] = t.nh[i]
  BY <1>8
<1>9. ASSUME NEW i \in Idx, t.nh[i] = r
      PROVE  /\ row[i] = Clip(price(i))
             /\ hops[i] = IF price(i) > INF THEN INF ELSE r
  BY <1>9
<1> HIDE DEF row, hops
<1>10. ASSUME NEW i \in Idx, t.nh[i] = r
       PROVE  \E b \in Nat :
                /\ b >= t.dv[me][r] \/ b >= INF
                /\ row[i] = Clip(b + t.dv[r][i])
                /\ hops[i] = IF b + t.dv[r][i] > INF THEN INF ELSE r
  BY <1>2, <1>9, <1>10
<1> QED BY <1>6, <1>7, <1>8, <1>10 DEF Repriced

THEOREM UpdateCostTyped ==
  ASSUME NEW me \in Idx, NEW t \in Table, NEW r \in Idx, NEW c \in Cost
  PROVE  UpdateCost(me, t, r, c) \in Table
BY SetLinkTyped, RepriceParts, BellmanFordTyped DEF UpdateCost, Repriced

LEMMA InitTableTyped ==
  ASSUME NEW me \in Idx, NEW link \in [Idx -> Cost]
  PROVE  InitTable(me, link) \in Table
<1>1. 0 \in Cost /\ INF \in Cost /\ INF \in Hop /\ Idx \subseteq Hop
  BY SizeAssumption DEF Cost, Hop
<1> QED BY <1>1 DEF InitTable, Table

-----------------------------------------------------------------------------
(***************************************************************************)
(* One comparison of updateDVBybellmanFord, entry by entry.                *)
(***************************************************************************)

Relaxed(me, t, i, j, k, u) ==
    /\ u \in Table
    /\ \A a, b \in Idx : a # i \/ b # j => u.dv[a][b] = t.dv[a][b]
    /\ \A b \in Idx : i # me \/ b # j => u.nh[b] = t.nh[b]
    /\ \/ u.dv[i][j] = t.dv[i][j] /\ u.nh = t.nh
       \/ /\ t.dv[i][j] > t.dv[i][k] + t.dv[k][j]
          /\ u.dv[i][j] = t.dv[i][k] + t.dv[k][j]
          /\ i = me => u.nh[j] = t.nh[k]

LEMMA RelaxParts ==
  ASSUME NEW me \in Idx, NEW t \in Table,
         NEW i \in Idx, NEW j \in Idx, NEW k \in Idx
  PROVE  Relaxed(me, t, i, j, k, Relax(me, t, i, j, k))
<1> DEFINE u == Relax(me, t, i, j, k)
<1> SUFFICES Relaxed(me, t, i, j, k, u)
  OBVIOUS
<1> DEFINE via == t.dv[i][k] + t.dv[k][j]
           shorter == t.dv[i][j] > via
           c == Clip(IF shorter THEN via ELSE t.dv[i][j])
<1>1. /\ t.dv \in [Idx -> [Idx -> Cost]]
      /\ t.nh \in [Idx -> Hop]
      /\ t.dv[i][j] \in 0 .. INF /\ t.dv[i][k] \in 0 .. INF
      /\ t.dv[k][j] \in 0 .. INF /\ INF \in Nat
  BY TableParts
<1>2. u = [dv |-> [t.dv EXCEPT ![i][j] = c],
           nh |-> IF shorter /\ i = me THEN [t.nh EXCEPT ![j] = t.nh[k]]
                                       ELSE t.nh]
  BY DEF Relax
<1> HIDE DEF u
<1>3. CASE shorter
  <2>1. c = via
    BY <1>1, <1>3 DEF Clip
  <2> HIDE DEF c
  <2>2. u.dv = [t.dv EXCEPT ![i][j] = via]
    BY <1>2, <2>1
  <2>3. u.nh = IF i = me THEN [t.nh EXCEPT ![j] = t.nh[k]] ELSE t.nh
    BY <1>2, <1>3
  <2>4. u \in Table
    BY RelaxTyped DEF u
  <2> HIDE DEF via
  <2>5. /\ u.dv[i][j] = via
        /\ \A a, b \in Idx : a # i \/ b # j => u.dv[a][b] = t.dv[a][b]
    BY <1>1, <2>2
  <2>6. /\ i = me => u.nh[j] = t.nh[k]
        /\ \A b \in Idx : i # me \/ b # j => u.nh[b] = t.nh[b]
    BY <1>1, <2>3
  <2> QED BY <1>3, <2>4, <2>5, <2>6 DEF via, Relaxed
<1>4. CASE ~ shorter
  <2>1. c = t.dv[i][j]
    BY <1>1, <1>4 DEF Clip
  <2> HIDE DEF c
  <2>2. u.dv = [t.dv EXCEPT ![i][j] = t.dv[i][j]]
    BY <1>2, <2>1
  <2>3. u.nh = t.nh
    BY <1>2, <1>4
  <2>4. u \in Table
    BY RelaxTyped DEF u
  <2>5. \A a, b \in Idx : u.dv[a][b] = t.dv[a][b]
    BY <1>1, <2>2
  <2> QED BY <2>3, <2>4, <2>5 DEF Relaxed
<1> QED BY <1>3, <1>4

\* A round of Bellman-Ford makes no cost grow.
THEOREM BellmanFordNoWorse ==
  ASSUME NEW me \in Idx, NEW t \in Table
  PROVE  \A a, b \in Idx : BellmanFord(me, t).dv[a][b] <= t.dv[a][b]
<1> DEFINE V == {u \in Table : \A a, b \in Idx : u.dv[a][b] <= t.dv[a][b]}
<1>1. t \in V
  BY TableParts
<1>2. ASSUME NEW u \in V, NEW i \in Idx, NEW j \in Idx, NEW k \in Idx
      PROVE  Relax(me, u, i, j, k) \in V
  <2>1. u \in Table /\ \A a, b \in Idx : u.dv[a][b] <= t.dv[a][b]
    BY DEF V
  <2> HIDE DEF V
  <2>2. PICK w : w = Relax(me, u, i, j, k)
    OBVIOUS
  <2>3. Relaxed(me, u, i, j, k, w)
    BY <2>1, <2>2, RelaxParts
  <2>4. \A a, b \in Idx : /\ w.dv[a][b] \in Int
                          /\ u.dv[a][b] \in Int /\ t.dv[a][b] \in Int
    BY <2>1, <2>3, TableParts DEF Relaxed
  <2>5. ASSUME NEW a \in Idx, NEW b \in Idx
        PROVE  w.dv[a][b] <= t.dv[a][b]
    <3>1. w.dv[a][b] <= u.dv[a][b]
      BY <2>3, <2>4 DEF Relaxed
    <3>2. u.dv[a][b] <= t.dv[a][b]
      BY <2>1
    <3> QED BY <2>4, <3>1, <3>2
  <2> QED BY <2>2, <2>3, <2>5 DEF Relaxed, V
<1> HIDE DEF V
<1>3. V \subseteq Table
  BY DEF V
<1>4. BellmanFord(me, t) \in V
  BY <1>1, <1>2, <1>3, BellmanFordClosed
<1> QED BY <1>4 DEF V

-----------------------------------------------------------------------------
(***************************************************************************)
(* The tables of router me on which a property of its routes holds, and    *)
(* the operations that do not leave them.                                  *)
(***************************************************************************)

\* A finite cost comes with a next hop ...
Hopped(me) ==
    {t \in Table : \A j \in Idx : t.dv[me][j] < INF => t.nh[j] # INF}

\* ... and a next hop with a finite cost, at least of the routes to dsts.
Priced(me, dsts) ==
    {t \in Table :
        \A j \in Idx : j \in dsts /\ t.dv[me][j] = INF => t.nh[j] = INF}

\* The next hops are in nbrs, and the router itself is its own only.
Adjacent(me, nbrs) ==
    {t \in Table : \A j \in Idx : /\ t.nh[j] \in nbrs \cup {me, INF}
                                  /\ t.nh[j] = me => j = me}

\* No cost is below dist, and no route below the link to its next hop and dist
\* from there.
Paid(me, link, dist) ==
    {t \in Table :
        /\ \A a, b \in Idx : t.dv[a][b] >= dist[a][b]
        /\ \A j \in Idx : t.nh[j] # INF =>
              t.dv[me][j] >= link[me][t.nh[j]] + dist[t.nh[j]][j]}

LEMMA RelaxHopped ==
  ASSUME NEW me \in Idx, NEW t \in Hopped(me),
         NEW i \in Idx, NEW j \in Idx, NEW k \in Idx
  PROVE  Relax(me, t, i, j, k) \in Hopped(me)
<1>1. t \in Table /\ \A b \in Idx : t.dv[me][b] < INF => t.nh[b] # INF
  BY DEF Hopped
<1>2. PICK u : u = Relax(me, t, i, j, k)
  OBVIOUS
<1>3. Relaxed(me, t, i, j, k, u)
  BY <1>1, <1>2, RelaxParts
<1>4. ASSUME NEW b \in Idx, u.dv[me][b] < INF
      PROVE  u.nh[b] # INF
  <2>1. CASE me # i \/ b # j
    BY <1>1, <1>3, <1>4, <2>1 DEF Relaxed
  <2>2. CASE me = i /\ b = j
    <3>1. t.dv[i][k] \in 0 .. INF /\ t.dv[k][j] \in 0 .. INF /\ INF \in Nat
             /\ t.dv[i][j] \in 0 .. INF
      BY <1>1, TableParts
    <3>2. t.dv[i][j] > t.dv[i][k] + t.dv[k][j] => t.dv[me][k] < INF
      BY <2>2, <3>1
    <3> QED BY <1>1, <1>3, <1>4, <2>2, <3>2 DEF Relaxed
  <2> QED BY <2>1, <2>2
<1> QED BY <1>2, <1>3, <1>4 DEF Relaxed, Hopped

LEMMA RelaxPriced ==
  ASSUME NEW me \in Idx, NEW dsts, NEW t \in Priced(me, dsts),
         NEW i \in Idx, NEW j \in Idx, NEW k \in Idx
  PROVE  Relax(me, t, i, j, k) \in Priced(me, dsts)
<1>1. t \in Table /\ \A b \in Idx : b \in dsts /\ t.dv[me][b] = INF => t.nh[b] = INF
  BY DEF Priced
<1>2. PICK u : u = Relax(me, t, i, j, k)
  OBVIOUS
<1>3. Relaxed(me, t, i, j, k, u)
  BY <1>1, <1>2, RelaxParts
<1>4. ASSUME NEW b \in Idx, b \in dsts, u.dv[me][b] = INF
      PROVE  u.nh[b] = INF
  <2>1. CASE me # i \/ b # j
    BY <1>1, <1>3, <1>4, <2>1 DEF Relaxed
  <2>2. CASE me = i /\ b = j
    <3>1. t.dv[i][j] \in 0 .. INF /\ INF \in Nat
      BY <1>1, TableParts
    <3>2. ~ (t.dv[i][j] > INF)
      BY <3>1
    <3> QED BY <1>1, <1>3, <1>4, <2>2, <3>2 DEF Relaxed
  <2> QED BY <2>1, <2>2
<1> QED BY <1>2, <1>3, <1>4 DEF Relaxed, Priced

LEMMA RelaxAdjacent ==
  ASSUME NEW me \in Idx, NEW nbrs, NEW t \in Adjacent(me, nbrs),
         NEW i \in Idx, NEW j \in Idx, NEW k \in Idx
  PROVE  Relax(me, t, i, j, k) \in Adjacent(me, nbrs)
<1>1. t \in Table /\ \A b \in Idx : /\ t.nh[b] \in nbrs \cup {me, INF}
                                    /\ t.nh[b] = me => b = me
  BY DEF Adjacent
<1>2. PICK u : u = Relax(me, t, i, j, k)
  OBVIOUS
<1>3. Relaxed(me, t, i, j, k, u)
  BY <1>1, <1>2, RelaxParts
<1>4. ASSUME NEW b \in Idx
      PROVE  /\ u.nh[b] \in nbrs \cup {me, INF}
             /\ u.nh[b] = me => b = me
  <2>1. CASE i # me \/ b # j \/ u.nh = t.nh
    BY <1>1, <1>3, <2>1 DEF Relaxed
  <2>2. CASE /\ i = me /\ b = j
             /\ t.dv[i][j] > t.dv[i][k] + t.dv[k][j]
             /\ u.nh[j] = t.nh[k]
    <3>1. t.dv[me][j] \in 0 .. INF /\ t.dv[me][k] \in 0 .. INF /\ INF \in Nat
      BY <1>1, TableParts
    <3>2. k # me
      BY <2>2, <3>1
    <3> QED BY <1>1, <2>2, <3>2
  <2> QED BY <1>3, <2>1, <2>2 DEF Relaxed
<1> QED BY <1>2, <1>3, <1>4 DEF Relaxed, Adjacent

\* dist satisfies the triangle inequality and no link costs less.
LowerBounds(link, dist) ==
    /\ link \in [Idx -> [Idx -> Cost]]
    /\ dist \in [Idx -> [Idx -> Cost]]
    /\ \A a \in Idx : link[a][a] = 0
    /\ \A a, b \in Idx : dist[a][b] <= link[a][b]
    /\ \A a, b, c \in Idx : dist[a][c] <= dist[a][b] + dist[b][c]

LEMMA LowerBoundsTyped ==
  ASSUME NEW link, NEW dist, LowerBounds(link, dist)
  PROVE  /\ \A a, b \in Idx : link[a][b] \in 0 .. INF /\ dist[a][b] \in 0 .. INF
         /\ \A a \in Idx : dist[a][a] = 0
<1>1. \A a, b \in Idx : link[a][b] \in 0 .. INF /\ dist[a][b] \in 0 .. INF
  BY SizeAssumption DEF LowerBounds, Cost
<1> QED BY <1>1, SizeAssumption DEF LowerBounds

LEMMA RelaxPaid ==
  ASSUME NEW me \in Idx, NEW link, NEW dist, LowerBounds(link, dist),
         NEW t \in Paid(me, link, dist),
         NEW i \in Idx, NEW j \in Idx, NEW k \in Idx
  PROVE  Relax(me, t, i, j, k) \in Paid(me, link, dist)
<1>1. /\ t \in Table
      /\ \A a, b \in Idx : t.dv[a][b] >= dist[a][b]
      /\ \A b \in Idx : t.nh[b] # INF =>
            t.dv[me][b] >= link[me][t.nh[b]] + dist[t.nh[b]][b]
  BY DEF Paid
<1>2. PICK u : u = Relax(me, t, i, j, k)
  OBVIOUS
<1>3. Relaxed(me, t, i, j, k, u)
  BY <1>1, <1>2, RelaxParts
<1>4. /\ \A a, b \in Idx : t.dv[a][b] \in 0 .. INF
      /\ \A a, b \in Idx : link[a][b] \in 0 .. INF /\ dist[a][b] \in 0 .. INF
      /\ \A b \in Idx : t.nh[b] # INF => t.nh[b] \in Idx
      /\ INF \in Nat
  BY <1>1, TableParts, LowerBoundsTyped DEF Hop
<1>5. \A a, b, c \in Idx : dist[a][c] <= dist[a][b] + dist[b][c]
  BY DEF LowerBounds
<1>6. ASSUME NEW a \in Idx, NEW b \in Idx
      PROVE  u.dv[a][b] >= dist[a][b]
  <2>1. CASE u.dv[a][b] = t.dv[a][b]
    BY <1>1, <2>1
  <2>2. CASE /\ a = i /\ b = j
             /\ u.dv[i][j] = t.dv[i][k] + t.dv[k][j]
    <3>1. t.dv[i][k] >= dist[i][k] /\ t.dv[k][j] >= dist[k][j]
      BY <1>1
    <3>2. dist[i][j] <= dist[i][k] + dist[k][j]
      BY <1>5
    <3>3. t.dv[i][k] + t.dv[k][j] >= dist[i][j]
      BY <1>4, <3>1, <3>2
    <3> QED BY <2>2, <3>3
  <2> QED BY <1>3, <2>1, <2>2 DEF Relaxed
<1>7. ASSUME NEW b \in Idx, u.nh[b] # INF
      PROVE  u.dv[me][b] >= link[me][u.nh[b]] + dist[u.nh[b]][b]
  <2>1. CASE u.dv[me][b] = t.dv[me][b] /\ u.nh[b] = t.nh[b]
    BY <1>1, <1>7, <2>1
  <2>2. CASE /\ i = me /\ b = j
             /\ u.dv[i][j] = t.dv[i][k] + t.dv[k][j]
             /\ u.nh[j] = t.nh[k]
    <3>1. PICK h \in Idx : h = t.nh[k]
      BY <1>4, <1>7, <2>2
    <3>2. t.dv[me][k] >= link[me][h] + dist[h][k]
      BY <1>1, <1>7, <2>2, <3>1
    <3>3. t.dv[k][j] >= dist[k][j] /\ dist[h][j] <= dist[h][k] + dist[k][j]
      BY <1>1, <1>5
    <3>4. t.dv[me][k] + t.dv[k][j] >= link[me][h] + dist[h][j]
      <4>1. /\ t.dv[me][k] \in Nat /\ t.dv[k][j] \in Nat /\ link[me][h] \in Nat
            /\ dist[h][k] \in Nat /\ dist[k][j] \in Nat /\ dist[h][j] \in Nat
        BY <1>4
      <4> QED BY <3>2, <3>3, <4>1
    <3> QED BY <2>2, <3>1, <3>4
  <2> QED BY <1>3, <2>1, <2>2 DEF Relaxed
<1> QED BY <1>2, <1>3, <1>6, <1>7 DEF Paid, Relaxed

\* A round of Bellman-Ford leaves none of the four sets.
THEOREM BellmanFordKeeps ==
  ASSUME NEW me \in Idx, NEW t \in Table
  PROVE  /\ t \in Hopped(me) => BellmanFord(me, t) \in Hopped(me)
         /\ \A dsts : t \in Priced(me, dsts) =>
               BellmanFord(me, t) \in Priced(me, dsts)
         /\ \A nbrs : t \in Adjacent(me, nbrs) =>
               BellmanFord(me, t) \in Adjacent(me, nbrs)
         /\ \A link, dist :
               LowerBounds(link, dist) /\ t \in Paid(me, link, dist) =>
               BellmanFord(me, t) \in Paid(me, link, dist)
<1>1. ASSUME t \in Hopped(me)
      PROVE  BellmanFord(me, t) \in Hopped(me)
  <2>1. Hopped(me) \subseteq Table
    BY DEF Hopped
  <2> QED BY <1>1, <2>1, RelaxHopped, BellmanFordClosed
<1>2. ASSUME NEW dsts, t \in Priced(me, dsts)
      PROVE  BellmanFord(me, t) \in Priced(me, dsts)
  <2>1. Priced(me, dsts) \subseteq Table
    BY DEF Priced
  <2> QED BY <1>2, <2>1, RelaxPriced, BellmanFordClosed
<1>3. ASSUME NEW nbrs, t \in Adjacent(me, nbrs)
      PROVE  BellmanFord(me, t) \in Adjacent(me, nbrs)
  <2>1. Adjacent(me, nbrs) \subseteq Table
    BY DEF Adjacent
  <2> QED BY <1>3, <2>1, RelaxAdjacent, BellmanFordClosed
<1>4. ASSUME NEW link, NEW dist, LowerBounds(link, dist),
             t \in Paid(me, link, dist)
      PROVE  BellmanFord(me, t) \in Paid(me, link, dist)
  <2>1. Paid(me, link, dist) \subseteq Table
    BY DEF Paid
  <2> QED BY <1>4, <2>1, RelaxPaid, BellmanFordClosed
<1> QED BY <1>1, <1>2, <1>3, <1>4

-----------------------------------------------------------------------------
(***************************************************************************)
(* What comes before the round of Bellman-Ford only gives routes up, or    *)
(* prices them again.                                                      *)
(***************************************************************************)

\* From t to u, router me gave up some routes and kept the others.
Cut(me, t, u) ==
    /\ u \in Table
    /\ \A x \in Idx : \/ u.dv[me][x] = t.dv[me][x] /\ u.nh[x] = t.nh[x]
                      \/ u.dv[me][x] = INF /\ u.nh[x] = INF

LEMMA CutKeeps ==
  ASSUME NEW me \in Idx, NEW t \in Table, NEW u, Cut(me, t, u)
  PROVE  /\ t \in Hopped(me) => u \in Hopped(me)
         /\ \A dsts : t \in Priced(me, dsts) => u \in Priced(me, dsts)
         /\ \A nbrs : t \in Adjacent(me, nbrs) => u \in Adjacent(me, nbrs)
<1>1. INF \in Nat /\ me # INF
  BY SizeAssumption DEF Idx
<1>2. t \in Hopped(me) => u \in Hopped(me)
  BY <1>1 DEF Cut, Hopped
<1>3. ASSUME NEW dsts, t \in Priced(me, dsts)
      PROVE  u \in Priced(me, dsts)
  BY <1>1, <1>3 DEF Cut, Priced
<1>4. ASSUME NEW nbrs, t \in Adjacent(me, nbrs)
      PROVE  u \in Adjacent(me, nbrs)
  BY <1>1, <1>4 DEF Cut, Adjacent
<1> QED BY <1>2, <1>3, <1>4

LEMMA CutPaid ==
  ASSUME NEW me \in Idx, NEW link, NEW dist, LowerBounds(link, dist),
         NEW t \in Paid(me, link, dist), NEW u, Cut(me, t, u),
         \A a \in Idx \ {me}, b \in Idx : u.dv[a][b] >= dist[a][b]
  PROVE  u \in Paid(me, link, dist)
<1>1. /\ t \in Table
      /\ \A a, b \in Idx : t.dv[a][b] >= dist[a][b]
      /\ \A b \in Idx : t.nh[b] # INF =>
            t.dv[me][b] >= link[me][t.nh[b]] + dist[t.nh[b]][b]
  BY DEF Paid
<1>2. \A b \in Idx : dist[me][b] \in 0 .. INF
  BY LowerBoundsTyped
<1>3. ASSUME NEW a \in Idx, NEW b \in Idx
      PROVE  u.dv[a][b] >= dist[a][b]
  <2>1. CASE a = me
    BY <1>1, <1>2, <2>1, SizeAssumption DEF Cut
  <2> QED BY <2>1
<1>4. ASSUME NEW b \in Idx, u.nh[b] # INF
      PROVE  u.dv[me][b] >= link[me][u.nh[b]] + dist[u.nh[b]][b]
  <2>1. u.dv[me][b] = t.dv[me][b] /\ u.nh[b] = t.nh[b]
    BY <1>4 DEF Cut
  <2> QED BY <1>1, <1>4, <2>1
<1> QED BY <1>3, <1>4 DEF Paid, Cut

LEMMA MergeParts ==
  ASSUME NEW me \in Idx, NEW t \in Table, NEW src \in Idx \ {me},
         NEW adv \in Advert, NEW u, u = Merge(me, t, src, adv)
  PROVE  /\ Cut(me, t, u)
         /\ \A x \in Idx : t.nh[x] # src => u.dv[me][x] = t.dv[me][x]
         /\ \A a \in Idx \ {me, src} : u.dv[a] = t.dv[a]
         /\ \A x \in Idx : u.dv[src][x] = Held(t, src, adv, x, N)
<1> DEFINE dropped == {x \in Idx : t.nh[x] = src /\ Worsened(t, src, adv, x)}
           row == [x \in Idx |-> Held(t, src, adv, x, N)]
<1>1. u = [dv |-> [t.dv EXCEPT
                      ![src] = row,
                      ![me]  = [x \in Idx |-> IF x \in dropped THEN INF
                                                               ELSE @[x]]],
           nh |-> [x \in Idx |-> IF x \in dropped THEN INF ELSE t.nh[x]]]
  BY DEF Merge
<1>2. u \in Table
  BY MergeTyped
<1>3. \A x \in Idx : row[x] = Held(t, src, adv, x, N)
  OBVIOUS
<1>4. \A x \in Idx : t.nh[x] # src => x \notin dropped
  OBVIOUS
<1> HIDE DEF row, dropped
<1>5. t.dv \in [Idx -> [Idx -> Cost]] /\ t.nh \in [Idx -> Hop]
  BY TableParts
<1>6. /\ u.dv[src] = row
      /\ u.dv[me] = [x \in Idx |-> IF x \in dropped THEN INF ELSE t.dv[me][x]]
      /\ \A a \in Idx \ {me, src} : u.dv[a] = t.dv[a]
      /\ u.nh = [x \in Idx |-> IF x \in dropped THEN INF ELSE t.nh[x]]
  BY <1>1, <1>5
<1>7. Cut(me, t, u)
  BY <1>2, <1>6 DEF Cut
<1> QED BY <1>3, <1>4, <1>6, <1>7

LEMMA GiveUpParts ==
  ASSUME NEW me \in Idx, NEW t \in Table, NEW lost
  PROVE  /\ Cut(me, t, GiveUp(me, t, lost))
         /\ \A x \in Idx \ lost : GiveUp(me, t, lost).dv[me][x] = t.dv[me][x]
         /\ \A a \in Idx \ {me} : GiveUp(me, t, lost).dv[a] = t.dv[a]
<1>1. t.dv \in [Idx -> [Idx -> Cost]] /\ t.nh \in [Idx -> Hop]
  BY TableParts
<1>2. GiveUp(me, t, lost) \in Table
  BY GiveUpTyped
<1> QED BY <1>1, <1>2 DEF Cut, GiveUp

\* main_loop, select timed out: the routes keep their properties, and no cost
\* grows but those of the neighbors given up.
THEOREM ExpireKeeps ==
  ASSUME NEW me \in Idx, NEW t \in Table, NEW lost
  PROVE  /\ t \in Hopped(me) => Expire(me, t, lost) \in Hopped(me)
         /\ \A dsts : t \in Priced(me, dsts) =>
               Expire(me, t, lost) \in Priced(me, dsts)
         /\ \A nbrs : t \in Adjacent(me, nbrs) =>
               Expire(me, t, lost) \in Adjacent(me, nbrs)
         /\ \A link, dist :
               LowerBounds(link, dist) /\ t \in Paid(me, link, dist) =>
               Expire(me, t, lost) \in Paid(me, link, dist)
         /\ \A x \in Idx \ lost : Expire(me, t, lost).dv[me][x] <= t.dv[me][x]
<1>1. PICK u : u = GiveUp(me, t, lost)
  OBVIOUS
<1>2. /\ Cut(me, t, u)
      /\ \A x \in Idx \ lost : u.dv[me][x] = t.dv[me][x]
      /\ \A a \in Idx \ {me} : u.dv[a] = t.dv[a]
  BY <1>1, GiveUpParts
<1>3. u \in Table
  BY <1>2 DEF Cut
<1>4. Expire(me, t, lost) = BellmanFord(me, u)
  BY <1>1 DEF Expire
<1>5. ASSUME NEW link, NEW dist, LowerBounds(link, dist),
             t \in Paid(me, link, dist)
      PROVE  u \in Paid(me, link, dist)
  <2>1. \A a \in Idx \ {me}, b \in Idx : u.dv[a][b] >= dist[a][b]
    BY <1>2, <1>5 DEF Paid
  <2> QED BY <1>2, <1>5, <2>1, CutPaid
<1>6. \A x \in Idx : BellmanFord(me, u).dv[me][x] <= u.dv[me][x]
  BY <1>3, BellmanFordNoWorse
<1> QED BY <1>2, <1>3, <1>4, <1>5, <1>6, CutKeeps, BellmanFordKeeps

\* recv_update_distanceVector: the same, and no cost grows but those of the
\* routes through the sender.
THEOREM ReceiveUpdateKeeps ==
  ASSUME NEW me \in Idx, NEW t \in Table, NEW src \in Idx \ {me},
         NEW adv \in Advert
  PROVE  LET w == ReceiveUpdate(me, t, src, adv) IN
         /\ t \in Hopped(me) => w \in Hopped(me)
         /\ \A dsts : t \in Priced(me, dsts) => w \in Priced(me, dsts)
         /\ \A nbrs : t \in Adjacent(me, nbrs) => w \in Adjacent(me, nbrs)
         /\ \A link, dist :
               /\ LowerBounds(link, dist)
               /\ t \in Paid(me, link, dist)
               /\ \A g \in Idx : adv[g].id = g /\ adv[g].cost >= dist[src][g]
               => w \in Paid(me, link, dist)
         /\ \A x \in Idx : t.nh[x] # src => w.dv[me][x] <= t.dv[me][x]
<1>1. PICK u : u = Merge(me, t, src, adv)
  OBVIOUS
<1>2. /\ Cut(me, t, u)
      /\ \A x \in Idx : t.nh[x] # src => u.dv[me][x] = t.dv[me][x]
      /\ \A a \in Idx \ {me, src} : u.dv[a] = t.dv[a]
      /\ \A x \in Idx : u.dv[src][x] = Held(t, src, adv, x, N)
  BY <1>1, MergeParts
<1>3. u \in Table
  BY <1>2 DEF Cut
<1>4. PICK w : w = ReceiveUpdate(me, t, src, adv)
  OBVIOUS
<1>5. w = BellmanFord(me, u)
  BY <1>1, <1>4 DEF ReceiveUpdate
<1>6. ASSUME NEW link, NEW dist, LowerBounds(link, dist),
             t \in Paid(me, link, dist),
             \A g \in Idx : adv[g].id = g /\ adv[g].cost >= dist[src][g]
      PROVE  w \in Paid(me, link, dist)
  <2>1. ASSUME NEW x \in Idx
        PROVE  u.dv[src][x] >= dist[src][x]
    <3>1. N \in 0 .. N
      BY SizeAssumption
    <3>2. \/ u.dv[src][x] = t.dv[src][x]
          \/ \E g \in Idx : Target(adv, g) = x /\ u.dv[src][x] = adv[g].cost
      BY <1>2, <3>1, HeldFrom
    <3>3. \A g \in Idx : Target(adv, g) = g
      BY <1>6, TargetTyped
    <3>4. t.dv[src][x] >= dist[src][x]
      BY <1>6 DEF Paid
    <3> QED BY <1>6, <3>2, <3>3, <3>4
  <2>2. \A a \in Idx \ {me}, b \in Idx : u.dv[a][b] >= dist[a][b]
    BY <1>2, <1>6, <2>1 DEF Paid
  <2>3. u \in Paid(me, link, dist)
    BY <1>2, <1>6, <2>2, CutPaid
  <2> QED BY <1>3, <1>5, <1>6, <2>3, BellmanFordKeeps
<1>7. \A x \in Idx : w.dv[me][x] <= u.dv[me][x]
  BY <1>3, <1>5, BellmanFordNoWorse
<1>8. /\ t \in Hopped(me) => w \in Hopped(me)
      /\ \A dsts : t \in Priced(me, dsts) => w \in Priced(me, dsts)
      /\ \A nbrs : t \in Adjacent(me, nbrs) => w \in Adjacent(me, nbrs)
  BY <1>2, <1>3, <1>5, CutKeeps, BellmanFordKeeps
<1> QED BY <1>2, <1>4, <1>6, <1>7, <1>8

\* SetLink, entry by entry.
Linked(me, t, r, c, u) ==
    /\ u \in Table
    /\ u.dv[me][r] = c
    /\ \A a, b \in Idx : a # me \/ b # r => u.dv[a][b] = t.dv[a][b]
    /\ \A b \in Idx \ {r} : u.nh[b] = t.nh[b]
    /\ u.nh[r] = IF t.dv[me][r] > c THEN r
                 ELSE IF c = INF THEN INF ELSE t.nh[r]

LEMMA SetLinkParts ==
  ASSUME NEW me \in Idx, NEW t \in Table, NEW r \in Idx, NEW c \in Cost
  PROVE  Linked(me, t, r, c, SetLink(me, t, r, c))
<1> DEFINE u == SetLink(me, t, r, c)
<1>1. t.dv \in [Idx -> [Idx -> Cost]] /\ t.nh \in [Idx -> Hop]
  BY TableParts
<1>2. u \in Table
  BY SetLinkTyped
<1>3. u = [dv |-> [t.dv EXCEPT ![me][r] = c],
           nh |-> [t.nh EXCEPT ![r] = IF t.dv[me][r] > c THEN r
                                      ELSE IF c = INF THEN INF ELSE t.nh[r]]]
  BY DEF SetLink
<1> HIDE DEF u
<1>4. /\ u.dv[me][r] = c
      /\ \A a, b \in Idx : a # me \/ b # r => u.dv[a][b] = t.dv[a][b]
      /\ \A b \in Idx \ {r} : u.nh[b] = t.nh[b]
      /\ u.nh[r] = IF t.dv[me][r] > c THEN r
                   ELSE IF c = INF THEN INF ELSE t.nh[r]
  BY <1>1, <1>3
<1>5. Linked(me, t, r, c, u)
  BY <1>2, <1>4 DEF Linked
<1> QED BY <1>5 DEF u

LEMMA SetLinkKeeps ==
  ASSUME NEW me \in Idx, NEW t \in Table, NEW r \in Idx \ {me}, NEW c \in Cost
  PROVE  /\ t \in Hopped(me) => SetLink(me, t, r, c) \in Hopped(me)
         /\ \A nbrs : t \in Adjacent(me, nbrs) /\ r \in nbrs =>
               SetLink(me, t, r, c) \in Adjacent(me, nbrs)
         /\ \A link, dist :
               /\ LowerBounds(link, dist)
               /\ t \in Paid(me, link, dist)
               /\ c >= link[me][r]
               => SetLink(me, t, r, c) \in Paid(me, link, dist)
<1>1. PICK u : u = SetLink(me, t, r, c)
  OBVIOUS
<1>2. Linked(me, t, r, c, u)
  BY <1>1, SetLinkParts
<1>3. /\ \A a, b \in Idx : t.dv[a][b] \in 0 .. INF
      /\ INF \in Nat /\ c \in 0 .. INF
      /\ r \in Idx /\ r # INF
  <2>1. INF \notin Idx
    BY SizeAssumption DEF Idx
  <2> QED BY <2>1, TableParts DEF Cost
<1>4. ASSUME t \in Hopped(me)
      PROVE  u \in Hopped(me)
  <2>1. ASSUME u.dv[me][r] < INF
        PROVE  u.nh[r] # INF
    <3>1. ~ (t.dv[me][r] > c) => t.dv[me][r] < INF
      BY <1>2, <1>3, <2>1 DEF Linked
    <3>2. t.dv[me][r] < INF => t.nh[r] # INF
      BY <1>4 DEF Hopped
    <3> QED BY <1>2, <1>3, <2>1, <3>1, <3>2 DEF Linked
  <2>2. \A b \in Idx \ {r} : u.dv[me][b] < INF => u.nh[b] # INF
    BY <1>2, <1>4 DEF Hopped, Linked
  <2> QED BY <1>2, <2>1, <2>2 DEF Hopped, Linked
<1>5. ASSUME NEW nbrs, t \in Adjacent(me, nbrs), r \in nbrs
      PROVE  u \in Adjacent(me, nbrs)
  <2>1. me # INF
    BY SizeAssumption DEF Idx
  <2> QED BY <1>2, <1>5, <2>1 DEF Adjacent, Linked
<1>6. ASSUME NEW link, NEW dist, LowerBounds(link, dist),
             t \in Paid(me, link, dist), c >= link[me][r]
      PROVE  u \in Paid(me, link, dist)
  <2>1. /\ \A a, b \in Idx : t.dv[a][b] >= dist[a][b]
        /\ \A b \in Idx : t.nh[b] # INF =>
              t.dv[me][b] >= link[me][t.nh[b]] + dist[t.nh[b]][b]
    BY <1>6 DEF Paid
  <2>2. /\ \A a, b \in Idx : link[a][b] \in 0 .. INF /\ dist[a][b] \in 0 .. INF
        /\ dist[r][r] = 0
        /\ dist[me][r] <= link[me][r]
    BY <1>6, LowerBoundsTyped DEF LowerBounds
  <2>3. \A a, b \in Idx : u.dv[a][b] >= dist[a][b]
    <3>1. c >= dist[me][r]
      <4>1. link[me][r] \in Nat /\ dist[me][r] \in Nat
        BY <2>2
      <4> QED BY <1>3, <1>6, <2>2, <4>1
    <3> QED BY <1>2, <2>1, <3>1 DEF Linked
  <2>4. ASSUME u.nh[r] # INF
        PROVE  c >= link[me][u.nh[r]] + dist[u.nh[r]][r]
    <3>1. CASE u.nh[r] = r
      <4>1. link[me][r] \in Nat
        BY <2>2
      <4> QED BY <1>3, <1>6, <2>2, <3>1, <4>1
    <3>2. CASE u.nh[r] = t.nh[r] /\ ~ (t.dv[me][r] > c)
      <4>1. PICK h \in Idx : h = t.nh[r]
        BY <2>4, <3>2, TableParts DEF Hop
      <4>2. t.dv[me][r] >= link[me][h] + dist[h][r]
        BY <2>1, <2>4, <3>2, <4>1
      <4>3. /\ link[me][h] \in Nat /\ dist[h][r] \in Nat
            /\ t.dv[me][r] \in Nat /\ c \in Nat
        BY <1>3, <2>2
      <4>4. c >= link[me][h] + dist[h][r]
        BY <3>2, <4>2, <4>3
      <4> QED BY <3>2, <4>1, <4>4
    <3> QED BY <1>2, <2>4, <3>1, <3>2 DEF Linked
  <2> QED BY <1>2, <2>1, <2>3, <2>4 DEF Paid, Linked
<1> QED BY <1>1, <1>4, <1>5, <1>6

LEMMA RepriceKeeps ==
  ASSUME NEW me \in Idx, NEW t \in Table, NEW r \in Idx \ {me}
  PROVE  /\ t \in Hopped(me) => Reprice(me, t, r) \in Hopped(me)
         /\ \A nbrs : t \in Adjacent(me, nbrs) =>
               Reprice(me, t, r) \in Adjacent(me, nbrs)
         /\ \A link, dist :
               /\ LowerBounds(link, dist)
               /\ t \in Paid(me, link, dist)
               /\ t.dv[me][r] >= link[me][r]
               => Reprice(me, t, r) \in Paid(me, link, dist)
<1>1. PICK u : u = Reprice(me, t, r)
  OBVIOUS
<1>2. Repriced(me, t, r, u)
  BY <1>1, RepriceParts
<1>3. /\ \A a, b \in Idx : t.dv[a][b] \in 0 .. INF
      /\ INF \in Nat /\ r # INF /\ me # INF
  BY TableParts, SizeAssumption DEF Idx
<1>4. ASSUME t \in Hopped(me), NEW i \in Idx, u.dv[me][i] < INF
      PROVE  u.nh[i] # INF
  <2>1. CASE t.nh[i] # r
    BY <1>2, <1>4, <2>1 DEF Hopped, Repriced
  <2>2. CASE t.nh[i] = r
    <3>1. PICK b \in Nat : /\ u.dv[me][i] = Clip(b + t.dv[r][i])
                           /\ u.nh[i] = IF b + t.dv[r][i] > INF THEN INF ELSE r
      BY <1>2, <2>2 DEF Repriced
    <3>2. ~ (b + t.dv[r][i] > INF)
      BY <1>3, <1>4, <3>1 DEF Clip
    <3> QED BY <1>3, <3>1, <3>2
  <2> QED BY <2>1, <2>2
<1>5. ASSUME NEW nbrs, t \in Adjacent(me, nbrs), NEW i \in Idx
      PROVE  /\ u.nh[i] \in nbrs \cup {me, INF}
             /\ u.nh[i] = me => i = me
  <2>1. u.nh[i] = t.nh[i] \/ u.nh[i] = INF
    BY <1>2 DEF Repriced
  <2> QED BY <1>3, <1>5, <2>1 DEF Adjacent
<1>6. ASSUME NEW link, NEW dist, LowerBounds(link, dist),
             t \in Paid(me, link, dist), t.dv[me][r] >= link[me][r]
      PROVE  u \in Paid(me, link, dist)
  <2>1. /\ \A a, b \in Idx : t.dv[a][b] >= dist[a][b]
        /\ \A b \in Idx : t.nh[b] # INF =>
              t.dv[me][b] >= link[me][t.nh[b]] + dist[t.nh[b]][b]
    BY <1>6 DEF Paid
  <2>2. /\ \A a, b \in Idx : link[a][b] \in 0 .. INF /\ dist[a][b] \in 0 .. INF
        /\ dist[me][r] <= link[me][r]
        /\ \A a, b, c \in Idx : dist[a][c] <= dist[a][b] + dist[b][c]
    BY <1>6, LowerBoundsTyped DEF LowerBounds
  <2>3. ASSUME NEW i \in Idx, t.nh[i] = r
        PROVE  /\ u.dv[me][i] >= dist[me][i]
               /\ u.nh[i] # INF =>
                     u.nh[i] = r /\ u.dv[me][i] >= link[me][r] + dist[r][i]
    <3>1. PICK b \in Nat : /\ b >= t.dv[me][r] \/ b >= INF
                           /\ u.dv[me][i] = Clip(b + t.dv[r][i])
                           /\ u.nh[i] = IF b + t.dv[r][i] > INF THEN INF ELSE r
      BY <1>2, <2>3 DEF Repriced
    <3>2. /\ link[me][r] \in 0 .. INF /\ dist[me][r] \in 0 .. INF
          /\ dist[r][i] \in 0 .. INF /\ dist[me][i] \in 0 .. INF
          /\ t.dv[me][r] \in 0 .. INF /\ t.dv[r][i] \in 0 .. INF
      BY <1>3, <2>2
    <3>3. b >= link[me][r]
      BY <1>3, <1>6, <3>1, <3>2
    <3>4. t.dv[r][i] >= dist[r][i] /\ dist[me][i] <= dist[me][r] + dist[r][i]
      BY <2>1, <2>2
    <3>5. b + t.dv[r][i] >= link[me][r] + dist[r][i]
      BY <3>2, <3>3, <3>4
    <3>6. b + t.dv[r][i] >= dist[me][i]
      BY <2>2, <3>2, <3>4, <3>5
    <3> DEFINE p == b + t.dv[r][i]
    <3>7. p \in Nat
      BY <3>2
    <3> HIDE DEF p
    <3>8. Clip(p) = IF p > INF THEN INF ELSE p
      BY DEF Clip
    <3> QED BY <1>3, <3>1, <3>2, <3>5, <3>6, <3>7, <3>8 DEF p
  <2>4. \A a, b \in Idx : u.dv[a][b] >= dist[a][b]
    BY <1>2, <2>1, <2>3 DEF Repriced
  <2>5. \A i \in Idx : u.nh[i] # INF =>
           u.dv[me][i] >= link[me][u.nh[i]] + dist[u.nh[i]][i]
    BY <1>2, <2>1, <2>3 DEF Repriced
  <2> QED BY <1>2, <2>4, <2>5 DEF Paid, Repriced
<1> QED BY <1>1, <1>2, <1>4, <1>5, <1>6 DEF Hopped, Adjacent, Repriced

\* updateCost: the routes keep their next hops and go on paying for them.
THEOREM UpdateCostKeeps ==
  ASSUME NEW me \in Idx, NEW t \in Table, NEW r \in Idx \ {me}, NEW c \in Cost
  PROVE  /\ t \in Hopped(me) => UpdateCost(me, t, r, c) \in Hopped(me)
         /\ \A nbrs : t \in Adjacent(me, nbrs) /\ r \in nbrs =>
               UpdateCost(me, t, r, c) \in Adjacent(me, nbrs)
         /\ \A link, dist :
               /\ LowerBounds(link, dist)
               /\ t \in Paid(me, link, dist)
               /\ c >= link[me][r]
               => UpdateCost(me, t, r, c) \in Paid(me, link, dist)
<1>1. PICK u : u = SetLink(me, t, r, c)
  OBVIOUS
<1>2. u \in Table /\ u.dv[me][r] = c
  <2>1. Linked(me, t, r, c, u)
    BY <1>1, SetLinkParts
  <2> QED BY <2>1 DEF Linked
<1>3. PICK w : w = Reprice(me, u, r)
  OBVIOUS
<1>4. w \in Table
  <2>1. Repriced(me, u, r, w)
    BY <1>2, <1>3, RepriceParts
  <2> QED BY <2>1 DEF Repriced
<1>5. UpdateCost(me, t, r, c) = BellmanFord(me, w)
  BY <1>1, <1>3 DEF UpdateCost
<1>6. /\ t \in Hopped(me) => u \in Hopped(me)
      /\ \A nbrs : t \in Adjacent(me, nbrs) /\ r \in nbrs =>
            u \in Adjacent(me, nbrs)
      /\ \A link, dist :
            /\ LowerBounds(link, dist)
            /\ t \in Paid(me, link, dist)
            /\ c >= link[me][r]
            => u \in Paid(me, link, dist)
  BY <1>1, SetLinkKeeps
<1>7. /\ u \in Hopped(me) => w \in Hopped(me)
      /\ \A nbrs : u \in Adjacent(me, nbrs) => w \in Adjacent(me, nbrs)
      /\ \A link, dist :
            /\ LowerBounds(link, dist)
            /\ u \in Paid(me, link, dist)
            /\ c >= link[me][r]
            => w \in Paid(me, link, dist)
  BY <1>2, <1>3, RepriceKeeps
<1> QED BY <1>4, <1>5, <1>6, <1>7, BellmanFordKeeps

\* init_table: where it all starts from.
THEOREM InitTableKeeps ==
  ASSUME NEW me \in Idx, NEW cost \in [Idx -> Cost],
         \A j \in Idx : cost[j] = 0 <=> j = me
  PROVE  /\ InitTable(me, cost) \in Hopped(me)
         /\ InitTable(me, cost) \in Priced(me, Idx)
         /\ InitTable(me, cost) \in Adjacent(me, Neighbors(cost))
         /\ \A link, dist :
               /\ LowerBounds(link, dist)
               /\ \A j \in Idx : link[me][j] <= cost[j]
               => InitTable(me, cost) \in Paid(me, link, dist)
<1>1. PICK u : u = InitTable(me, cost)
  OBVIOUS
<1>2. /\ u \in Table
      /\ u.dv[me] = cost
      /\ \A a \in Idx \ {me}, b \in Idx :
            u.dv[a][b] = IF a = b THEN 0 ELSE INF
      /\ \A b \in Idx : u.nh[b] = IF cost[b] = INF THEN INF ELSE b
  BY <1>1, InitTableTyped DEF InitTable
<1>3. INF \in Nat /\ INF \notin Idx /\ \A b \in Idx : cost[b] \in 0 .. INF
  BY SizeAssumption DEF Cost, Idx
<1>4. u \in Hopped(me)
  BY <1>2, <1>3 DEF Hopped
<1>5. u \in Priced(me, Idx)
  BY <1>2, <1>3 DEF Priced
<1>6. u \in Adjacent(me, Neighbors(cost))
  BY <1>2, <1>3 DEF Adjacent, Neighbors
<1>7. ASSUME NEW link, NEW dist, LowerBounds(link, dist),
             \A j \in Idx : link[me][j] <= cost[j]
      PROVE  u \in Paid(me, link, dist)
  <2>1. /\ \A a, b \in Idx : link[a][b] \in 0 .. INF /\ dist[a][b] \in 0 .. INF
        /\ \A a \in Idx : dist[a][a] = 0
        /\ \A a, b \in Idx : dist[a][b] <= link[a][b]
    BY <1>7, LowerBoundsTyped DEF LowerBounds
  <2>2. ASSUME NEW a \in Idx, NEW b \in Idx
        PROVE  u.dv[a][b] >= dist[a][b]
    <3>1. CASE a = me
      <4>1. /\ dist[me][b] \in Nat /\ link[me][b] \in Nat /\ cost[b] \in Nat
            /\ dist[me][b] <= link[me][b] /\ link[me][b] <= cost[b]
        BY <1>3, <1>7, <2>1
      <4> QED BY <1>2, <3>1, <4>1
    <3>2. CASE a # me
      BY <1>2, <1>3, <2>1, <3>2
    <3> QED BY <3>1, <3>2
  <2>3. ASSUME NEW b \in Idx, u.nh[b] # INF
        PROVE  u.dv[me][b] >= link[me][u.nh[b]] + dist[u.nh[b]][b]
    <3>1. u.nh[b] = b /\ dist[b][b] = 0 /\ link[me][b] \in Nat
             /\ cost[b] \in Nat /\ link[me][b] <= cost[b]
      BY <1>2, <1>3, <1>7, <2>1, <2>3
    <3> QED BY <1>2, <3>1
  <2> QED BY <1>2, <2>2, <2>3 DEF Paid
<1> QED BY <1>1, <1>4, <1>5, <1>6, <1>7
=============================================================================
