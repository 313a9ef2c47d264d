---------------------------- MODULE RoutingTable ----------------------------
(***************************************************************************)
(* The routing state of one router and the operations the handlers apply   *)
(* to it: the matrix distanceVector and, for every router of the topology, *)
(* the field nextHopID.                                                    *)
(*                                                                         *)
(* A router is named by its index in the arrays routers[] and              *)
(* distanceVector[][], which run over 0 .. num_neighbors - 1; routerID, its *)
(* name on the wire, is in bijection with the index.  localRouterIndex is  *)
(* the parameter me.  The field routers[].cost is left out: after INIT it  *)
(* is written in four places and read in none.                             *)
(*                                                                         *)
(* A definition whose name starts with Slip is not the code's: it is the   *)
(* definition after it with a slip in it, to see that the properties       *)
(* notice.                                                                 *)
(***************************************************************************)
EXTENDS Integers, Loops

CONSTANTS
    N,    \* num_neighbors: the number of routers in the topology
    INF   \* the cost of an unreachable router, and "no next hop"

\* INF (65535 in the code) is the largest value of the 16-bit fields of the
\* wire formats, and is the index of no router.
ASSUME SizeAssumption == N \in Nat \ {0} /\ INF \in Nat /\ N <= INF

Idx   == 0 .. N - 1
Cost  == 0 .. INF
Hop   == Idx \cup {INF}
Table == [dv : [Idx -> [Idx -> Cost]], nh : [Idx -> Hop]]

\* The clamp at INF that ends every addition of two costs.
Clip(cost) == IF cost > INF THEN INF ELSE cost

-----------------------------------------------------------------------------
\* INIT: link[j] is the cost the controller gives for the link to router j,
\* 0 for the router itself and INF where there is no link.

Neighbors(link) == {j \in Idx : link[j] \notin {0, INF}}

\* The index is taken for the ID, which is one more.
SlipInitTableID(me, link) ==
    [dv |-> [i \in Idx |->
                IF i = me THEN link
                ELSE [j \in Idx |-> IF i = j THEN 0 ELSE INF]],
     nh |-> [j \in Idx |-> IF link[j] = INF THEN INF ELSE j + 1]]

\* Without the test for INF.
SlipInitTable(me, link) ==
    [dv |-> [i \in Idx |->
                IF i = me THEN link
                ELSE [j \in Idx |-> IF i = j THEN 0 ELSE INF]],
     nh |-> [j \in Idx |-> j]]

InitTable(me, link) ==
    [dv |-> [i \in Idx |->
                IF i = me THEN link
                ELSE [j \in Idx |-> IF i = j THEN 0 ELSE INF]],
     nh |-> [j \in Idx |-> IF link[j] = INF THEN INF ELSE j]]

-----------------------------------------------------------------------------
\* updateDVBybellmanFord: three nested loops, each entry of the matrix tried
\* against every intermediate router k.  The loop over k starts at 1, and the
\* outer variable count, which decides on another round, is never changed (the
\* one that is incremented shadows it): there is exactly one round.

\* The next hop is forgotten.
SlipRelaxHop(me, t, i, j, k) ==
    LET via == t.dv[i][k] + t.dv[k][j]
    IN  [t EXCEPT !.dv[i][j] = Clip(IF @ > via THEN via ELSE @)]

\* The test for the local row is forgotten.
SlipRelaxRow(me, t, i, j, k) ==
    LET via     == t.dv[i][k] + t.dv[k][j]
        shorter == t.dv[i][j] > via
    IN  [dv |-> [t.dv EXCEPT ![i][j] = Clip(IF shorter THEN via ELSE @)],
         nh |-> IF shorter THEN [t.nh EXCEPT ![j] = t.nh[k]] ELSE t.nh]

\* A route of the same cost replaces the old one.
SlipRelaxTie(me, t, i, j, k) ==
    LET via     == t.dv[i][k] + t.dv[k][j]
        shorter == t.dv[i][j] >= via
    IN  [dv |-> [t.dv EXCEPT ![i][j] = Clip(IF shorter THEN via ELSE @)],
         nh |-> IF shorter /\ i = me THEN [t.nh EXCEPT ![j] = t.nh[k]]
                                     ELSE t.nh]

Relax(me, t, i, j, k) ==
    LET via     == t.dv[i][k] + t.dv[k][j]
        shorter == t.dv[i][j] > via
    IN  [dv |-> [t.dv EXCEPT ![i][j] = Clip(IF shorter THEN via ELSE @)],
         nh |-> IF shorter /\ i = me THEN [t.nh EXCEPT ![j] = t.nh[k]]
                                     ELSE t.nh]

\* k starts at 2.
SlipRelaxEntry(me, t, i, j) ==
    Repeat(N - 2,
           [p \in Table \X (1 .. N - 2) |-> Relax(me, p[1], i, j, p[2] + 1)], t)

RelaxEntry(me, t, i, j) ==
    Repeat(N - 1,
           [p \in Table \X (1 .. N - 1) |-> Relax(me, p[1], i, j, p[2])], t)

RelaxRow(me, t, i) ==
    Repeat(N, [p \in Table \X (1 .. N) |-> RelaxEntry(me, p[1], i, p[2] - 1)],
           t)

BellmanFord(me, t) ==
    Repeat(N, [p \in Table \X (1 .. N) |-> RelaxRow(me, p[1], p[2] - 1)], t)

-----------------------------------------------------------------------------
\* updateCost: the controller gives the link to router r the cost c.

\* "else" instead of "else if".
SlipSetLink(me, t, r, c) ==
    [dv |-> [t.dv EXCEPT ![me][r] = c],
     nh |-> [t.nh EXCEPT ![r] = IF t.dv[me][r] > c THEN r ELSE INF]]

SetLink(me, t, r, c) ==
    [dv |-> [t.dv EXCEPT ![me][r] = c],
     nh |-> [t.nh EXCEPT ![r] = IF t.dv[me][r] > c THEN r
                                ELSE IF c = INF THEN INF ELSE @]]

\* The cost of the link to r is not added.
SlipReprice(me, t, r) ==
    [t EXCEPT !.dv[me] = [i \in Idx |-> IF t.nh[i] = r THEN t.dv[r][i] ELSE @[i]]]

\* The routes whose next hop is r are priced again, in index order: from r
\* itself on, the loop adds to the entry of r it has just rewritten.
Reprice(me, t, r) ==
    LET base(i) == IF i > r /\ t.nh[r] = r
                   THEN Clip(t.dv[me][r] + t.dv[r][r]) ELSE t.dv[me][r]
        price(i) == base(i) + t.dv[r][i]
        moved == {i \in Idx : t.nh[i] = r}
    IN  [dv |-> [t.dv EXCEPT ![me] = [i \in Idx |->
                    IF i \in moved THEN Clip(price(i)) ELSE @[i]]],
         nh |-> [i \in Idx |->
                    IF i \in moved /\ price(i) > INF THEN INF ELSE t.nh[i]]]

UpdateCost(me, t, r, c) ==
    BellmanFord(me, Reprice(me, SetLink(me, t, r, c), r))

-----------------------------------------------------------------------------
\* main_loop, when select times out: the neighbors in lost have been silent for
\* too long and the direct routes to them are given up.  A route to a third
\* router through one of them is left as it is.

\* The next hop stays.
SlipGiveUp(me, t, lost) ==
    [t EXCEPT !.dv[me] = [i \in Idx |-> IF i \in lost THEN INF ELSE @[i]]]

GiveUp(me, t, lost) ==
    [dv |-> [t.dv EXCEPT ![me] = [i \in Idx |-> IF i \in lost THEN INF
                                                              ELSE @[i]]],
     nh |-> [i \in Idx |-> IF i \in lost THEN INF ELSE t.nh[i]]]

Expire(me, t, lost) == BellmanFord(me, GiveUp(me, t, lost))

-----------------------------------------------------------------------------
\* boardcast_update_routing: one field per router, in index order.  The loop
\* that fills them stops at the first removed router: the fields from there on
\* are whatever the freshly allocated buffer holds, here junk.

Unknown == -1     \* the routerID of no router

Field  == [id : Idx \cup {Unknown}, cost : Cost]
Advert == [Idx -> Field]

Filled(removed) == {i \in Idx : \A j \in removed : i < j}

Advertise(me, t, removed, junk) ==
    [i \in Idx |-> IF i \in Filled(removed)
                   THEN [id |-> i, cost |-> t.dv[me][i]] ELSE junk[i]]

-----------------------------------------------------------------------------
\* recv_update_distanceVector: the fields of router src's update are applied in
\* order to row src.  routerIndex survives from one field to the next, so a
\* field with an unknown routerID is applied to the router of the last known one
\* (index 0 before any).  An entry that grows while its next hop is src loses
\* its route.

Target(adv, f) ==
    LET known == {g \in 0 .. f : adv[g].id # Unknown}
    IN  IF known = {} THEN 0
        ELSE adv[CHOOSE g \in known : \A h \in known : h <= g].id

\* What row src holds for router x once the fields before f are applied.
Held(t, src, adv, x, f) ==
    LET hits == {g \in 0 .. f - 1 : Target(adv, g) = x}
    IN  IF hits = {} THEN t.dv[src][x]
        ELSE adv[CHOOSE g \in hits : \A h \in hits : h <= g].cost

Worsened(t, src, adv, x) ==
    \E f \in Idx : /\ Target(adv, f) = x
                   /\ Held(t, src, adv, x, f) < adv[f].cost

\* The cost stays.
SlipMergeCost(me, t, src, adv) ==
    LET dropped == {x \in Idx : t.nh[x] = src /\ Worsened(t, src, adv, x)}
    IN  [dv |-> [t.dv EXCEPT ![src] = [x \in Idx |-> Held(t, src, adv, x, N)]],
         nh |-> [x \in Idx |-> IF x \in dropped THEN INF ELSE t.nh[x]]]

\* The test for the next hop is forgotten.
SlipMergeHop(me, t, src, adv) ==
    LET dropped == {x \in Idx : Worsened(t, src, adv, x)}
    IN  [dv |-> [t.dv EXCEPT
                    ![src] = [x \in Idx |-> Held(t, src, adv, x, N)],
                    ![me]  = [x \in Idx |-> IF x \in dropped THEN INF
                                                             ELSE @[x]]],
         nh |-> [x \in Idx |-> IF x \in dropped THEN INF ELSE t.nh[x]]]

Merge(me, t, src, adv) ==
    LET dropped == {x \in Idx : t.nh[x] = src /\ Worsened(t, src, adv, x)}
    IN  [dv |-> [t.dv EXCEPT
                    ![src] = [x \in Idx |-> Held(t, src, adv, x, N)],
                    ![me]  = [x \in Idx |-> IF x \in dropped THEN INF
                                                             ELSE @[x]]],
         nh |-> [x \in Idx |-> IF x \in dropped THEN INF ELSE t.nh[x]]]

ReceiveUpdate(me, t, src, adv) == BellmanFord(me, Merge(me, t, src, adv))
=============================================================================
