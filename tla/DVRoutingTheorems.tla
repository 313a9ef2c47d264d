------------------------- MODULE DVRoutingTheorems -------------------------
(***************************************************************************)
(* The safety properties of DVRouting, for any topology and any bounds.    *)
(***************************************************************************)
EXTENDS DVRouting, RoutingTableTheorems, FiniteSetTheorems

\* What the steps rely on besides the types: no router sends to itself, and
\* the table of a router without INIT is untouched.
Untouched ==
    /\ \A m \in net : m.src # m.dst
    /\ \A r \in Idx : phase[r] = "off" => table[r] = EmptyTable

Typed == TypeOK /\ Untouched

LEMMA NotOwnNeighbor ==
  ASSUME NEW r \in Idx
  PROVE  Nbrs(r) \subseteq Idx \ {r}
BY TopologyAssumption DEF Nbrs, Neighbors

LEMMA EmptyTableTyped == EmptyTable \in Table
BY SizeAssumption DEF EmptyTable, Table, Cost, Hop

LEMMA AdvertiseTyped ==
  ASSUME NEW r \in Idx, NEW t \in Table, NEW gone,
         NEW junk \in [Idx \ Filled(gone) -> Junk]
  PROVE  Advertise(r, t, gone, junk) \in Advert
<1>1. ASSUME NEW i \in Idx
      PROVE  (IF i \in Filled(gone) THEN [id |-> i, cost |-> t.dv[r][i]]
                                    ELSE junk[i]) \in Field
  <2>1. t.dv[r][i] \in Cost
    BY TableParts
  <2>2. [id |-> i, cost |-> t.dv[r][i]] \in Field
    BY <2>1 DEF Field
  <2>3. i \notin Filled(gone) => junk[i] \in Field
    BY InputAssumption
  <2> QED BY <2>2, <2>3
<1> QED BY <1>1 DEF Advertise, Advert

LEMMA BroadcastTyped ==
  ASSUME NEW r \in Idx, NEW adv \in Advert, NEW gone
  PROVE  \A m \in Broadcast(r, adv, gone) :
            /\ m \in Datagram
            /\ m.src = r /\ m.adv = adv /\ m.src # m.dst
BY NotOwnNeighbor DEF Broadcast, Datagram

LEMMA InitTyped == Init => Typed
<1> SUFFICES ASSUME Init PROVE Typed
  OBVIOUS
<1>1. TypeOK
  BY EmptyTableTyped, InputAssumption DEF Init, TypeOK
<1>2. Untouched
  BY DEF Init, Untouched
<1> QED BY <1>1, <1>2 DEF Typed

LEMMA NextTyped == Typed /\ [Next]_vars => Typed'
<1> SUFFICES ASSUME Typed, [Next]_vars PROVE Typed'
  OBVIOUS
<1> USE DEF Typed, TypeOK, Untouched
<1>1. ASSUME NEW r \in Idx, InitRouter(r)
      PROVE  Typed'
  <2>1. InitTable(r, LinkCost[r]) \in Table
    BY InitTableTyped, TopologyAssumption
  <2> QED BY <1>1, <2>1 DEF InitRouter
<1>2. ASSUME NEW r \in Idx, NEW lost \in SUBSET heard[r], Timeout(r, lost)
      PROVE  Typed'
  <2> DEFINE gone == removed[r] \cup lost
  <2>1. table' = [table EXCEPT ![r] = Expire(r, table[r], lost)]
    BY <1>2 DEF Timeout
  <2>2. table' \in [Idx -> Table]
    BY <2>1, ExpireTyped
  <2>3. gone \in SUBSET Idx
    OBVIOUS
  <2>4. removed' \in [Idx -> SUBSET Idx]
    BY <1>2, <2>3 DEF Timeout
  <2>5. PICK junk \in [Idx \ Filled(gone) -> Junk] :
           net' = net \cup
              Broadcast(r, Advertise(r, table'[r], gone, junk), gone)
    BY <1>2 DEF Timeout
  <2>6. PICK adv \in Advert : adv = Advertise(r, table'[r], gone, junk)
    BY <2>2, AdvertiseTyped
  <2>7. net' \subseteq Datagram /\ \A m \in net' : m.src # m.dst
    <3>1. \A m \in Broadcast(r, adv, gone) : m \in Datagram /\ m.src # m.dst
      BY <2>6, BroadcastTyped
    <3>2. net' = net \cup Broadcast(r, adv, gone)
      BY <2>5, <2>6
    <3> QED BY <3>1, <3>2
  <2>8. phase[r] = "on" /\ UNCHANGED <<phase, heard, updates>>
    BY <1>2 DEF Timeout
  <2>9. \A s \in Idx : phase'[s] = "off" => table'[s] = EmptyTable
    BY <2>1, <2>8
  <2> QED BY <2>2, <2>4, <2>7, <2>8, <2>9
<1>3. ASSUME NEW m \in net, Receive(m)
      PROVE  Typed'
  <2>1. m.dst \in Idx /\ m.src \in Idx /\ m.adv \in Advert
    BY DEF Datagram
  <2>2. ReceiveUpdate(m.dst, table[m.dst], m.src, m.adv) \in Table
    BY <2>1, ReceiveUpdateTyped
  <2> QED BY <1>3, <2>1, <2>2 DEF Receive
<1>4. ASSUME NEW m \in net, Lose(m)
      PROVE  Typed'
  BY <1>4 DEF Lose
<1>5. ASSUME NEW r \in Idx, NEW s \in Nbrs(r), NEW c \in NewCosts,
             Update(r, s, c)
      PROVE  Typed'
  <2>1. s \in Idx /\ c \in Cost
    BY NotOwnNeighbor, InputAssumption
  <2>2. UpdateCost(r, table[r], s, c) \in Table
    BY <2>1, UpdateCostTyped
  <2>3. updates + 1 \in 0 .. MaxUpdates
    BY <1>5, InputAssumption DEF Update
  <2> QED BY <1>5, <2>2, <2>3 DEF Update
<1>6. ASSUME NEW r \in Idx, Crash(r)
      PROVE  Typed'
  BY <1>6 DEF Crash
<1>7. CASE UNCHANGED vars
  BY <1>7 DEF vars
<1> QED BY <1>1, <1>2, <1>3, <1>4, <1>5, <1>6, <1>7 DEF Next

LEMMA AlwaysTyped == Spec => []Typed
BY InitTyped, NextTyped, PTL DEF Spec

\* The costs and next hops of every router and of every datagram stay within
\* their ranges, whatever is lost, repeated, overtaken or left uninitialised.
THEOREM TypeCorrect == Spec => []TypeOK
<1>1. Typed => TypeOK
  BY DEF Typed
<1> QED BY <1>1, AlwaysTyped, PTL

-----------------------------------------------------------------------------
(***************************************************************************)
(* What a step can do to the table of router r, and to the network.        *)
(***************************************************************************)

TableStep(r) ==
    \/ table'[r] = table[r]
    \/ phase[r] = "off" /\ table'[r] = InitTable(r, LinkCost[r])
    \/ \E lost \in SUBSET Idx :
          /\ lost \subseteq removed'[r] \ removed[r]
          /\ table'[r] = Expire(r, table[r], lost)
    \/ \E m \in net :
          /\ m.dst = r /\ Receive(m)
          /\ table'[r] = ReceiveUpdate(r, table[r], m.src, m.adv)
    \/ \E s \in Nbrs(r), c \in NewCosts :
          /\ updates < MaxUpdates /\ updates' # updates
          /\ table'[r] = UpdateCost(r, table[r], s, c)

LEMMA TableSteps ==
  ASSUME Typed, [Next]_vars, NEW r \in Idx
  PROVE  TableStep(r)
<1> USE DEF Typed, TypeOK
<1>1. ASSUME NEW s \in Idx, InitRouter(s)
      PROVE  TableStep(r)
  BY <1>1 DEF InitRouter, TableStep
<1>2. ASSUME NEW s \in Idx, NEW lost \in SUBSET heard[s], Timeout(s, lost)
      PROVE  TableStep(r)
  <2>1. /\ lost \in SUBSET Idx
        /\ lost \subseteq removed'[s] \ removed[s]
        /\ table'[s] = Expire(s, table[s], lost)
        /\ r # s => table'[r] = table[r]
    BY <1>2 DEF Timeout
  <2> QED BY <2>1 DEF TableStep
<1>3. ASSUME NEW m \in net, Receive(m)
      PROVE  TableStep(r)
  <2>1. /\ m.dst \in Idx
        /\ table'[m.dst] = ReceiveUpdate(m.dst, table[m.dst], m.src, m.adv)
        /\ r # m.dst => table'[r] = table[r]
    BY <1>3 DEF Receive, Datagram
  <2> QED BY <1>3, <2>1 DEF TableStep
<1>4. ASSUME NEW m \in net, Lose(m)
      PROVE  TableStep(r)
  BY <1>4 DEF Lose, TableStep
<1>5. ASSUME NEW s \in Idx, NEW x \in Nbrs(s), NEW c \in NewCosts,
             Update(s, x, c)
      PROVE  TableStep(r)
  <2>1. /\ updates < MaxUpdates /\ updates' # updates
        /\ table'[s] = UpdateCost(s, table[s], x, c)
        /\ r # s => table'[r] = table[r]
    BY <1>5, InputAssumption DEF Update
  <2> QED BY <2>1 DEF TableStep
<1>6. ASSUME NEW s \in Idx, Crash(s)
      PROVE  TableStep(r)
  BY <1>6 DEF Crash, TableStep
<1>7. CASE UNCHANGED vars
  BY <1>7 DEF vars, TableStep
<1> QED BY <1>1, <1>2, <1>3, <1>4, <1>5, <1>6, <1>7 DEF Next

LEMMA EmptyTableKeeps ==
  ASSUME NEW r \in Idx
  PROVE  /\ EmptyTable \in Hopped(r)
         /\ EmptyTable \in Priced(r, Idx)
         /\ EmptyTable \in Adjacent(r, Nbrs(r))
<1>1. INF \in Nat /\ r # INF
  BY SizeAssumption DEF Idx
<1> QED BY <1>1, EmptyTableTyped DEF EmptyTable, Hopped, Priced, Adjacent

\* The senders and the vectors a router may meet.
LEMMA DatagramParts ==
  ASSUME Typed, NEW m \in net
  PROVE  m.src \in Idx \ {m.dst} /\ m.dst \in Idx /\ m.adv \in Advert
BY DEF Typed, TypeOK, Untouched, Datagram

-----------------------------------------------------------------------------
(***************************************************************************)
(* The routes.                                                             *)
(***************************************************************************)

\* The two route properties that hold without any condition, in one inductive
\* invariant: every table is in Hopped and in Adjacent of its router.
RoutesInv == Typed /\ \A r \in Idx : /\ table[r] \in Hopped(r)
                                     /\ table[r] \in Adjacent(r, Nbrs(r))

LEMMA RoutesInit == Init => RoutesInv
<1> SUFFICES ASSUME Init PROVE RoutesInv
  OBVIOUS
<1>1. \A r \in Idx : table[r] = EmptyTable
  BY DEF Init
<1> QED BY <1>1, InitTyped, EmptyTableKeeps DEF RoutesInv

LEMMA RoutesNext == RoutesInv /\ [Next]_vars => RoutesInv'
<1> SUFFICES ASSUME RoutesInv, [Next]_vars PROVE RoutesInv'
  OBVIOUS
<1>1. Typed /\ Typed'
  BY NextTyped DEF RoutesInv
<1>2. ASSUME NEW r \in Idx
      PROVE  table'[r] \in Hopped(r) /\ table'[r] \in Adjacent(r, Nbrs(r))
  <2>1. /\ table[r] \in Table
        /\ table[r] \in Hopped(r)
        /\ table[r] \in Adjacent(r, Nbrs(r))
    BY DEF RoutesInv, Typed, TypeOK
  <2>2. CASE table'[r] = table[r]
    BY <2>1, <2>2
  <2>3. CASE table'[r] = InitTable(r, LinkCost[r])
    <3>1. /\ LinkCost[r] \in [Idx -> Cost]
          /\ \A j \in Idx : LinkCost[r][j] = 0 <=> j = r
      BY TopologyAssumption
    <3>2. /\ InitTable(r, LinkCost[r]) \in Hopped(r)
          /\ InitTable(r, LinkCost[r]) \in Adjacent(r, Neighbors(LinkCost[r]))
      BY <3>1, InitTableKeeps
    <3> QED BY <2>3, <3>2 DEF Nbrs
  <2>4. ASSUME NEW lost \in SUBSET Idx, table'[r] = Expire(r, table[r], lost)
        PROVE  table'[r] \in Hopped(r) /\ table'[r] \in Adjacent(r, Nbrs(r))
    BY <2>1, <2>4, ExpireKeeps
  <2>5. ASSUME NEW m \in net, m.dst = r,
               table'[r] = ReceiveUpdate(r, table[r], m.src, m.adv)
        PROVE  table'[r] \in Hopped(r) /\ table'[r] \in Adjacent(r, Nbrs(r))
    <3>1. m.src \in Idx \ {r} /\ m.adv \in Advert
      BY <1>1, <2>5, DatagramParts
    <3> QED BY <2>1, <2>5, <3>1, ReceiveUpdateKeeps
  <2>6. ASSUME NEW s \in Nbrs(r), NEW c \in NewCosts,
               table'[r] = UpdateCost(r, table[r], s, c)
        PROVE  table'[r] \in Hopped(r) /\ table'[r] \in Adjacent(r, Nbrs(r))
    <3>1. s \in Idx \ {r} /\ c \in Cost
      BY NotOwnNeighbor, InputAssumption
    <3> QED BY <2>1, <2>6, <3>1, UpdateCostKeeps
  <2>7. TableStep(r)
    BY <1>1, TableSteps
  <2> QED BY <2>2, <2>3, <2>4, <2>5, <2>6, <2>7 DEF TableStep
<1> QED BY <1>1, <1>2 DEF RoutesInv

LEMMA AlwaysRoutes == Spec => []RoutesInv
BY RoutesInit, RoutesNext, PTL DEF Spec

\* No router holds a finite cost without a next hop, whatever the controller
\* sets, whoever crashes and whatever a datagram holds.
THEOREM FiniteCostHasHop == Spec => []ReachableHasHop
<1>1. RoutesInv => ReachableHasHop
  BY DEF RoutesInv, Hopped, ReachableHasHop
<1> QED BY <1>1, AlwaysRoutes, PTL

\* Next hops are neighbors, and a router is the next hop of itself only.
THEOREM NextHopIsNeighbor == Spec => []HopIsNeighbor
<1>1. RoutesInv => HopIsNeighbor
  BY DEF RoutesInv, Adjacent, HopIsNeighbor
<1> QED BY <1>1, AlwaysRoutes, PTL

-----------------------------------------------------------------------------
(***************************************************************************)
(* Unreachable routers, as long as the controller changes no cost.         *)
(***************************************************************************)

PricedInv == Typed /\ \A r \in Idx : table[r] \in Priced(r, Idx)

LEMMA PricedInit == Init => PricedInv
<1> SUFFICES ASSUME Init PROVE PricedInv
  OBVIOUS
<1>1. \A r \in Idx : table[r] = EmptyTable
  BY DEF Init
<1> QED BY <1>1, InitTyped, EmptyTableKeeps DEF PricedInv

LEMMA PricedNext ==
  ASSUME MaxUpdates = 0
  PROVE  PricedInv /\ [Next]_vars => PricedInv'
<1> SUFFICES ASSUME PricedInv, [Next]_vars PROVE PricedInv'
  OBVIOUS
<1>1. Typed /\ Typed'
  BY NextTyped DEF PricedInv
<1>2. ASSUME NEW r \in Idx
      PROVE  table'[r] \in Priced(r, Idx)
  <2>1. table[r] \in Table /\ table[r] \in Priced(r, Idx)
    BY DEF PricedInv, Typed, TypeOK
  <2>2. CASE table'[r] = table[r]
    BY <2>1, <2>2
  <2>3. CASE table'[r] = InitTable(r, LinkCost[r])
    <3>1. /\ LinkCost[r] \in [Idx -> Cost]
          /\ \A j \in Idx : LinkCost[r][j] = 0 <=> j = r
      BY TopologyAssumption
    <3> QED BY <2>3, <3>1, InitTableKeeps
  <2>4. ASSUME NEW lost \in SUBSET Idx, table'[r] = Expire(r, table[r], lost)
        PROVE  table'[r] \in Priced(r, Idx)
    BY <2>1, <2>4, ExpireKeeps
  <2>5. ASSUME NEW m \in net, m.dst = r,
               table'[r] = ReceiveUpdate(r, table[r], m.src, m.adv)
        PROVE  table'[r] \in Priced(r, Idx)
    <3>1. m.src \in Idx \ {r} /\ m.adv \in Advert
      BY <1>1, <2>5, DatagramParts
    <3> QED BY <2>1, <2>5, <3>1, ReceiveUpdateKeeps
  <2>6. ~ updates < MaxUpdates
    BY <1>1 DEF Typed, TypeOK
  <2>7. TableStep(r)
    BY <1>1, TableSteps
  <2> QED BY <2>2, <2>3, <2>4, <2>5, <2>6, <2>7 DEF TableStep
<1> QED BY <1>1, <1>2 DEF PricedInv

\* Until the first UPDATE, a router that is out of reach has no next hop: what
\* init_table establishes, timeouts and vectors preserve.  (With UPDATEs it is
\* not so: see OutOfReachOnlyByUpdate.)
THEOREM NoHopOutOfReach ==
  ASSUME MaxUpdates = 0
  PROVE  Spec => []UnreachableHasNoHop
<1>1. PricedInv => UnreachableHasNoHop
  BY DEF PricedInv, Priced, UnreachableHasNoHop
<1>2. PricedInv /\ [Next]_vars => PricedInv'
  BY PricedNext
<1> QED BY <1>1, <1>2, PricedInit, PTL DEF Spec

LEMMA OutOfReachStep ==
  Typed /\ Typed' /\ [Next]_vars =>
      [\A r, j \in Idx :
          HopOutOfReach(r, j)' => HopOutOfReach(r, j) \/ updates' # updates]_vars
<1> SUFFICES ASSUME Typed, Typed', [Next]_vars, NEW r \in Idx, NEW j \in Idx,
                    HopOutOfReach(r, j)', ~ HopOutOfReach(r, j), updates' = updates
             PROVE  FALSE
  OBVIOUS
<1>1. table[r] \in Table /\ table[r] \in Priced(r, {j})
  BY DEF Typed, TypeOK, HopOutOfReach, Priced
<1>2. table'[r] \notin Priced(r, {j})
  BY DEF HopOutOfReach, Priced
<1>3. CASE table'[r] = table[r]
  BY <1>1, <1>2, <1>3
<1>4. CASE table'[r] = InitTable(r, LinkCost[r])
  <2>1. /\ LinkCost[r] \in [Idx -> Cost]
        /\ \A i \in Idx : LinkCost[r][i] = 0 <=> i = r
    BY TopologyAssumption
  <2>2. table'[r] \in Priced(r, Idx)
    BY <1>4, <2>1, InitTableKeeps
  <2> QED BY <1>2, <2>2 DEF Priced
<1>5. ASSUME NEW lost \in SUBSET Idx, table'[r] = Expire(r, table[r], lost)
      PROVE  FALSE
  BY <1>1, <1>2, <1>5, ExpireKeeps
<1>6. ASSUME NEW m \in net, m.dst = r,
             table'[r] = ReceiveUpdate(r, table[r], m.src, m.adv)
      PROVE  FALSE
  <2>1. m.src \in Idx \ {r} /\ m.adv \in Advert
    BY <1>6, DatagramParts
  <2> QED BY <1>1, <1>2, <1>6, <2>1, ReceiveUpdateKeeps
<1>7. TableStep(r)
  BY TableSteps
<1>8. updates \in Nat
  BY DEF Typed, TypeOK
<1> QED BY <1>3, <1>4, <1>5, <1>6, <1>7, <1>8 DEF TableStep

\* Whatever UPDATE left, no other step of any router makes a route of cost INF with a
\* next hop.
THEOREM HopsEndWithReach == Spec => OutOfReachOnlyByUpdate
BY OutOfReachStep, NextTyped, InitTyped, PTL DEF Spec, OutOfReachOnlyByUpdate

-----------------------------------------------------------------------------
(***************************************************************************)
(* Costs that grow.                                                        *)
(***************************************************************************)

WorsensForAReason ==
    \A r, j \in Idx : CostGrows(r, j) =>
        \/ j \in removed'[r] \ removed[r]
        \/ updates' # updates
        \/ \E m \in InFlight(table[r].nh[j], r) : Receive(m)

LEMMA WorseningStep == Typed /\ [Next]_vars => [WorsensForAReason]_vars
<1> SUFFICES ASSUME Typed, [Next]_vars, NEW r \in Idx, NEW j \in Idx,
                    CostGrows(r, j)
             PROVE  \/ j \in removed'[r] \ removed[r]
                    \/ updates' # updates
                    \/ \E m \in InFlight(table[r].nh[j], r) : Receive(m)
  BY DEF WorsensForAReason
<1>1. Typed'
  BY NextTyped
<1>2. /\ table[r] \in Table /\ table'[r] \in Table
      /\ table'[r].dv[r][j] > table[r].dv[r][j]
  BY <1>1 DEF Typed, TypeOK, CostGrows
<1>3. table[r].dv[r][j] \in 0 .. INF /\ table'[r].dv[r][j] \in 0 .. INF
      /\ INF \in Nat
  BY <1>2, TableParts
<1>4. CASE table'[r] = table[r]
  BY <1>2, <1>3, <1>4
<1>5. CASE phase[r] = "off"
  <2>1. table[r].dv[r][j] = INF
    BY <1>5 DEF Typed, Untouched, EmptyTable
  <2> QED BY <1>2, <1>3, <2>1
<1>6. ASSUME NEW lost \in SUBSET Idx,
             lost \subseteq removed'[r] \ removed[r],
             table'[r] = Expire(r, table[r], lost)
      PROVE  j \in removed'[r] \ removed[r]
  <2>1. \A x \in Idx \ lost : table'[r].dv[r][x] <= table[r].dv[r][x]
    BY <1>2, <1>6, ExpireKeeps
  <2>2. j \in lost
    BY <2>1, <1>2, <1>3
  <2> QED BY <1>6, <2>2
<1>7. ASSUME NEW m \in net, m.dst = r, Receive(m),
             table'[r] = ReceiveUpdate(r, table[r], m.src, m.adv)
      PROVE  \E n \in InFlight(table[r].nh[j], r) : Receive(n)
  <2>1. m.src \in Idx \ {r} /\ m.adv \in Advert
    BY <1>7, DatagramParts
  <2>2. \A x \in Idx : table[r].nh[x] # m.src =>
                         table'[r].dv[r][x] <= table[r].dv[r][x]
    BY <1>2, <1>7, <2>1, ReceiveUpdateKeeps
  <2>3. table[r].nh[j] = m.src
    BY <2>2, <1>2, <1>3
  <2> QED BY <1>7, <2>3 DEF InFlight
<1>8. TableStep(r)
  BY TableSteps
<1> QED BY <1>4, <1>5, <1>6, <1>7, <1>8 DEF TableStep

\* The cost of a route only ever grows by the vector of its own next hop, by an
\* UPDATE or by giving up its destination.
THEOREM CostsGrowForAReason == Spec => WorseOnlyForAReason
<1>1. Typed /\ [Next]_vars => [WorsensForAReason]_vars
  BY WorseningStep
<1>2. WorsensForAReason <=> \A r, j \in Idx : CostGrows(r, j) =>
          \/ j \in removed'[r] \ removed[r]
          \/ updates' # updates
          \/ \E m \in InFlight(table[r].nh[j], r) : Receive(m)
  BY DEF WorsensForAReason
<1> QED BY <1>1, <1>2, AlwaysTyped, PTL DEF Spec, WorseOnlyForAReason

-----------------------------------------------------------------------------
(***************************************************************************)
(* Costs, as long as no neighbor is given up.                              *)
(***************************************************************************)

LEMMA LeastBounds == LowerBounds(LeastLink, LeastDist)
BY BoundAssumption DEF LowerBounds

\* A vector that promises no more than there is.
Honest(src, adv) == \A i \in Idx : adv[i].id = i /\ adv[i].cost >= LeastDist[src][i]

\* No neighbor has been given up, so that every field of every datagram is
\* filled, and no cost is too low to be true, in a table or on the way.
PaidInv ==
    /\ Typed
    /\ \A r \in Idx : removed[r] = {}
    /\ \A r \in Idx : table[r] \in Paid(r, LeastLink, LeastDist)
    /\ \A m \in net : Honest(m.src, m.adv)

LEMMA PaidInit == Init => PaidInv
<1> SUFFICES ASSUME Init PROVE PaidInv
  OBVIOUS
<1>1. Typed
  BY InitTyped
<1>2. ASSUME NEW r \in Idx
      PROVE  table[r] \in Paid(r, LeastLink, LeastDist)
  <2>1. table[r] = EmptyTable
    BY DEF Init
  <2>2. \A a, b \in Idx : LeastDist[a][b] \in 0 .. INF
    BY LeastBounds, LowerBoundsTyped
  <2>3. \A a, b \in Idx : EmptyTable.dv[a][b] = INF /\ EmptyTable.nh[b] = INF
    BY DEF EmptyTable
  <2>4. \A a, b \in Idx : EmptyTable.dv[a][b] >= LeastDist[a][b]
    BY <2>2, <2>3, SizeAssumption
  <2> QED BY <2>1, <2>3, <2>4, EmptyTableTyped DEF Paid
<1> QED BY <1>1, <1>2 DEF PaidInv, Init

LEMMA NothingRemoved ==
  ASSUME MaxRemovals = 0, PaidInv, [Next]_vars
  PROVE  \A r \in Idx : removed'[r] = {}
<1>1. ASSUME NEW r \in Idx, NEW lost \in SUBSET heard[r], Timeout(r, lost)
      PROVE  \A s \in Idx : removed'[s] = {}
  <2> DEFINE gone == removed[r] \cup lost
  <2>1. Cardinality(gone) <= 0 /\ lost \subseteq Idx
    BY <1>1 DEF Timeout, PaidInv, Typed, TypeOK
  <2>2. IsFiniteSet(gone)
    <3>1. IsFiniteSet(0 .. N - 1)
      BY SizeAssumption, FS_Interval
    <3>2. gone \subseteq 0 .. N - 1
      BY <2>1 DEF PaidInv, Idx
    <3> QED BY <3>1, <3>2, FS_Subset
  <2>3. gone = {}
    <3>1. Cardinality(gone) \in Nat
      BY <2>2, FS_CardinalityType
    <3>2. Cardinality(gone) = 0
      BY <2>1, <3>1
    <3> QED BY <2>2, <3>2, FS_EmptySet
  <2> QED BY <1>1, <2>3 DEF Timeout, PaidInv, Typed, TypeOK
<1>2. CASE UNCHANGED removed
  BY <1>2 DEF PaidInv
<1>3. (\E r \in Idx : \E lost \in SUBSET heard[r] : Timeout(r, lost))
      \/ UNCHANGED removed
  BY DEF Next, InitRouter, Receive, Lose, Update, Crash, vars
<1> QED BY <1>1, <1>2, <1>3

\* The vectors on the way after a step: those that were, and those of a router
\* that has just timed out.
LEMMA NetSteps ==
  ASSUME Typed, [Next]_vars, NEW m \in net'
  PROVE  \/ m \in net
         \/ \E r \in Idx : \E gone \in {removed'[r]} :
            \E junk \in [Idx \ Filled(gone) -> Junk] :
              m \in Broadcast(r, Advertise(r, table'[r], gone, junk), gone)
<1>1. ASSUME NEW r \in Idx, NEW lost \in SUBSET heard[r], Timeout(r, lost)
      PROVE  \/ m \in net
             \/ \E gone \in {removed'[r]} :
                \E junk \in [Idx \ Filled(gone) -> Junk] :
                  m \in Broadcast(r, Advertise(r, table'[r], gone, junk), gone)
  <2> DEFINE gone == removed[r] \cup lost
  <2>1. removed'[r] = gone
    BY <1>1 DEF Timeout, Typed, TypeOK
  <2>2. \E junk \in [Idx \ Filled(gone) -> Junk] : net' = net \cup
            Broadcast(r, Advertise(r, table'[r], gone, junk), gone)
    BY <1>1 DEF Timeout
  <2> QED BY <2>1, <2>2
<1>2. (\E r \in Idx : \E lost \in SUBSET heard[r] : Timeout(r, lost))
      \/ net' \subseteq net
  BY DEF Next, InitRouter, Receive, Lose, Update, Crash, vars
<1> QED BY <1>1, <1>2

LEMMA PaidNext ==
  ASSUME MaxRemovals = 0
  PROVE  PaidInv /\ [Next]_vars => PaidInv'
<1> SUFFICES ASSUME PaidInv, [Next]_vars PROVE PaidInv'
  OBVIOUS
<1>1. Typed /\ Typed'
  BY NextTyped DEF PaidInv
<1>2. \A r \in Idx : removed'[r] = {}
  BY NothingRemoved
<1>3. ASSUME NEW r \in Idx
      PROVE  table'[r] \in Paid(r, LeastLink, LeastDist)
  <2>1. table[r] \in Table /\ table[r] \in Paid(r, LeastLink, LeastDist)
    BY DEF PaidInv, Typed, TypeOK
  <2>2. CASE table'[r] = table[r]
    BY <2>1, <2>2
  <2>3. CASE table'[r] = InitTable(r, LinkCost[r])
    <3>1. /\ LinkCost[r] \in [Idx -> Cost]
          /\ \A j \in Idx : LinkCost[r][j] = 0 <=> j = r
          /\ \A j \in Idx : LeastLink[r][j] <= LinkCost[r][j]
      BY TopologyAssumption, BoundAssumption
    <3> QED BY <2>3, <3>1, InitTableKeeps, LeastBounds
  <2>4. ASSUME NEW lost \in SUBSET Idx, table'[r] = Expire(r, table[r], lost)
        PROVE  table'[r] \in Paid(r, LeastLink, LeastDist)
    BY <2>1, <2>4, ExpireKeeps, LeastBounds
  <2>5. ASSUME NEW m \in net, m.dst = r,
               table'[r] = ReceiveUpdate(r, table[r], m.src, m.adv)
        PROVE  table'[r] \in Paid(r, LeastLink, LeastDist)
    <3>1. m.src \in Idx \ {r} /\ m.adv \in Advert
      BY <1>1, <2>5, DatagramParts
    <3>2. \A g \in Idx : m.adv[g].id = g /\ m.adv[g].cost >= LeastDist[m.src][g]
      BY DEF PaidInv, Honest
    <3> QED BY <2>1, <2>5, <3>1, <3>2, ReceiveUpdateKeeps, LeastBounds
  <2>6. ASSUME NEW s \in Nbrs(r), NEW c \in NewCosts,
               table'[r] = UpdateCost(r, table[r], s, c)
        PROVE  table'[r] \in Paid(r, LeastLink, LeastDist)
    <3>1. s \in Idx \ {r} /\ c \in Cost
      BY NotOwnNeighbor, InputAssumption
    <3>2. LeastLink[r][s] <= c
      BY BoundAssumption DEF Nbrs
    <3>3. c >= LeastLink[r][s]
      BY <3>1, <3>2, LeastBounds, LowerBoundsTyped DEF Cost
    <3> QED BY <2>1, <2>6, <3>1, <3>3, UpdateCostKeeps, LeastBounds
  <2>7. TableStep(r)
    BY <1>1, TableSteps
  <2> QED BY <2>2, <2>3, <2>4, <2>5, <2>6, <2>7 DEF TableStep
<1>4. ASSUME NEW m \in net'
      PROVE  Honest(m.src, m.adv)
  <2>1. CASE m \in net
    BY <2>1 DEF PaidInv
  <2>2. ASSUME NEW r \in Idx, NEW junk \in [Idx \ Filled({}) -> Junk],
               m \in Broadcast(r, Advertise(r, table'[r], {}, junk), {})
        PROVE  Honest(m.src, m.adv)
    <3>1. m.src = r /\ m.adv = Advertise(r, table'[r], {}, junk)
      BY <2>2 DEF Broadcast
    <3>2. \A i \in Idx : /\ m.adv[i].id = i
                         /\ m.adv[i].cost = table'[r].dv[r][i]
      BY <3>1 DEF Advertise, Filled
    <3>3. \A i \in Idx : table'[r].dv[r][i] >= LeastDist[r][i]
      BY <1>3 DEF Paid
    <3> QED BY <3>1, <3>2, <3>3 DEF Honest
  <2>3. \/ m \in net
        \/ \E r \in Idx : \E gone \in {removed'[r]} :
           \E junk \in [Idx \ Filled(gone) -> Junk] :
             m \in Broadcast(r, Advertise(r, table'[r], gone, junk), gone)
    BY <1>1, NetSteps
  <2> QED BY <1>2, <2>1, <2>2, <2>3
<1> QED BY <1>1, <1>2, <1>3, <1>4 DEF PaidInv

\* Until the first neighbor is given up no router believes in a path cheaper
\* than any there is, through every UPDATE and whatever datagrams are lost, repeated
\* or overtaken.
THEOREM CostsAreReal ==
  ASSUME MaxRemovals = 0
  PROVE  Spec => []NeverTooCheap
<1>1. PaidInv => NeverTooCheap
  BY DEF PaidInv, Paid, Honest, NeverTooCheap
<1>2. PaidInv /\ [Next]_vars => PaidInv'
  BY PaidNext
<1> QED BY <1>1, <1>2, PaidInit, PTL DEF Spec

\* Until then, too, the next hop and the cost of a route belong together.
THEOREM RoutesArePaid ==
  ASSUME MaxRemovals = 0
  PROVE  Spec => []HopPaysForRoute
<1>1. PaidInv => HopPaysForRoute
  BY DEF PaidInv, Paid, HopPaysForRoute
<1>2. PaidInv /\ [Next]_vars => PaidInv'
  BY PaidNext
<1> QED BY <1>1, <1>2, PaidInit, PTL DEF Spec

\* The routers of S send the packets for j round among themselves.
Circle(S, j) == S # {} /\ \A r \in S : r # j /\ table[r].nh[j] \in S

\* Some router of every circle believes in a path that is longer than the cheapest one.
CirclesAreUnsettled ==
    \A j \in Idx : \A S \in SUBSET Idx :
        Circle(S, j) => \E r \in S : table[r].dv[r][j] > LeastDist[r][j]

\* The router of a circle that is the nearest to j has its next hop farther away
\* from j than it is itself: it pays for more than the cheapest path.
LEMMA NearestOfCircle ==
  ASSUME TypeOK, HopIsNeighbor, HopPaysForRoute, NEW j \in Idx, NEW S \in SUBSET Idx,
         Circle(S, j)
  PROVE  \E r \in S : table[r].dv[r][j] > LeastDist[r][j]
<1> DEFINE Far == {LeastDist[r][j] : r \in S}
<1>1. \A a, b \in Idx : LeastLink[a][b] \in 0 .. INF /\ LeastDist[a][b] \in 0 .. INF
  BY LeastBounds, LowerBoundsTyped
<1>2. Far \subseteq Nat /\ Far # {}
  BY <1>1, SizeAssumption DEF Circle
<1>3. PICK n \in Far : \A x \in Far : n <= x
  BY <1>2, LeastNat
<1>4. PICK r \in S : n = LeastDist[r][j]
  BY <1>3
<1> DEFINE h == table[r].nh[j]
<1>5. r \in Idx /\ r # j /\ h \in S /\ h \in Idx /\ h # INF
  <2>1. r \in Idx /\ r # j /\ h \in S /\ h \in Idx
    BY DEF Circle
  <2>2. \A x \in Idx : x # INF
    BY SizeAssumption DEF Idx
  <2> QED BY <2>1, <2>2
<1>6. h # r
  BY <1>5 DEF HopIsNeighbor
<1>7. table[r].dv[r][j] >= LeastLink[r][h] + LeastDist[h][j]
  BY <1>5 DEF HopPaysForRoute
<1>8. LeastDist[r][j] <= LeastDist[h][j]
  BY <1>3, <1>4, <1>5
<1>9. LeastLink[r][h] # 0
  BY <1>5, <1>6, BoundAssumption
<1>10. /\ LeastLink[r][h] \in Nat /\ LeastDist[h][j] \in Nat
       /\ LeastDist[r][j] \in Nat /\ table[r].dv[r][j] \in Nat
  <2>1. table[r] \in Table
    BY <1>5 DEF TypeOK
  <2> QED BY <2>1, <1>1, <1>5, TableParts, SizeAssumption DEF Cost
<1> HIDE DEF h
<1>11. table[r].dv[r][j] > LeastDist[r][j]
  BY <1>7, <1>8, <1>9, <1>10
<1> QED BY <1>11

\* With links that stay as they are, and until the first neighbor is given up, packets
\* go round in a circle, of however many routers, only where some router has not found
\* the cheapest path: LeastDist may be the costs of the cheapest paths themselves.  Such
\* circles happen, from four routers on: a router learns of a path through the next
\* one before that one does.
THEOREM SettledRoutesAreStraight ==
  ASSUME MaxRemovals = 0, NewCosts = {}, LeastLink = LinkCost
  PROVE  Spec => []CirclesAreUnsettled
<1>1. TypeOK /\ HopIsNeighbor /\ HopPaysForRoute => CirclesAreUnsettled
  BY NearestOfCircle DEF CirclesAreUnsettled
<1> QED BY <1>1, TypeCorrect, NextHopIsNeighbor, RoutesArePaid, PTL
=============================================================================
