----------------------------- MODULE DVRouting ------------------------------
(***************************************************************************)
(* The control plane of a topology: every router runs one process, whose   *)
(* handlers are run to completion by the select loop of main_loop, and the *)
(* routers exchange their distance vectors in UDP datagrams, which may be  *)
(* lost, reordered and duplicated.  The controller sends INIT, UPDATE and  *)
(* CRASH.                                                                  *)
(*                                                                         *)
(* When select times out, and which neighbor has then missed too many      *)
(* updates, is the matter of module NeighborTimers; here a timeout may     *)
(* happen at any moment and may give up any neighbor heard from before.    *)
(***************************************************************************)
EXTENDS RoutingTable, FiniteSets

CONSTANTS
    LinkCost,     \* LinkCost[r][s]: the cost the controller's INIT gives to r for s
    NewCosts,     \* the costs UPDATE may set
    Junk,         \* the fields an unfilled part of a datagram may hold
    MaxUpdates,   \* bound: the number of UPDATEs of a behavior
    MaxCrashes,   \* bound: the number of routers that crash
    MaxRemovals,  \* bound: the number of neighbors a router gives up
    MaxInFlight,  \* bound: the datagrams in flight from one router to another
    LeastLink,    \* LeastLink[r][s]: no cost r is ever given for its link to s is less
    LeastDist     \* LeastDist[r][s]: no path from r to s ever costs less

ASSUME TopologyAssumption ==
    /\ LinkCost \in [Idx -> [Idx -> Cost]]
    /\ \A r, s \in Idx : LinkCost[r][s] = 0 <=> r = s

\* The two lower bounds only serve to state the properties.
ASSUME BoundAssumption ==
    /\ LeastLink \in [Idx -> [Idx -> Cost]]
    /\ LeastDist \in [Idx -> [Idx -> Cost]]
    /\ \A r, s \in Idx : LeastLink[r][s] <= LinkCost[r][s]
    /\ \A r, s \in Idx : LeastLink[r][s] = 0 <=> r = s
    /\ \A r \in Idx : \A s \in Neighbors(LinkCost[r]), c \in NewCosts :
           LeastLink[r][s] <= c
    /\ \A r, s \in Idx : LeastDist[r][s] <= LeastLink[r][s]
    /\ \A r, s, u \in Idx :
           LeastDist[r][u] <= LeastDist[r][s] + LeastDist[s][u]

ASSUME InputAssumption ==
    /\ NewCosts \subseteq Cost \ {0}
    /\ Junk \subseteq Field
    /\ MaxUpdates \in Nat /\ MaxCrashes \in Nat
    /\ MaxRemovals \in Nat /\ MaxInFlight \in Nat

VARIABLES
    phase,    \* phase[r]: "off" before INIT, "on" after it, "crashed" after CRASH
    table,    \* table[r]: distanceVector and the nextHopIDs at r
    heard,    \* heard[r]: the neighbors with firstupdateReceived = 1
    removed,  \* removed[r]: the neighbors with isRemoved = 1
    net,      \* the datagrams in flight
    updates   \* the number of UPDATEs so far

vars == <<phase, table, heard, removed, net, updates>>

Datagram == [src : Idx, dst : Idx, adv : Advert]

\* The tables of routers that are not up are never read.
EmptyTable == [dv |-> [i \in Idx |-> [j \in Idx |-> INF]],
               nh |-> [j \in Idx |-> INF]]

Init ==
    /\ phase = [r \in Idx |-> "off"]
    /\ table = [r \in Idx |-> EmptyTable]
    /\ heard = [r \in Idx |-> {}]
    /\ removed = [r \in Idx |-> {}]
    /\ net = {}
    /\ updates = 0

-----------------------------------------------------------------------------
\* The neighbors array is filled at INIT and never changed after it.
Nbrs(r) == Neighbors(LinkCost[r])

\* INIT reaches router r: init_table.
InitRouter(r) ==
    /\ phase[r] = "off"
    /\ phase' = [phase EXCEPT ![r] = "on"]
    /\ table' = [table EXCEPT ![r] = InitTable(r, LinkCost[r])]
    /\ UNCHANGED <<heard, removed, net, updates>>

InFlight(s, d) == {m \in net : m.src = s /\ m.dst = d}

\* The datagrams of one broadcast of r: one to every neighbor not removed, as
\* far as there is room on the way to it (the others are lost).
Broadcast(r, adv, gone) ==
    {[src |-> r, dst |-> d, adv |-> adv] : d \in
        {s \in Nbrs(r) \ gone : Cardinality(InFlight(r, s)) < MaxInFlight}}

\* select times out at r, and the neighbors in lost (at most one: only the
\* missed count of timeoutIndex grows) have now been silent for too long.
Timeout(r, lost) ==
    LET gone == removed[r] \cup lost
    IN  /\ phase[r] = "on"
        /\ lost \subseteq heard[r] \ removed[r]
        /\ Cardinality(lost) <= 1
        /\ Cardinality(gone) <= MaxRemovals
        /\ removed' = [removed EXCEPT ![r] = gone]
        /\ table' = [table EXCEPT ![r] = Expire(r, table[r], lost)]
        /\ \E junk \in [Idx \ Filled(gone) -> Junk] :
               net' = net \cup
                   Broadcast(r, Advertise(r, table'[r], gone, junk), gone)
        /\ UNCHANGED <<phase, heard, updates>>

\* The router socket of m.dst is readable: recv_update_distanceVector.  The
\* datagram may have been duplicated on the way.
Receive(m) ==
    LET r == m.dst
    IN  /\ phase[r] = "on"
        /\ heard' = [heard EXCEPT ![r] = @ \cup {m.src}]
        /\ table' = [table EXCEPT ![r] =
                        ReceiveUpdate(r, table[r], m.src, m.adv)]
        /\ net' \in {net, net \ {m}}
        /\ UNCHANGED <<phase, removed, updates>>

Lose(m) ==
    /\ net' = net \ {m}
    /\ UNCHANGED <<phase, table, heard, removed, updates>>

\* UPDATE: the controller changes the cost of the link from r to its neighbor
\* s, at r; the other end of the link learns of it by an UPDATE of its own.
Update(r, s, c) ==
    /\ phase[r] = "on"
    /\ updates < MaxUpdates
    /\ table' = [table EXCEPT ![r] = UpdateCost(r, table[r], s, c)]
    /\ updates' = updates + 1
    /\ UNCHANGED <<phase, heard, removed, net>>

\* CRASH: the router answers the controller and exits.
Crash(r) ==
    /\ phase[r] = "on"
    /\ Cardinality({s \in Idx : phase[s] = "crashed"}) < MaxCrashes
    /\ phase' = [phase EXCEPT ![r] = "crashed"]
    /\ UNCHANGED <<table, heard, removed, net, updates>>

Next ==
    \/ \E r \in Idx : InitRouter(r)
    \/ \E r \in Idx : \E lost \in SUBSET heard[r] : Timeout(r, lost)
    \/ \E m \in net : Receive(m)
    \/ \E m \in net : Lose(m)
    \/ \E r \in Idx : \E s \in Nbrs(r), c \in NewCosts : Update(r, s, c)
    \/ \E r \in Idx : Crash(r)

Spec == Init /\ [][Next]_vars

-----------------------------------------------------------------------------
(***************************************************************************)
(* Safety.                                                                 *)
(***************************************************************************)

\* Every entry of a matrix and of a datagram stays within the 16 bits of the
\* wire formats: the clamp at INF is reached whatever the order of the handlers.
TypeOK ==
    /\ phase \in [Idx -> {"off", "on", "crashed"}]
    /\ table \in [Idx -> Table]
    /\ heard \in [Idx -> SUBSET Idx]
    /\ removed \in [Idx -> SUBSET Idx]
    /\ net \subseteq Datagram
    /\ updates \in 0 .. MaxUpdates

\* A destination of finite cost has a next hop: packets and ROUTING-TABLE
\* answers never name a reachable router without saying how to reach it.
ReachableHasHop ==
    \A r, j \in Idx : table[r].dv[r][j] < INF => table[r].nh[j] # INF

\* control_handler.c:180: if the cost of the path to a router is INF, the next
\* hop is INF as well.
UnreachableHasNoHop ==
    \A r, j \in Idx : table[r].dv[r][j] = INF => table[r].nh[j] = INF

\* Packets only ever go to a router there is a link to, or nowhere: nextHopID
\* is copied along a route found through any router k, so that it has to be the
\* first hop of the route to k and never k itself.
HopIsNeighbor ==
    \A r, j \in Idx : /\ table[r].nh[j] \in Nbrs(r) \cup {r, INF}
                      /\ table[r].nh[j] = r => j = r

\* No router ever believes in a path cheaper than any that exists, for itself
\* or for another router, and none is on its way to one.
NeverTooCheap ==
    /\ \A r, i, j \in Idx : table[r].dv[i][j] >= LeastDist[i][j]
    /\ \A m \in net, i \in Idx :
           /\ m.adv[i].id = i
           /\ m.adv[i].cost >= LeastDist[m.src][i]

\* The cost of a route is at least that of the link to its next hop and of the
\* way from there: next hop and cost never stem from two different paths.
HopPaysForRoute ==
    \A r, j \in Idx : LET h == table[r].nh[j] IN
        h # INF => table[r].dv[r][j] >= LeastLink[r][h] + LeastDist[h][j]

\* Nothing changes the table of r any more: no round of Bellman-Ford, no vector on its
\* way to r, and none that a neighbor would send it now.
Unchanging(r) ==
    /\ BellmanFord(r, table[r]) = table[r]
    /\ \A m \in net : m.dst = r => ReceiveUpdate(r, table[r], m.src, m.adv) = table[r]
    /\ \A s \in Idx : phase[s] = "on" /\ r \in Nbrs(s) \ removed[s] =>
          \A junk \in [Idx \ Filled(removed[s]) -> Junk] :
              LET adv == Advertise(s, table[s], removed[s], junk)
              IN  ReceiveUpdate(r, table[r], s, adv) = table[r]

AtRest == \A r \in Idx : phase[r] = "on" /\ Unchanging(r)

\* Once the routers are at rest their routes fit together, also when an UPDATE has
\* changed a link at one of its ends only: the cost of a route is that of the route to
\* the next hop and of the next hop's own route, which is nearer to the destination.
\* Packets may go round in a circle while vectors are exchanged, but none for ever.
RoutesFitAtRest ==
    AtRest => \A r, j \in Idx : LET h == table[r].nh[j] IN
        r # j /\ h # INF =>
            /\ table[r].dv[r][j] = table[r].dv[r][h] + table[h].dv[h][j]
            /\ table[h].dv[h][j] < table[r].dv[r][j]

\* A route gets worse for a reason: the vector of its own next hop, an UPDATE
\* or the loss of the neighbor it leads to.  The vectors of other routers, and
\* the next timeout, only ever improve it.
CostGrows(r, j) == table'[r].dv[r][j] > table[r].dv[r][j]

WorseOnlyForAReason ==
    [][\A r, j \in Idx : CostGrows(r, j) =>
          \/ j \in removed'[r] \ removed[r]
          \/ updates' # updates
          \/ \E m \in InFlight(table[r].nh[j], r) : Receive(m)]_vars

\* Only UPDATE leaves a next hop on a route of cost INF, whose comparison with INF
\* (control_handler.c:248) misses a sum of exactly INF: no vector that arrives
\* afterwards, and no round of Bellman-Ford, makes another such route.
HopOutOfReach(r, j) == table[r].dv[r][j] = INF /\ table[r].nh[j] # INF

OutOfReachOnlyByUpdate ==
    [][\A r, j \in Idx :
          HopOutOfReach(r, j)' => HopOutOfReach(r, j) \/ updates' # updates]_vars

-----------------------------------------------------------------------------
(***************************************************************************)
(* Liveness.                                                               *)
(***************************************************************************)

\* Of select, only what module NeighborTimers shows of it: a neighbor that is watched
\* is never silent for long, because it is given up if it is (SilenceIsNoticed).
\* No router is granted that its own select times out: the vectors that arrive may put
\* that off for ever (module Heartbeat).  The controller initialises every router, and
\* a datagram does not stay on its way for ever, vectors being seconds apart.
Fairness ==
    /\ \A r \in Idx : WF_vars(InitRouter(r))
    /\ \A r \in Idx : \A s \in Nbrs(r) :
          /\ \/ []<>(s \notin heard[r] \/ s \in removed[r])
             \/ []<><<\E m \in InFlight(s, r) : Receive(m)>>_vars
          /\ []<>(InFlight(s, r) = {})

FairSpec == Spec /\ Fairness

\* What the protocol needs and the loop of main_loop does not grant: every router gets
\* to its first broadcast, and none is given up for being kept from the next ones.
Connected ==
    /\ <>(\A r \in Idx : heard[r] = Nbrs(r))
    /\ [](\A r \in Idx : removed[r] = {})

\* The costs of the cheapest paths all of whose interior routers are in inner.
Cheapest(inner) ==
    LET Through(d, k) == [i \in Idx |-> [j \in Idx |->
            IF d[i][k] + d[k][j] < d[i][j] THEN d[i][k] + d[k][j]
                                           ELSE d[i][j]]]
        best[n \in 0 .. N] ==
            IF n = 0 THEN LinkCost
            ELSE IF n - 1 \in inner THEN Through(best[n - 1], n - 1)
            ELSE best[n - 1]
    IN  best[N]

ShortestPath == Cheapest(Idx)
ShortestPathAvoiding0 == Cheapest(Idx \ {0})

Settled(dist) == \A r \in Idx : table[r].dv[r] = dist[r]

\* With the links INIT found, routers are only at rest with the costs of the cheapest
\* paths that have no interior router of index 0: one round of updateDVBybellmanFord
\* per message and per timeout is enough, and no stale vector leaves them elsewhere.
CheapestAtRest == AtRest => Settled(ShortestPathAvoiding0)

\* ... and there they end up and stay, if each hears from its neighbors: whatever is
\* lost, repeated or overtaken, and however rarely one of them broadcasts.
SettlesAvoiding0 == Connected => <>[]Settled(ShortestPathAvoiding0)

\* What "run the bellmanford alg" (routing_handler.c:239, control_handler.c:244)
\* promises: every router ends up with the costs of the cheapest paths.
SettlesOnShortest == Connected => <>[]Settled(ShortestPath)
=============================================================================
