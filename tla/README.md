# A verification of the distance-vector router

The repository holds one program, a software router in C
(`src/cse489589_assignment3/hwang67`). A controller tells each router over TCP
who its neighbors are and at what cost; the routers exchange distance vectors
over UDP, find routes with Bellman-Ford, and carry files to each other over TCP.
This directory holds TLA+ modules of it, the configurations with which TLC
checks them, and proofs that TLAPS checks. File names below are relative to
`hwang67/src`.

## The system

One process per router, one thread, one loop: `main_loop`
(`connection_manager.c`) computes how long `select` may wait, calls it, and then
runs a handler to its end for each descriptor that is ready, or, when `select`
timed out, the timeout handler. Within a router, therefore, handlers are atomic
with respect to each other except where they block; what interleaves is the
routers, the datagrams and connections between them, and the clock.

| component | state | operations | what is hard | what makes it correct |
|---|---|---|---|---|
| Routing table (`routing_handler.c`, `control_handler.c`) | `distanceVector[][]`, `routers[].nextHopID` | `create_routing_table`, `updateCost`, `updateDVBybellmanFord`, the merge in `recv_update_distanceVector`, the give-up in `main_loop` | one round only per event; an in-place algorithm that rewrites routes it then copies next hops from; INF as a value; a cost may grow | cost and next hop belong together; costs are those of paths that exist; a route gets worse only for a reason |
| Distance-vector protocol (`routing_handler.c`) | the tables, `firstupdateReceived`, `isRemoved`, datagrams in flight | INIT, UPDATE, CRASH, timeout and broadcast, receipt of an update | lost, repeated and reordered datagrams; half-filled updates; routers that crash | the same for all routers at once; routes that no longer change fit together; costs settle |
| Select loop and timers (`connection_manager.c`) | `timerArray`, `missedcnt`, `timeoutIndex`, `tv` | head of the loop, timeout, the bookkeeping of a receipt | handlers that take seconds; a `timeoutIndex` and a `tv` that outlive the pass; `select` with a negative time | only a silent neighbor is given up, and it is; the process goes on |
| Data plane (`data_handler.c`) | `data_socket_fd` per next hop, accepted connections, `fileStatArray`, `lastDataPacket`, `penultimateDataPacket` | `send_file`, `sending_file`, `handle_data`, accept | blocking sends; sockets shared by transfers and closed by each; `connect` that fails; routes in a circle, routes that change; a next hop that dies | a file arrives in order, whole and once; nothing is left unread; statistics agree; the routers come to rest |
| Control sessions (`control_handler.c`, `network_util.c`) | list of connections, `master`, the command being read | accept, read a command, perform and answer it, remove | commands in pieces and without pauses; controllers that hang up; list entries freed during the walk; a second INIT | every command is read as it was written and answered in its turn; controllers cannot stop the router |
| Responses (`control_response.c`, `control_header_lib.c`, `author.c`) | none of their own | build and send an answer | byte order; an answer to a controller that has gone | the answers agree with each other along the way of a file |
| Network utilities (`network_util.c`) | none | `sendALL`, `recvALL`, `sendtoALL`, `recvfromALL` | partial transfers, the end of a stream in the middle of a message, SIGPIPE | a message is sent or received whole |
| Entry, build files, controller and grader binaries | | | | not modelled |

How they interact: the handlers of the data plane read `nextHopID`; the timers
decide when a timeout happens and whom it gives up, and the protocol says what
the timeout then does to the table; the receipt of a vector resets the timer of
its sender, and by that puts off the router's own broadcast; a command of the
controller runs inside a pass of the loop and keeps everything else waiting. The
hazards behind the properties are listed, each at its line, in
`PROJECT.json`.

## Modules

| module | models | remarks |
|---|---|---|
| `Loops` | the C `for` loop, as a recursive function `Repeat` | no `RECURSIVE`, so that proofs can use it |
| `RoutingTable` | the table of one router and every operation on it, as operators from table to table | pure; `me` is `localRouterIndex` |
| `DVRouting` | all routers, the datagrams between them, INIT, UPDATE, CRASH | one action per handler, each with its broadcast and its Bellman-Ford round |
| `MCDVRouting` | topologies of three routers | |
| `NeighborTimers` | the timers of one router, in seconds | composed with `DVRouting` by assumption: `LosesOneHeard` is what `DVRouting` takes for granted of a timeout |
| `Heartbeat` | two neighbors: two instances of `NeighborTimers`, and the datagrams between them | what decides whether a router gets to broadcast |
| `FileChannel` | abstract: a file is sent and delivered packet by packet, in order | |
| `DataPlane` | files on their way through routers whose next hops may change and which may die | implements `FileChannel` when transfers do not share sockets |
| `MCDataPlane` | small networks and transfers | |
| `Dialogue` | abstract: commands are taken one by one, in order, and answered when taken | |
| `ControlSession` | the controllers' connections to one router, with `recvALL` on a stream of pieces | implements `Dialogue` |
| `MCControlSession` | the lengths of commands | |
| `LoopInduction`, `RoutingTableTheorems`, `DVRoutingTheorems`, `NeighborTimersTheorems`, `HeartbeatTheorems`, `ControlSessionTheorems`, `DataPlaneTheorems`, `FileChannelTheorems` | proofs | |

Operators named `Slip...` are the definition that follows them with one
plausible mistake put in. Nothing uses them; each shows that a property tells
the mistake from the code.

### RoutingTable and DVRouting

`table[r].dv` is `distanceVector` at router r, `table[r].nh` the `nextHopID`s,
with routers named by their index. `Relax` is the body of the innermost loop of
`updateDVBybellmanFord`, `RelaxEntry`, `RelaxRow` and `BellmanFord` the loops
around it; the loop over k starts at 1 and there is exactly one round, as in the
code, where the `count` that decides on another round is never changed.
`Merge` is the loop of `recv_update_distanceVector` over the fields of a
datagram: `Target` is the `routerIndex` that survives from one field to the
next, `Held` what the row of the sender holds before a field is applied.
`SetLink` and `Reprice` are the two parts of `updateCost`, `GiveUp` the part of
the timeout that removes a neighbor. `Advertise` builds the datagram; the
fields from the first removed router on are whatever the buffer holds (`Junk`).
`routers[].cost` is left out: after INIT nothing reads it.

A datagram sent to a neighbor that is not up is one that gets lost. `Receive`
keeps the datagram or removes it (duplication), `Lose` removes it, and the set
`net` has no order (reordering). INIT comes once.

### NeighborTimers

`left[i]` is `timerArray[i] - time(0)`. `tv.tv_sec` is set to the least of them,
`tv_usec` is what the call of `select` before left over, so that `select` ends
at the deadline or within the following second (`Tick` is possible until `wait`
is -1, `Timeout` from 0 on). `Receive` and `Busy` are passes of the loop in which
`select` returned with descriptors; the other handlers of the pass take up to
`MaxBusy` seconds. A negative `tv_sec` makes `select` fail and the process exit:
phase `"exited"`.

### Heartbeat

`A` and `B` are instances of `NeighborTimers` with one neighbor each, and `Next`
takes their steps: a second goes by for both at once (`Tick`), a timeout at one
of them (`BeatA`, `BeatB`) puts a vector on its way to the other (`toB`, `toA`),
which reads it within the second (`HearA`, `HearB`), or it is lost. `Interrupt` is
a pass of the loop for any other reason. Handlers take no time here
(`MaxBusy <- 0`); that they do is the matter of `NeighborTimers`. The point is
`connection_manager.c:163`: a router broadcasts only after a timeout of `select`,
and a vector that arrives makes `select` wait anew for the deadline of its
sender. When both have the same interval and one is a little ahead, each of its
vectors puts off the timeout of the other, which then never sends, and is given
up after three intervals although it is up and nothing was lost.

### DataPlane

`sock[r][h]` is `data_socket_fd` of next hop h at r: 0, open, or the -1 of a
failed `connect`, which stays. `conns[r][h]` are the connections from r to h,
each with the packets on it and the state of its descriptor at h: in the
backlog, watched in `master`, or cleared. `SendFile` and `SendNext` are
`send_file`, during which the router does nothing else (`job`); `Accept` and
`Read` read one packet in `handle_data`, and a packet for another router is then
in the hands of the router (`hold`) until `Forward` has sent it. A packet goes
out in one of three ways: on the socket, once the buffers of `Capacity` packets
have room (`Transmit`); not at all, because there is no socket and `connect`
fails, or has failed before (`NoSocket`); or to a next hop that has died
(`Break`), where it vanishes or the router dies of SIGPIPE. The source handles no
signal, so that a router that dies takes with it those that go on sending to it.

`route` is `nextHopID` of every destination. What changes it is `DVRouting`; here
`Reroute` picks another of the routings in `Routes`, between two handlers. The
sockets stay with the next hops. `known[r]`, `first`, `ttls` and `seqs` are
`fileStatArray`, in which an entry of zeros is that of transfer ID 0. Numbers are
noted in network order where a packet is sent (`Htons`) and in host order where it
is written; `SendfileStats`, `LastDataPacket` and `PenultimateDataPacket` are what
the controller makes of the answers. The data of a packet are left out.

`Passes(f)` are the routers a file comes by: its source, the next hop of that one,
and so on up to the destination. `TrailsAgree` compares each of them with its next
hop. `Lasting` are the files whose TTL suffices under every routing in `Routes`,
also when the routing changes while they are on their way.

### ControlSession

A connection has a controller's end (`peer`), a stream of units that have
arrived, and a descriptor at the router (`fd`). A unit is a piece of a command:
the header is `HeaderUnits` of them, the payload the rest; they arrive one by one,
those of the next command behind those of this one. `Begin` is the pass of
`main_loop` in which `isControl` finds the connection; from then on the router is in
`recvALL` (`reader`), until `Perform` runs the switch. `Respond` is `sendALL`
of the answer: on a connection that the controller has closed it is answered by
a reset, and the next one by SIGPIPE. What the commands do to the rest of the
router is in the other modules; here CRASH ends the process, SENDFILE and an
unknown code may go without an answer.

`remove_control_conn` unlinks the entry of the connection and frees every entry on
its way, reading `le_next` of each after it is freed (`FreeEntries`, `Remove`).
`listed` are the entries that are still good. The next walk over a freed entry
has any of the outcomes of a C library that leaves the memory alone, writes
over it (`keepsNext`), or has given it away again (`Stray`).

## Runs

| run | what it shows | size |
|---|---|---|
| `dv_safety` | a detour cheaper than a link, two datagrams in flight each way: costs cover the next hop and the way from there; routers are at rest only with the cheapest paths that avoid router 0 as an interior router, and settle on them | 30,000 states |
| `dv_failures` | one crash, one removal per router, half-filled datagrams: cost and next hop consistent, next hops are neighbors, routes get worse only for a reason | 140,000 states |
| `dv_updates` | one UPDATE, to a lower or a higher cost or to INF, with sums of exactly INF and beyond: type correctness, next hops, real costs, that only an UPDATE leaves a next hop on a route of cost INF, and that routes fit together once nothing changes | 38,000 states |
| `dv_settles` | a line of routers that may give each other up: where all hear from their neighbors, costs settle on the cheapest paths that avoid router 0 as an interior router | 4,500 states |
| `timers` | two neighbors, handlers of two seconds against intervals of two: how long a neighbor is silent before it is given up, at least and at most, when `select` fails, and that a neighbor that goes down is given up in the end | 44,000 states |
| `heartbeat` | two neighbors that keep each other from sending, one datagram lost, one crash: one of them always broadcasts; without loss only a router that is heard gives its neighbor up; the other one follows | 67,000 states |
| `data_row` | two hops or a circle, four or six packets, buffers of two, TTL four, `connect` failing once and one CRASH, numbers over 65535 and from 0, transfer ID 0: the refinement of `FileChannel`, no packet in two places, agreement of the statistics, what a router dies of, arrival of the file, and that the routers come to rest, except a circle that is full | 9,300 states |
| `data_meeting` | two files of three packets share the last hop, and one of them is sent another way under way: nothing lost, repeated or unread | 35,000 states |
| `sessions` | two controllers, three commands in pieces, hang-ups at any point: the refinement of `Dialogue`, what stops a router, and that commands are taken | 275,000 states |

Three runs end in a violation; each is a disagreement between the code and one of
its own comments, described under `findings`:

| run | what happens |
|---|---|
| `dv_shortest` | the router of index 0 is never an intermediate router (`k = 1` at `routing_handler.c:124`): 1 and 2 stay unreachable for each other in 1 - 0 - 2 |
| `data_overtaken` | a FIN packet on a new connection overtakes a packet on the one before; the file is closed incomplete, and the next packet for it is written to NULL |
| `data_crossing` | two routers that send each other long files wait for each other for ever |

Other differences are written into properties that hold with an exception:

* after an UPDATE a path whose cost sums up to exactly INF keeps its next hop
  (`control_handler.c:248`), where the comment at `:180` promises INF; the
  exception of `OutOfReachOnlyByUpdate`;
* a file numbered from 0 has its second packet noted as its first
  (`data_handler.c:435`), and the destination notes numbers in the other byte
  order (`:444` against `:255`); the exceptions of `TrailsAgree`;
* transfer ID 0 cannot be received at all (`data_handler.c:427`), although
  `data_handler.h:50` has an entry for it; the exception of `DiesOfID0`;
* a controller that hangs up in the middle of a command, or before it has read
  its answers, ends the router or leaves it in an endless loop, and one that is
  removed in order makes the router forget all others; the exceptions of
  `StopsForAReason` and `CommandsAreTaken`;
* a file longer than the buffers on a circle of next hops leaves the routers of the
  circle waiting for one another for ever, with `send_file` at one of them
  (`data_handler.c:349`); the exception of `ComesToRest`;
* a router that is up is given up although nothing was lost, when its neighbor
  keeps it from sending; the exception of `GivenUpByOneItHears`;
* the comment at `connection_manager.c:147` gives a neighbor more than three
  intervals and the code three.

### Bounds, and why they are enough

Three routers are the fewest for a route with an interior router, for a count
to go up through a third, and for index 0 to matter; the proofs cover every N.
Three can also be too few:
with links that stay as they are, three routers never point at each other, while of
four two may for a while (links 1-2 and 2-3 and 0-3 of cost 1, 1-3 of 5 and 0-1 of 10,
when 1 learns of a path before 2 does). Four routers are too many for TLC; for them
there is the proof of `SettledRoutesAreStraight`.
UPDATE is one of a link: the code takes any router ID, and would give a router a link
to one that is no neighbor; the controller's command is for links.
INF is 8 or 15 instead of 65535: large enough that the cheapest paths stay
below it, small enough that sums reach it, exceed it and hit it exactly. Two
datagrams from one router to another (`MaxInFlight`) are enough for an old
vector to overtake a new one; one is used where crashes, removals or UPDATEs
multiply the states. One UPDATE, of a cost that may be INF, one crash, one removal per router: the second
event of a kind multiplies the states by more than ten; the proofs have no such
bound. In the timers, `MaxBusy = Interval` lets a deadline pass during a handler;
`Horizon` only stops the count of silence, beyond what any property looks at.
Two routers and an interval of two seconds are enough for one to stay a second
ahead of the other; three intervals of silence fit below `Horizon`, and the
proof of `BeatsGoOn` has no bound.
In the data plane two transfers meet, every buffer is shorter than the file, a
circle of two routers has room for a file of four packets and not for one of six,
each place where `connect` can fail or a router can crash is one where it does
(`MaxFailures`, `MaxCrashes`), and a route changes once between any two packets
(`MaxMoves`). `MaxTransfers` lets one run choose among three files. For
the controllers, two units of header and one of payload give every way in which a
command can be cut; three commands on two connections are a command behind
another on one connection, and one that waits on the other (`MaxCommands`).
The commands are one with a payload, one that ends the process and one that is
not known; a third connection adds no way to read, only entries to free.

`CHECK_DEADLOCK FALSE` stands where the system may stop: a router that has
exited, and routers that have sent all their files.

### Fairness, and why the code justifies it

* `DVRouting`: the controller initialises each router (weak fairness). Of the
  loop only what `NeighborTimers` shows is assumed: a neighbor that is heard and not
  given up is read again and again, because one that stays silent for more than
  three intervals and three seconds is given up (`SilenceIsNoticed`; a router that stops
  instead is one that crashes, which none does in these runs). No router is granted a timeout of
  its own `select`, which the vectors of its neighbors may put off for ever. A
  datagram is not on its way for ever: now and then none is, as vectors are seconds
  apart. What the protocol needs beyond that is the premise `Connected` of the
  properties and not fairness: every router reaches its first broadcast, and none is
  given up. `Heartbeat` shows that the loop grants neither.
* `Heartbeat`: time passes, a `select` that is due times out unless something
  arrives before, and what has arrived is read.
* `NeighborTimers`: time passes, and a `select` that is due returns. Nothing is
  assumed of the neighbors.
* `DataPlane`: a handler that is not blocked goes on (weak fairness). A
  connection with something to read is read in the end (strong fairness, because
  the router is now and then blocked in a send): a pass of `main_loop` looks at
  every descriptor that `select` found ready.
* `ControlSession`: a controller sends the rest of a command it has begun, unless
  it hangs up (weak fairness of `Arrive`); the router serves every connection
  (strong fairness, because it is now and then in `recvALL` for another).

## Proofs

All theorems hold for every value of the constants that the assumptions of the
modules allow: any N, INF, topology, any intervals and handler times.

| theorem | states | from |
|---|---|---|
| `TypeCorrect` | `TypeOK`: every cost within 0 .. INF | each operation maps tables to tables |
| `FiniteCostHasHop` | `ReachableHasHop` | |
| `NextHopIsNeighbor` | `HopIsNeighbor` | |
| `NoHopOutOfReach` | `UnreachableHasNoHop` | assumes `MaxUpdates = 0`: the next theorem shows why |
| `HopsEndWithReach` | `OutOfReachOnlyByUpdate` | with any number of UPDATEs: a handler rewrites a route of cost INF without its next hop only in `updateCost` |
| `CostsGrowForAReason` | `WorseOnlyForAReason` | |
| `CostsAreReal` | `NeverTooCheap` | assumes `MaxRemovals = 0`: an unfilled field may hold any cost |
| `RoutesArePaid` | `HopPaysForRoute` | the same |
| `SettledRoutesAreStraight` | `CirclesAreUnsettled`: in every circle of next hops some router believes in a path longer than the cheapest | `MaxRemovals = 0` and links that stay as they are, so that `LeastDist` may be the cheapest paths themselves; `HopPaysForRoute` at the router of the circle that is nearest to the destination |
| `TimersTyped` | `TypeOK` of the timers | |
| `SilenceNoticed` | `SilenceIsNoticed` | no bound on what restarts `select`, or how often |
| `ThreeSilentIntervals` | `GivenUpWhenSilent` | |
| `OneNeighborAtATime` | `LosesOneHeard` | |
| `NoExitInTime` | `ExitsOnlyWhenLate` | |
| `SomeRouterBeats` | `BeatsGoOn` | `StepOfA` and `StepOfB` bring in the invariant of the timers |
| `OnlyHeardOnesGiveUp` | `GivenUpByOneItHears` | |
| `SessionsTyped` | `TypeOK` of the sessions | |
| `SessionsAreDialogues` | `IsDialogue`: `ControlSession` implements `Dialogue` | `UnitsAreTheCommandsLeft` |
| `RouterStopsForAReason` | `StopsForAReason` | `UnitsAreTheCommandsLeft` |
| `DataTyped` | `TypeOK` of the data plane | |
| `FinIsLast` | `NothingUnread` | an open socket has a connection without FIN at its other end |
| `LatestNoted` | `LatestAreNoted` | assumes that no packet is numbered 0 (`NoneNumbered0`) |
| `NoneRepeated` | `NothingRepeated`: no packet is in two places | no assumptions: any transfers, routes, failures and crashes |
| `NoneLost` | `NothingLost`: what was sent is written or on its way | no assumptions: its conditions are part of the property |
| `FileIsChannel` | `IsChannel`: `DataPlane` implements `FileChannel` | assumes one transfer and routes that stay (`MaxTransfers = 1`, `MaxMoves = 0`); with changing routes packets overtake one another |
| `OnlyID0Kills` | `DiesOfID0` | the same |
| `StatisticsAgree` | `TrailsAgree`: each router has noted a beginning of what the one before it has | the same; `Carried` and `Trailed` |

**Loops.** `LoopInduction` proves that what one step of a loop preserves the
loop preserves. A theorem with an operator parameter cannot be cited, so
invariants of loops are sets of tables: the step is a function, the invariant a
set, and the induction is made once. It rests on the recursive function `Repeat`
being well defined, which is proved there too.

**Tables.** `RoutingTableTheorems` proves, for each named part of an invariant,
that each operation preserves it. The parts support each other: next hops are
neighbors because `Relax` copies a next hop that is one, and it copies one at all
only if the cost of the route to k is finite, which needs `ReachableHasHop`. For
`CostsAreReal` the invariant of the Bellman-Ford loops says of every entry that it
is at least `LeastDist` and of every route that its cost covers the link to its
next hop and `LeastDist` from there; the triangle inequality of `LeastDist` gives
the step.

**Protocol.** `DVRoutingTheorems` lifts these to `Spec`: one step per action, the
tables of the other routers being unchanged, with what a datagram in flight may
hold as part of the invariant. `SettledRoutesAreStraight` takes the router of a
circle that is nearest to the destination by `LeastDist`: its next hop is no nearer, and
its cost covers the link to it, which is above 0, and `LeastDist` from there, so that
it is above its own `LeastDist`. With links that stay as they are a routing
whose costs have all settled therefore has no circle, and packets go round only until
then. After an UPDATE this says nothing, `LeastDist` being below the costs of the
links; there `RoutesFitAtRest` is what is checked.

**Timers.** None of the properties is inductive by itself. The invariant adds for
every watched neighbor i (`Accounted`) that its silence, plus the time to go until
its deadline, is one interval more than it has missed intervals, and at most a second
more for each of these: each timeout that charges i moves its deadline by one
interval and its count by one, and comes at the deadline or in the second after it.
With three missed this gives three silent intervals, and while there are at most two,
as the deadline is at most a second past, three intervals and three seconds at most.
That only a neighbor that is due is charged (`NearestIsDue`) is another part of the
invariant.

**Heartbeat.** Each step of `Heartbeat` is a step or a stutter of either router's
timers (`StepOfA`, `StepOfB`), so that the invariant `NeighborTimersTheorems` proves
holds of both, by instantiation. `BeatsGoOn` needs more: for a router that watches the other, the
time left until the deadline plus the time since the last broadcast of anyone is
at most one interval, and whatever is on its way to it was sent in this very
second (`SideA`, `SideB`). A vector that is read moves the deadline, but only when one has just
been sent; that is why they cannot both be put off for ever.
`GivenUpByOneItHears` needs what a missed interval means (`MutedA`, `MutedB`): the
timeout that counted it was followed by a broadcast, which is on its way, or was read
no earlier than the deadline began to run.

**Sessions.** `ControlSessionTheorems` rests on one invariant (`Inv`): the units
`recvALL` has got, then those that have arrived, then those the controller has
still to send, are the commands not performed yet, one behind the other, except
the header of the first if `recvALL` is already at its payload (`Framed`). What a
sequence of commands looks like as units would be a recursive definition; instead
`Framed` says that there are places, one for each command, between which its units
lie. Lemmas say how it changes: a command is added (`FramedAppend`), units are
read (`FramedPass`), the first command has been read (`FramedNext`). From it
follows which command a complete header or payload belongs to (`ReadInTurn`), which
is the step of the refinement, and that `recvALL`, when it finds the end of the
stream with units in hand, has a controller in front of it that left in the
middle (`EndlessIsEarly`). The invariant speaks of a router that is `"on"` and of
connections it has not closed: what `remove_control_conn` left unread is nobody's.

**Data plane.** `DataPlaneTheorems` has one invariant (`DataInv`) for any number of
transfers at once. Of a line of connections from s to r it says that on each of
them nothing is behind a packet with FIN and that what is cleared is empty
(`Sound`), and, as long as both ends live and the socket of s is open, that the last
connection is one on which no FIN has gone out (`Goes`). The second is what makes the first
inductive: a packet is only put on a connection without FIN. `LatestNoted` adds
that the entry of a transfer is empty whenever it is set up anew (`Entries`), so that
it forgets nothing; at the destination this holds only if no packet is numbered 0.

`NothingLost` and `NothingRepeated` count. The packets of a file that are on their way
are places: a router's hands, or a number on a connection (`InHand`, `Buffered`). Each
action makes, fills or empties at most one place (`Gains`, `Drops`: the places behind
one that is read move up by one, a bijection), so that the packets missing from the
count of those sent (`Missing`) never become fewer, and grow only with a failing
`connect`, a router that dies or a TTL that ends (`Grows`, `MissingGrows`). For
`NothingLost` the last has to be excluded: as long as nothing fails every packet's TTL
is above the rank of the router it is at or goes to (`HighEnough`), a rank that falls
with each hop of every routing, so that no change of the routes in between can use it up.

**One file.** `FileChannelTheorems` first shows that the next hops, followed from the
first router of the file, either never reach its destination (`Trap`: a set of
routers closed under the next hop) or do so on a way without a repetition (`Way`: on
it each router but the first follows one other): a shortest trail exists, and one with a
repetition could be shortened (`TrailToTrapOrWay`). In a trap nothing is ever
written. On a way the invariant (`Carried`) counts, for every router, the packets it
has got and those it has put on the connection to the next one. A connection holds
the packets between what was put and what was taken (`Stretch`), and a router has in
hand at most the last it has got. What makes this inductive is `Flow`: as long as the
next hop lives, either everything that was sent was put, or nothing was and the
socket is -1. A connect is made only for the first packet, as FIN comes last, so
that a failure loses the file from its beginning; only a next hop that dies cuts it
in the middle, and that one writes nothing more. So what is in the file at the
destination (`Received`) is always a beginning of it.

`StatisticsAgree` goes along the same way. `Trailed` says that each router on it has
noted exactly the packets it has tried to send on, in the order of the file
(`Listed`): it notes a packet before it looks for a socket, so that one whose
`connect` failed is noted as well; so has the source, which `send_file` leaves at once
when a `connect` fails, one packet noted more than it has sent (`Tried`). The destination notes what it writes, with its bytes swapped
(`Filed`), and swapping twice gives the number back (`SwappedTwice`); numbered from 0 it
takes the first packet for none and forgets it. A router can have noted only what it
was sent, and that is a beginning of what the one before it has noted
(`TrailsFollow`). A file in a `Trap` never reaches its destination, so that
`TrailsAgree` says nothing of it.

Only model-checked, since outside the prover's reach: liveness and fairness
(`SettlesAvoiding0`, `SilentIsGivenUp`, `GivenUpIsMutual`, `FilesArrive`,
`ComesToRest`, `CommandsAreTaken`). Only model-checked, but within its reach:
`RoutesFitAtRest` and `CheapestAtRest`, which are about the fixed points of a whole
Bellman-Ford round. Every other invariant, and every action property, of the passing
runs has a theorem.

## Not modelled

* A second INIT. It opens the UDP and the data socket anew on the same ports, which
  `SO_REUSEPORT` allows; the old UDP socket stays in `master`, is taken for an
  unknown one, and is never read, so that `select` returns at once from the first
  datagram on that the kernel gives to it.
* Data connections also walk the list of the controllers' connections
  (`isControl`), with its freed entries; in `DataPlane` that list is empty or good.
* In the data plane: destinations without a next hop (`routers[-1]`), several
  transfers with one ID, more packets than `seq_num_array` holds, the bytes of the
  file (a tail shorter than 1024 is not sent).
* A packet of the data plane that is sent or read in parts: `sendALL` and `recvALL`
  put it together within one handler (the controllers' commands do arrive in parts).
* UPDATE for a router that is no neighbor.
* Errors of `sendto` and `recvfrom`; `accept` that fails.
* The answers of ROUTING-TABLE and AUTHOR: the one is the state of `DVRouting`, the
  other a constant.
* More than two routers in `Heartbeat`, and intervals that differ.
* Program entry, build files, and the controller and grader, which are binaries.

## Plan

1. Proofs of `TrailsAgree` and `IsChannel` for files that share no socket with others,
   instead of a single one.
2. `DVRouting` over routers that time out only when `Heartbeat` lets them.
3. A second INIT, in `Heartbeat` (the socket that is not read).
4. Proofs of `RoutesFitAtRest` and `CheapestAtRest`: that a router at rest has the
   minimum over its rows, and its neighbors' rows are what these have sent.
