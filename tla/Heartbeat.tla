----------------------------- MODULE Heartbeat ------------------------------
(***************************************************************************)
(* Two neighbors, a and b, each with the timers of module NeighborTimers.  *)
(* A router sends its distance vector only when its select times out, and  *)
(* the vector of the neighbor, when it arrives, makes select wait again:   *)
(* each of the two can keep the other from ever sending, and then gives it *)
(* up.                                                                     *)
(*                                                                         *)
(* Both clocks run together, a handler takes no time, and a datagram       *)
(* arrives within the second or never.  Index 0 is a, index 1 is b.        *)
(***************************************************************************)
EXTENDS Integers, FiniteSets

CONSTANTS
    Interval,       \* update_interval, the same for both
    FirstInterval,  \* boardcast_interval before INIT
    MaxLost,        \* bound: the datagrams that get lost
    MaxCrashes,     \* bound: the routers that crash
    Horizon         \* bound: silence is counted no further than this

ASSUME HeartbeatAssumption ==
    /\ Interval \in Nat \ {0} /\ FirstInterval \in Nat \ {0}
    /\ MaxLost \in Nat /\ MaxCrashes \in Nat
    /\ Horizon \in Nat /\ Horizon >= 4 * Interval

VARIABLES
    phaseA, heardA, removedA, missedA, leftA, timeoutIndexA, waitA, quietA,
    phaseB, heardB, removedB, missedB, leftB, timeoutIndexB, waitB, quietB,
    toA, toB,  \* the datagrams on their way to a and to b
    still,     \* the seconds since INIT or since any router broadcast
    lost,      \* the datagrams lost so far
    crashed    \* the routers that have crashed

varsA == <<phaseA, heardA, removedA, missedA, leftA, timeoutIndexA, waitA, quietA>>
varsB == <<phaseB, heardB, removedB, missedB, leftB, timeoutIndexB, waitB, quietB>>
net == <<toA, toB, still, lost, crashed>>
vars == <<varsA, varsB, net>>

A == INSTANCE NeighborTimers WITH
         Nbr <- {1}, MaxBusy <- 0, gone <- {},
         phase <- phaseA, heard <- heardA, removed <- removedA,
         missed <- missedA, left <- leftA, timeoutIndex <- timeoutIndexA,
         wait <- waitA, quiet <- quietA
B == INSTANCE NeighborTimers WITH
         Nbr <- {0}, MaxBusy <- 0, gone <- {},
         phase <- phaseB, heard <- heardB, removed <- removedB,
         missed <- missedB, left <- leftB, timeoutIndex <- timeoutIndexB,
         wait <- waitB, quiet <- quietB

Init ==
    /\ A!Init /\ B!Init
    /\ toA = 0 /\ toB = 0
    /\ still = 0 /\ lost = 0 /\ crashed = {}

-----------------------------------------------------------------------------
\* CRASH takes a router away as it is; a failure of select is its own end.
UpA == phaseA # "exited" /\ 0 \notin crashed
UpB == phaseB # "exited" /\ 1 \notin crashed

\* A second goes by, for both; nothing is under way that would wake them.
Tick ==
    /\ UpA => toA = 0
    /\ UpB => toB = 0
    /\ \/ UpA /\ A!Tick /\ UpB /\ B!Tick
       \/ UpA /\ A!Tick /\ ~UpB /\ UNCHANGED varsB
       \/ UpB /\ B!Tick /\ ~UpA /\ UNCHANGED varsA
    /\ still' = A!Least(still + 1, Horizon)
    /\ UNCHANGED <<toA, toB, lost, crashed>>

\* INIT at either router.
Start ==
    /\ \/ UpA /\ A!Initialize /\ UNCHANGED varsB
       \/ UpB /\ B!Initialize /\ UNCHANGED varsA
    /\ still' = 0
    /\ UNCHANGED <<toA, toB, lost, crashed>>

\* A neighbor that was given up is sent the vector all the same.
SlipBroadcasts(phase, removed) == phase = "on"

\* boardcast_update_routing: to the neighbor, unless it is removed.
Broadcasts(phase, removed) == phase = "on" /\ removed = {}

\* The datagrams for a router before INIT, or one that is down, are nobody's.
Sent(broadcasts, up, peer) == IF broadcasts /\ up /\ peer = "on" THEN 1 ELSE 0

\* Silence begins anew when a vector really goes out.
Beat(broadcasts) == still' = IF broadcasts THEN 0 ELSE still

BeatA ==
    /\ UpA /\ A!Timeout
    /\ toB' = toB + Sent(Broadcasts(phaseA, removedA'), UpB, phaseB)
    /\ Beat(Broadcasts(phaseA, removedA'))
    /\ UNCHANGED <<varsB, toA, lost, crashed>>

BeatB ==
    /\ UpB /\ B!Timeout
    /\ toA' = toA + Sent(Broadcasts(phaseB, removedB'), UpA, phaseA)
    /\ Beat(Broadcasts(phaseB, removedB'))
    /\ UNCHANGED <<varsA, toB, lost, crashed>>

\* The vector of the neighbor is read.
HearA ==
    /\ toA > 0 /\ toA' = toA - 1
    /\ UpA /\ A!Receive(1, 0, 0)
    /\ UNCHANGED <<varsB, toB, still, lost, crashed>>

HearB ==
    /\ toB > 0 /\ toB' = toB - 1
    /\ UpB /\ B!Receive(0, 0, 0)
    /\ UNCHANGED <<varsA, toA, still, lost, crashed>>

\* select returns for another reason, a command or a file.
Interrupt ==
    /\ \/ UpA /\ A!Busy(0) /\ UNCHANGED varsB
       \/ UpB /\ B!Busy(0) /\ UNCHANGED varsA
    /\ UNCHANGED net

\* A datagram is lost.
Lose ==
    /\ lost < MaxLost /\ lost' = lost + 1
    /\ \/ toA > 0 /\ toA' = toA - 1 /\ UNCHANGED toB
       \/ toB > 0 /\ toB' = toB - 1 /\ UNCHANGED toA
    /\ UNCHANGED <<varsA, varsB, still, crashed>>

\* CRASH.
Crash(r) ==
    /\ r \notin crashed /\ Cardinality(crashed) < MaxCrashes
    /\ crashed' = crashed \cup {r}
    /\ UNCHANGED <<varsA, varsB, toA, toB, still, lost>>

Next ==
    \/ Tick \/ Start \/ Interrupt \/ Lose \/ \E r \in {0, 1} : Crash(r)
    \/ BeatA \/ BeatB \/ HearA \/ HearB

Spec == Init /\ [][Next]_vars

-----------------------------------------------------------------------------
(***************************************************************************)
(* Safety.                                                                 *)
(***************************************************************************)

\* However they put each other off, and whatever the controller does, while one of
\* them watches the other some router broadcasts at least every interval and a
\* second: they never keep each other from sending altogether.
BeatsGoOn ==
    \/ UpA /\ A!Watched # {}
    \/ UpB /\ B!Watched # {}
    =>  still <= Interval + 1

\* A router that is up is given up only by a neighbor it hears: while nothing is
\* lost, the one that is given up first has itself been kept from sending, by
\* the vectors of the other, for three intervals.
GivenUpByOneItHears ==
    [][lost = 0 =>
         /\ removedA' # removedA /\ UpB /\ removedB = {} /\ phaseB = "on"
                => quietB[0] <= Interval + 1
         /\ removedB' # removedB /\ UpA /\ removedA = {} /\ phaseA = "on"
                => quietA[1] <= Interval + 1]_vars

-----------------------------------------------------------------------------
(***************************************************************************)
(* Liveness.                                                               *)
(***************************************************************************)

\* Time goes by, a select that is due times out unless it returns before, and
\* what has arrived is read.
Fairness ==
    /\ WF_vars(Tick) /\ WF_vars(BeatA) /\ WF_vars(BeatB)
    /\ WF_vars(HearA) /\ WF_vars(HearB)

FairSpec == Spec /\ Fairness

\* Two routers agree in the end that their link is down: the one that gives the
\* other up sends no more to it, and is given up, or the other is up no more.
GivenUpIsMutual ==
    /\ (1 \in removedA /\ 0 \in heardB) ~> (0 \in removedB \/ ~UpB)
    /\ (0 \in removedB /\ 1 \in heardA) ~> (1 \in removedA \/ ~UpA)
=============================================================================
