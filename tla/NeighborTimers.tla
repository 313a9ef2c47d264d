--------------------------- MODULE NeighborTimers ---------------------------
(***************************************************************************)
(* The timers of one router: how main_loop decides how long select may     *)
(* wait, whose missed count grows when it times out, and when a neighbor   *)
(* is given up.                                                            *)
(*                                                                         *)
(* Time is counted in the seconds of time(0).  The code keeps absolute     *)
(* deadlines in timerArray; left is the time to go until each of them.     *)
(* select is called with tv.tv_sec = left[timeoutIndex] and a tv.tv_usec    *)
(* that is whatever the call before left over (on Linux select stores the  *)
(* time not slept), so it ends at left[timeoutIndex] seconds or in the     *)
(* second after that one.                                                  *)
(*                                                                         *)
(* A neighbor is a number, its index in routers[]; the neighbors never     *)
(* change after INIT.                                                      *)
(*                                                                         *)
(* The operators Slip... are the code with a mistake in it; nothing here   *)
(* uses them.  They show that the properties tell it from the code.        *)
(***************************************************************************)
EXTENDS Integers

CONSTANTS
    Nbr,            \* the indexes i with neighbors[i] = 1
    Interval,       \* boardcast_interval after INIT: update_interval
    FirstInterval,  \* boardcast_interval before INIT: 5
    MaxBusy,        \* bound: the seconds the handlers run between two selects
    Horizon         \* bound: silence is counted no further than this

ASSUME TimerAssumption ==
    /\ Nbr \subseteq Nat
    /\ Interval \in Nat \ {0} /\ FirstInterval \in Nat \ {0}
    /\ MaxBusy \in Nat
    /\ Horizon \in Nat /\ Horizon >= 4 * Interval + 2 * MaxBusy

VARIABLES
    phase,         \* "idle" before INIT, "on" after it, "exited" after exit(4)
    heard,         \* the neighbors with firstupdateReceived = 1
    removed,       \* the neighbors with isRemoved = 1
    missed,        \* missed[i]: missedcnt, counted up to 3
    left,          \* left[i]: timerArray[i] - time(0), kept for watched neighbors
    timeoutIndex,  \* the neighbor whose deadline was the nearest, or -1
    wait,          \* the seconds until select times out
    gone,          \* the neighbors that are down and send no more
    quiet          \* quiet[i]: the seconds since i was last heard

vars == <<phase, heard, removed, missed, left, timeoutIndex, wait, gone, quiet>>

NoIndex == -1
Limit == 3      \* the missed updates that are too many

Watched == heard \ removed
Least(a, b) == IF a < b THEN a ELSE b

Init ==
    /\ phase = "idle"
    /\ heard = {}
    /\ removed = {}
    /\ missed = [i \in Nbr |-> 0]
    /\ left = [i \in Nbr |-> 0]
    /\ timeoutIndex = NoIndex
    /\ wait = FirstInterval
    /\ gone = {}
    /\ quiet = [i \in Nbr |-> 0]

-----------------------------------------------------------------------------
\* The farthest deadline.
SlipNearest(time, set) ==
    CHOOSE i \in set : \A j \in set :
        time[i] > time[j] \/ (time[i] = time[j] /\ i <= j)

\* The first of the neighbors in set with the nearest deadline.
Nearest(time, set) ==
    CHOOSE i \in set : \A j \in set :
        time[i] < time[j] \/ (time[i] = time[j] /\ i <= j)

\* The failure of select goes unnoticed.
SlipEnterSelect(tv) ==
    /\ timeoutIndex' = IF Watched' = {} THEN timeoutIndex
                                        ELSE Nearest(left', Watched')
    /\ wait' = IF Watched' = {} THEN tv ELSE left'[timeoutIndex']
    /\ phase' = phase

\* Every pass of the loop grants the nearest neighbor a whole interval.
SlipEnterSelectAnew(tv) ==
    /\ timeoutIndex' = IF Watched' = {} THEN timeoutIndex
                                        ELSE Nearest(left', Watched')
    /\ wait' = IF Watched' = {} THEN tv ELSE Interval
    /\ phase' = phase

\* The head of the loop, once the handlers have set heard', removed' and left':
\* tv_sec is set to the time to the nearest deadline, if a neighbor is watched.
\* With a negative tv_sec select fails and the process exits.
EnterSelect(tv) ==
    /\ timeoutIndex' = IF Watched' = {} THEN timeoutIndex
                                        ELSE Nearest(left', Watched')
    /\ wait' = IF Watched' = {} THEN tv ELSE left'[timeoutIndex']
    /\ phase' = IF wait' < 0 THEN "exited" ELSE phase

\* seconds go by.
Elapse(time, set, seconds) ==
    [i \in Nbr |-> IF i \in set THEN time[i] - seconds ELSE time[i]]
Silence(time, seconds) == [i \in Nbr |-> Least(time[i] + seconds, Horizon)]

-----------------------------------------------------------------------------
\* A second goes by in select.  The process is back within the second after
\* the one in which select is due to time out.
Tick ==
    /\ phase # "exited"
    /\ wait >= 0
    /\ wait' = wait - 1
    /\ left' = Elapse(left, Watched, 1)
    /\ quiet' = Silence(quiet, 1)
    /\ UNCHANGED <<phase, heard, removed, missed, timeoutIndex, gone>>

\* INIT: init_table.  tv is not touched: the wait that began before goes on.
Initialize ==
    /\ phase = "idle"
    /\ phase' = "on"
    /\ UNCHANGED <<heard, removed, missed, left, timeoutIndex, wait, gone, quiet>>

\* select returns with descriptors ready, and leaves in tv the time not slept.
TimeNotSlept == IF wait < 0 THEN 0 ELSE wait

\* missedcnt is not reset, or that of every neighbor is.
SlipResetCount(i) == UNCHANGED missed
SlipResetCountOfAll(i) == missed' = [j \in Nbr |-> 0]
ResetCount(i) == missed' = [missed EXCEPT ![i] = 0]

\* The deadline is not moved.
SlipRenew(time, i) == time
Renew(time, i) == [time EXCEPT ![i] = Interval]

\* An update from neighbor i is read, after and before handlers of control and
\* data connections, which may run for some seconds.
Receive(i, before, after) ==
    /\ phase = "on"
    /\ i \notin gone
    /\ before + after <= MaxBusy
    /\ heard' = heard \cup {i}
    /\ UNCHANGED <<removed, gone>>
    /\ ResetCount(i)
    /\ left' = Elapse(Renew(Elapse(left, Watched, before), i), Watched', after)
    /\ quiet' = Silence([Silence(quiet, before) EXCEPT ![i] = 0], after)
    /\ EnterSelect(TimeNotSlept)

\* No update is read this time.
Busy(seconds) ==
    /\ phase # "exited"
    /\ left' = Elapse(left, Watched, seconds)
    /\ quiet' = Silence(quiet, seconds)
    /\ UNCHANGED <<heard, removed, missed, gone>>
    /\ EnterSelect(TimeNotSlept)

\* Every neighbor that is watched has missed an update.
SlipCharge ==
    /\ missed' = [i \in Nbr |-> IF i \in Watched THEN Least(missed[i] + 1, Limit)
                                                ELSE missed[i]]
    /\ left' = [i \in Nbr |-> IF i = timeoutIndex THEN Interval ELSE left[i]]

\* The neighbor of timeoutIndex has missed an update, even if it is not watched any
\* more.
Charge ==
    IF timeoutIndex = NoIndex THEN UNCHANGED <<missed, left>>
    ELSE /\ missed' = [missed EXCEPT ![timeoutIndex] = Least(@ + 1, Limit)]
         /\ left' = [left EXCEPT ![timeoutIndex] = Interval]

\* select times out, and the neighbors with too many missed updates are given up.
Timeout ==
    /\ phase # "exited"
    /\ wait <= 0
    /\ Charge
    /\ removed' = removed \cup {i \in Nbr : missed'[i] >= Limit}
    /\ UNCHANGED <<heard, gone, quiet>>
    /\ EnterSelect(IF phase = "idle" THEN FirstInterval ELSE Interval)

\* Neighbor i goes down.
Down(i) ==
    /\ i \notin gone
    /\ gone' = gone \cup {i}
    /\ UNCHANGED <<phase, heard, removed, missed, left, timeoutIndex, wait, quiet>>

Next ==
    \/ Tick
    \/ Initialize
    \/ \E i \in Nbr, before, after \in 0 .. MaxBusy : Receive(i, before, after)
    \/ \E seconds \in 0 .. MaxBusy : Busy(seconds)
    \/ Timeout
    \/ \E i \in Nbr : Down(i)

Spec == Init /\ [][Next]_vars

-----------------------------------------------------------------------------
(***************************************************************************)
(* Safety.                                                                 *)
(***************************************************************************)

\* left never runs further below zero than a second in select and one run of
\* the handlers.
TypeOK ==
    /\ phase \in {"idle", "on", "exited"}
    /\ heard \subseteq Nbr
    /\ removed \subseteq heard
    /\ missed \in [Nbr -> 0 .. Limit]
    /\ left \in [Nbr -> -(MaxBusy + 1) .. Interval]
    /\ timeoutIndex \in heard \cup {NoIndex}
    /\ wait \in Int
    /\ gone \subseteq Nbr
    /\ quiet \in [Nbr -> 0 .. Horizon]

\* timeoutIndex and tv outlive the pass of the loop that computes them, and every
\* handler restarts select.  Still no watched neighbor stays silent for longer
\* than three intervals, each with the second that select may be late: by then it
\* is given up, or the router has stopped itself.
SilenceIsNoticed ==
    phase # "exited" => \A i \in Watched : quiet[i] <= 3 * (Interval + 1)

\* A neighbor is only given up after three whole intervals without an update
\* from it, whatever the other neighbors sent and however late select returned.
GivenUpWhenSilent ==
    [][\A i \in removed' \ removed : quiet[i] >= 3 * Interval]_vars

\* What module DVRouting takes for granted of a timeout at a router: it gives up
\* one neighbor at most, one it has heard from, and none in any other step.
LosesOneHeard ==
    [][/\ removed' \ removed \subseteq heard
       /\ \A i, j \in removed' \ removed : i = j
       /\ removed' # removed => Timeout]_vars

\* A router never stops by itself while every neighbor it watches was heard in
\* the last interval: only then can a deadline lie in the past and select fail.
ExitsOnlyWhenLate ==
    [][phase' = "exited" =>
           phase = "exited" \/ \E i \in Watched' : quiet'[i] > Interval]_vars

-----------------------------------------------------------------------------
(***************************************************************************)
(* Liveness.                                                               *)
(***************************************************************************)

\* Time goes by, and select, when it is due, times out unless it returns for
\* another reason.
Fairness == WF_vars(Tick) /\ WF_vars(Timeout)

FairSpec == Spec /\ Fairness

\* A neighbor that goes down after it was heard is given up in the end, no
\* matter how often the other neighbors and the controller restart select; the
\* one way out is a router that stops itself.
SilentIsGivenUp ==
    \A i \in Nbr : i \in gone /\ i \in heard ~> i \in removed \/ phase = "exited"
=============================================================================
