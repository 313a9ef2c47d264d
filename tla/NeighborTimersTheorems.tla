----------------------- MODULE NeighborTimersTheorems -----------------------
(***************************************************************************)
(* The safety properties of NeighborTimers, for any neighbors, intervals   *)
(* and running times of the handlers.                                      *)
(***************************************************************************)
EXTENDS NeighborTimers, LoopInduction

\* While any neighbor is watched, timeoutIndex is one of those that are due first.
NearestIsDue ==
    phase # "exited" /\ Watched # {} =>
        /\ timeoutIndex \in Watched
        /\ wait = left[timeoutIndex]
        /\ \A i \in Watched : left[timeoutIndex] <= left[i]

\* What is counted as missed was really missed, and nothing else was: silence so
\* far and time to go add up to one interval more than there are missed updates,
\* and at most a second for each of these.
Accounts(m, sum) ==
    \/ m = 0 /\ sum = Interval
    \/ m = 1 /\ sum \in Interval + Interval .. Interval + Interval + 1
    \/ m = 2 /\ sum \in Interval + Interval + Interval ..
                           Interval + Interval + Interval + 2

Accounted(i) == Accounts(missed[i], quiet[i] + left[i])

TimersInv ==
    /\ TypeOK
    /\ phase = "idle" => heard = {}
    /\ phase # "exited" => wait \in -1 .. Horizon + FirstInterval
    /\ NearestIsDue
    /\ \A i \in Watched : Accounted(i)
    /\ \A i \in Nbr \ heard : missed[i] = 0

LEMMA Constants ==
  /\ Nbr \subseteq Nat /\ NoIndex \notin Nbr
  /\ Interval \in Nat /\ Interval > 0 /\ FirstInterval \in Nat /\ MaxBusy \in Nat
  /\ Horizon \in Nat
  /\ Horizon >= Interval + Interval + Interval + Interval + MaxBusy + MaxBusy
BY TimerAssumption DEF NoIndex

\* d seconds change nothing in the account, even if silence is counted no
\* further than Horizon.
LEMMA AccountsKept ==
  ASSUME NEW q \in 0 .. Horizon, NEW l \in Int, NEW d \in Nat, NEW m,
         Accounts(m, q + l), l - d >= -(MaxBusy + 1)
  PROVE  Accounts(m, Least(q + d, Horizon) + (l - d))
<1>1. CASE q + d < Horizon
  <2>1. Least(q + d, Horizon) + (l - d) = q + l
    BY <1>1, Constants DEF Least
  <2> QED BY <2>1
<1>2. CASE ~ q + d < Horizon
  <2>1. Least(q + d, Horizon) = Horizon
    BY <1>2, Constants DEF Least
  <2>2. /\ Horizon + (l - d) >= Interval + Interval + Interval
        /\ Horizon + (l - d) <= q + l
    BY <1>2, Constants
  <2>3. CASE m = 2
    <3>1. Horizon + (l - d) \in Interval + Interval + Interval ..
                                Interval + Interval + Interval + 2
      BY <2>2, <2>3, Constants DEF Accounts
    <3> QED BY <2>1, <2>3, <3>1 DEF Accounts
  <2>4. CASE m # 2
    <3>1. q + l <= Interval + Interval + 1 /\ (m = 0 => q + l <= Interval)
      BY <2>4, Constants DEF Accounts
    <3>2. m = 1 /\ Horizon + (l - d) \in Interval + Interval .. Interval + Interval + 1
      BY <2>2, <2>4, <3>1, Constants DEF Accounts
    <3> QED BY <2>1, <3>2 DEF Accounts
  <2> QED BY <2>3, <2>4
<1> QED BY <1>1, <1>2

LEMMA NearestIsLeast ==
  ASSUME NEW time \in [Nbr -> -(MaxBusy + 1) .. Interval],
         NEW set, set \subseteq Nbr, set # {}
  PROVE  /\ Nearest(time, set) \in set
         /\ \A j \in set : time[Nearest(time, set)] <= time[j]
<1> DEFINE shifted == {time[i] + MaxBusy + 1 : i \in set}
           P(i) == \A j \in set : time[i] < time[j] \/ (time[i] = time[j] /\ i <= j)
<1>1. \A i \in set : time[i] \in Int /\ time[i] + MaxBusy + 1 \in Nat /\ i \in Nat
  BY Constants
<1>2. PICK least \in shifted : \A x \in shifted : least <= x
  <2>1. shifted \subseteq Nat /\ shifted # {}
    BY <1>1
  <2> QED BY <2>1, LeastNat
<1>3. PICK i0 \in set : least = time[i0] + MaxBusy + 1
  BY <1>2
<1>4. ASSUME NEW j \in set
      PROVE  time[i0] <= time[j]
  <2>1. time[i0] + MaxBusy + 1 <= time[j] + MaxBusy + 1
    BY <1>2, <1>3
  <2> QED BY <1>1, <2>1, Constants
<1> DEFINE first == {i \in set : time[i] = time[i0]}
<1>5. PICK i1 \in first : \A j \in first : i1 <= j
  <2>1. first \subseteq Nat /\ first # {}
    BY <1>1, <1>3
  <2> QED BY <2>1, LeastNat
<1>6. P(i1) /\ i1 \in set
  BY <1>1, <1>4, <1>5
<1>7. Nearest(time, set) = CHOOSE i \in set : P(i)
  BY DEF Nearest
<1>8. Nearest(time, set) \in set /\ P(Nearest(time, set))
  BY <1>6, <1>7
<1>9. ASSUME NEW n \in set, P(n), NEW j \in set
      PROVE  time[n] <= time[j]
  BY <1>1, <1>9
<1> HIDE DEF P
<1> QED BY <1>8, <1>9

\* The head of the loop, whatever the handlers did before.
LEMMA SelectEntered ==
  ASSUME NEW tv \in 0 .. Horizon + FirstInterval,
         EnterSelect(tv), phase \in {"idle", "on"},
         heard' \subseteq Nbr, timeoutIndex \in heard' \cup {NoIndex},
         left' \in [Nbr -> -(MaxBusy + 1) .. Interval]
  PROVE  /\ timeoutIndex' \in heard' \cup {NoIndex}
         /\ wait' \in Int
         /\ phase' \in {phase, "exited"}
         /\ phase' # "exited" => wait' \in 0 .. Horizon + FirstInterval
         /\ NearestIsDue'
         /\ phase' = "exited" => \E i \in Watched' : left'[i] < 0
<1>1. CASE Watched' = {}
  BY <1>1, Constants DEF EnterSelect, NearestIsDue
<1>2. CASE Watched' # {}
  <2>1. Watched' \subseteq Nbr /\ Watched' \subseteq heard'
    BY DEF Watched
  <2>2. timeoutIndex' = Nearest(left', Watched') /\ wait' = left'[timeoutIndex']
    BY <1>2 DEF EnterSelect
  <2>3. /\ timeoutIndex' \in Watched'
        /\ \A i \in Watched' : left'[timeoutIndex'] <= left'[i]
    <3> HIDE DEF Watched
    <3> QED BY <1>2, <2>1, <2>2, NearestIsLeast
  <2>4. wait' \in -(MaxBusy + 1) .. Interval
    BY <2>1, <2>2, <2>3
  <2>5. phase' = IF wait' < 0 THEN "exited" ELSE phase
    BY DEF EnterSelect
  <2> QED BY <2>1, <2>2, <2>3, <2>4, <2>5, Constants DEF NearestIsDue
<1> QED BY <1>1, <1>2

-----------------------------------------------------------------------------
\* The actions, one by one.

\* The watched neighbors have at least a second of their deadlines left.
LEMMA LeftBound ==
  ASSUME TimersInv, phase # "exited"
  PROVE  \A i \in Watched : left[i] \in -1 .. Interval
<1> SUFFICES ASSUME NEW i \in Watched PROVE left[i] \in -1 .. Interval
  OBVIOUS
<1>1. i \in Nbr /\ left[i] \in -(MaxBusy + 1) .. Interval
  BY DEF TimersInv, TypeOK, Watched
<1>2. /\ timeoutIndex \in Watched /\ wait = left[timeoutIndex]
      /\ left[timeoutIndex] <= left[i]
  BY DEF TimersInv, NearestIsDue
<1>3. wait \in Int /\ wait >= -1
  BY Constants DEF TimersInv
<1> QED BY <1>1, <1>2, <1>3, Constants

LEMMA InitTimers == Init => TimersInv
BY Constants DEF Init, TimersInv, TypeOK, NearestIsDue, Watched, Limit

LEMMA TickTimers == TimersInv /\ Tick => TimersInv'
<1> SUFFICES ASSUME TimersInv, Tick PROVE TimersInv'
  OBVIOUS
<1>1. /\ phase # "exited" /\ wait >= 0 /\ wait' = wait - 1
      /\ left' = Elapse(left, Watched, 1)
      /\ quiet' = Silence(quiet, 1)
      /\ UNCHANGED <<phase, heard, removed, missed, timeoutIndex, gone>>
  BY DEF Tick
<1>2. TypeOK
  BY DEF TimersInv
<1>3. \A i \in Nbr : left[i] \in -(MaxBusy + 1) .. Interval
                     /\ quiet[i] \in 0 .. Horizon
  BY <1>2 DEF TypeOK
<1>4. wait \in 0 .. Horizon + FirstInterval /\ Watched' = Watched
  BY <1>1, Constants DEF TimersInv, Watched
<1>5. \A i \in Watched : left[i] \in 0 .. Interval /\ i \in Nbr
  BY <1>1, <1>2, <1>3, <1>4, Constants DEF TimersInv, NearestIsDue, Watched, TypeOK
<1>6. \A i \in Nbr : left'[i] = IF i \in Watched THEN left[i] - 1 ELSE left[i]
  BY <1>1 DEF Elapse
<1>7. /\ left' \in [Nbr -> -(MaxBusy + 1) .. Interval]
      /\ quiet' \in [Nbr -> 0 .. Horizon]
  BY <1>1, <1>3, <1>5, Constants DEF Elapse, Silence, Least
<1>8. TypeOK'
  BY <1>1, <1>2, <1>4, <1>7 DEF TypeOK
<1>9. NearestIsDue'
  <2> SUFFICES ASSUME Watched # {}
               PROVE  /\ timeoutIndex \in Watched
                      /\ wait' = left'[timeoutIndex]
                      /\ \A i \in Watched : left'[timeoutIndex] <= left'[i]
    BY <1>1, <1>4 DEF NearestIsDue
  <2>1. /\ timeoutIndex \in Watched /\ wait = left[timeoutIndex]
        /\ \A i \in Watched : left[timeoutIndex] <= left[i]
    BY <1>1 DEF TimersInv, NearestIsDue
  <2> QED BY <2>1, <1>1, <1>5, <1>6
<1>10. ASSUME NEW i \in Watched
       PROVE  Accounted(i)'
  <2>1. /\ Accounts(missed[i], quiet[i] + left[i])
        /\ quiet[i] \in 0 .. Horizon /\ left[i] \in 0 .. Interval
    BY <1>3, <1>5 DEF TimersInv, Accounted
  <2>2. left[i] \in Int /\ left[i] - 1 >= -(MaxBusy + 1) /\ 1 \in Nat
    BY <2>1, Constants
  <2>3. Accounts(missed[i], Least(quiet[i] + 1, Horizon) + (left[i] - 1))
    BY <2>1, <2>2, AccountsKept
  <2>4. /\ missed'[i] = missed[i] /\ left'[i] = left[i] - 1
        /\ quiet'[i] = Least(quiet[i] + 1, Horizon)
    BY <1>1, <1>5, <1>6 DEF Silence
  <2> QED BY <2>3, <2>4 DEF Accounted
<1> QED BY <1>1, <1>4, <1>8, <1>9, <1>10, Constants DEF TimersInv

\* A run of the handlers: the neighbors watched before and after it lose d
\* seconds of their deadlines, but an update from one of them starts it anew.
LEMMA HandlersTimers ==
  ASSUME TimersInv, phase \in {"idle", "on"},
         heard' \subseteq Nbr, heard \subseteq heard', removed' = removed,
         phase = "idle" => heard' = {},
         gone' = gone, missed' \in [Nbr -> 0 .. Limit],
         left' \in [Nbr -> -(MaxBusy + 1) .. Interval],
         quiet' \in [Nbr -> 0 .. Horizon],
         \A j \in Watched' : Accounted(j)',
         \A j \in Nbr \ heard' : missed'[j] = 0,
         EnterSelect(TimeNotSlept)
  PROVE  /\ TimersInv'
         /\ phase' = "exited" => \E i \in Watched' : quiet'[i] > Interval
<1>1. TimeNotSlept \in 0 .. Horizon + FirstInterval
  <2>1. phase # "exited"
    OBVIOUS
  <2>2. wait \in -1 .. Horizon + FirstInterval
    BY <2>1 DEF TimersInv
  <2> QED BY <2>2, Constants DEF TimeNotSlept
<1>2. timeoutIndex \in heard' \cup {NoIndex}
  BY DEF TimersInv, TypeOK
<1>3. /\ timeoutIndex' \in heard' \cup {NoIndex}
      /\ wait' \in Int
      /\ phase' \in {phase, "exited"}
      /\ phase' # "exited" => wait' \in 0 .. Horizon + FirstInterval
      /\ NearestIsDue'
      /\ phase' = "exited" => \E i \in Watched' : left'[i] < 0
  BY <1>1, <1>2, SelectEntered
<1>4. TypeOK'
  BY <1>3 DEF TypeOK, TimersInv
<1>5. phase' # "exited" => wait' \in -1 .. Horizon + FirstInterval
  BY <1>3, Constants
<1>6. phase' = "idle" => heard' = {}
  BY <1>3
<1>7. ASSUME phase' = "exited"
      PROVE  \E i \in Watched' : quiet'[i] > Interval
  <2>1. PICK i \in Watched' : left'[i] < 0
    BY <1>3, <1>7
  <2>2. i \in Nbr /\ Accounted(i)'
    BY DEF Watched
  <2>3. quiet'[i] \in Nat /\ left'[i] \in Int /\ quiet'[i] + left'[i] >= Interval
    BY <2>2, Constants DEF Accounted, Accounts
  <2> QED BY <2>1, <2>3, Constants
<1> QED BY <1>3, <1>4, <1>5, <1>6, <1>7 DEF TimersInv

LEMMA ReceiveTimers ==
  ASSUME TimersInv, NEW i \in Nbr, NEW before \in 0 .. MaxBusy,
         NEW after \in 0 .. MaxBusy, Receive(i, before, after)
  PROVE  /\ TimersInv'
         /\ phase' = "exited" => \E j \in Watched' : quiet'[j] > Interval
<1> DEFINE l1 == Elapse(left, Watched, before)
           q1 == Silence(quiet, before)
<1>1. /\ phase = "on" /\ before + after <= MaxBusy
      /\ heard' = heard \cup {i}
      /\ UNCHANGED <<removed, gone>>
      /\ missed' = [missed EXCEPT ![i] = 0]
      /\ left' = Elapse([l1 EXCEPT ![i] = Interval], Watched', after)
      /\ quiet' = Silence([q1 EXCEPT ![i] = 0], after)
      /\ EnterSelect(TimeNotSlept)
  BY DEF Receive, ResetCount, Renew
<1>2. /\ heard \subseteq Nbr /\ removed \subseteq heard
      /\ missed \in [Nbr -> 0 .. Limit]
      /\ left \in [Nbr -> -(MaxBusy + 1) .. Interval]
      /\ quiet \in [Nbr -> 0 .. Horizon]
  BY DEF TimersInv, TypeOK
<1>3. \A j \in Watched : j \in Nbr /\ left[j] \in -1 .. Interval
  BY <1>1, <1>2, LeftBound DEF Watched
<1>4. Watched' = Watched \cup ({i} \ removed)
  BY <1>1 DEF Watched
<1>5. \A j \in Nbr : /\ l1[j] = IF j \in Watched THEN left[j] - before ELSE left[j]
                     /\ q1[j] = Least(quiet[j] + before, Horizon)
  BY DEF Elapse, Silence
<1>6. \A j \in Nbr : /\ l1[j] \in -(before + 1) .. Interval \/ j \notin Watched
                     /\ l1[j] \in -(MaxBusy + 1) .. Interval
                     /\ q1[j] \in 0 .. Horizon
  <2> SUFFICES ASSUME NEW j \in Nbr
               PROVE  /\ l1[j] \in -(before + 1) .. Interval \/ j \notin Watched
                      /\ l1[j] \in -(MaxBusy + 1) .. Interval
                      /\ q1[j] \in 0 .. Horizon
    OBVIOUS
  <2>1. q1[j] \in 0 .. Horizon
    BY <1>2, <1>5, Constants DEF Least
  <2>2. CASE j \in Watched
    <3>1. l1[j] = left[j] - before /\ left[j] \in -1 .. Interval
      BY <1>3, <1>5, <2>2
    <3> HIDE DEF l1, q1
    <3> QED BY <2>1, <3>1, Constants
  <2>3. CASE j \notin Watched
    BY <1>2, <1>5, <2>1, <2>3
  <2> QED BY <2>2, <2>3
<1>7. /\ l1 \in [Nbr -> Int] /\ DOMAIN l1 = Nbr
      /\ q1 \in [Nbr -> 0 .. Horizon]
  <2>1. l1 = [j \in Nbr |-> l1[j]] /\ q1 = [j \in Nbr |-> q1[j]]
    BY DEF Elapse, Silence
  <2> HIDE DEF l1, q1
  <2>2. \A j \in Nbr : l1[j] \in Int
    <3> SUFFICES ASSUME NEW j \in Nbr PROVE l1[j] \in Int
      OBVIOUS
    <3>1. l1[j] \in -(MaxBusy + 1) .. Interval
      BY <1>6
    <3> QED BY <3>1, Constants
  <2>3. \A j \in Nbr : q1[j] \in 0 .. Horizon
    BY <1>6
  <2> QED BY <2>1, <2>2, <2>3
<1> HIDE DEF l1, q1
<1>8. ASSUME NEW j \in Nbr \ {i}
      PROVE  /\ left'[j] = IF j \in Watched THEN l1[j] - after ELSE l1[j]
             /\ quiet'[j] = Least(q1[j] + after, Horizon)
             /\ missed'[j] = missed[j]
  BY <1>1, <1>2, <1>4, <1>7 DEF Elapse, Silence
<1>9. /\ left'[i] = IF i \in Watched' THEN Interval - after ELSE Interval
      /\ quiet'[i] = Least(0 + after, Horizon)
      /\ missed'[i] = 0
  BY <1>1, <1>2, <1>7 DEF Elapse, Silence
<1>10. ASSUME NEW j \in Nbr
       PROVE  left'[j] \in -(MaxBusy + 1) .. Interval /\ quiet'[j] \in 0 .. Horizon
  <2>1. CASE j = i
    BY <1>9, <2>1, Constants DEF Least
  <2>2. CASE j # i
    <3>1. quiet'[j] \in 0 .. Horizon
      BY <1>6, <1>8, <2>2, Constants DEF Least
    <3>2. CASE j \in Watched
      <4>1. l1[j] \in -(before + 1) .. Interval /\ left'[j] = l1[j] - after
        BY <1>6, <1>8, <2>2, <3>2
      <4> QED BY <1>1, <3>1, <4>1, Constants
    <3>3. CASE j \notin Watched
      BY <1>6, <1>8, <2>2, <3>1, <3>3
    <3> QED BY <3>2, <3>3
  <2> QED BY <2>1, <2>2
<1>11. /\ left' \in [Nbr -> -(MaxBusy + 1) .. Interval]
       /\ quiet' \in [Nbr -> 0 .. Horizon]
       /\ missed' \in [Nbr -> 0 .. Limit]
  <2>1. left' = [j \in Nbr |-> left'[j]] /\ quiet' = [j \in Nbr |-> quiet'[j]]
    BY <1>1 DEF Elapse, Silence
  <2>2. missed' \in [Nbr -> 0 .. Limit]
    BY <1>1, <1>2 DEF Limit
  <2> QED BY <1>10, <2>1, <2>2
<1>12. ASSUME NEW j \in Watched'
       PROVE  Accounted(j)'
  <2>1. CASE j = i
    <3>1. Accounts(0, 0 + Interval)
      BY Constants DEF Accounts
    <3>2. Interval - after >= -(MaxBusy + 1) /\ after \in Nat /\ Interval \in Int
          /\ 0 \in 0 .. Horizon
      BY Constants
    <3>3. Accounts(0, Least(0 + after, Horizon) + (Interval - after))
      BY <3>1, <3>2, AccountsKept
    <3> QED BY <1>9, <2>1, <3>3 DEF Accounted
  <2>2. CASE j # i
    <3>1. j \in Watched /\ j \in Nbr
      BY <1>3, <1>4, <2>2
    <3>2. Accounts(missed[j], quiet[j] + left[j])
      BY <3>1 DEF TimersInv, Accounted
    <3>3. /\ left[j] \in Int /\ left[j] >= -1 /\ quiet[j] \in 0 .. Horizon
          /\ before \in Nat /\ after \in Nat /\ MaxBusy \in Nat
      BY <1>2, <1>3, <3>1, Constants
    <3>4. left[j] - before >= -(MaxBusy + 1)
      BY <3>3
    <3>5. Accounts(missed[j], q1[j] + l1[j])
      BY <1>5, <3>1, <3>2, <3>3, <3>4, AccountsKept
    <3>6. /\ l1[j] \in Int /\ q1[j] \in 0 .. Horizon
          /\ l1[j] - after >= -(MaxBusy + 1)
      <4>1. l1[j] = left[j] - before
        BY <1>5, <3>1
      <4> QED BY <1>1, <1>6, <3>1, <3>3, <4>1
    <3>7. Accounts(missed[j], Least(q1[j] + after, Horizon) + (l1[j] - after))
      BY <3>3, <3>5, <3>6, AccountsKept
    <3> QED BY <1>8, <2>2, <3>1, <3>7 DEF Accounted
  <2> QED BY <2>1, <2>2
<1>13. /\ heard' \subseteq Nbr /\ heard \subseteq heard'
       /\ removed' = removed /\ gone' = gone
       /\ \A j \in Nbr \ heard' : missed'[j] = 0
  BY <1>1, <1>2, <1>8 DEF TimersInv
<1> QED BY <1>1, <1>11, <1>12, <1>13, HandlersTimers

LEMMA BusyTimers ==
  ASSUME TimersInv, NEW seconds \in 0 .. MaxBusy, Busy(seconds)
  PROVE  /\ TimersInv'
         /\ phase' = "exited" => \E j \in Watched' : quiet'[j] > Interval
<1>1. /\ phase \in {"idle", "on"}
      /\ left' = Elapse(left, Watched, seconds)
      /\ quiet' = Silence(quiet, seconds)
      /\ UNCHANGED <<heard, removed, missed, gone>>
      /\ EnterSelect(TimeNotSlept)
  BY DEF Busy, TimersInv, TypeOK
<1>2. /\ heard \subseteq Nbr
      /\ missed \in [Nbr -> 0 .. Limit]
      /\ left \in [Nbr -> -(MaxBusy + 1) .. Interval]
      /\ quiet \in [Nbr -> 0 .. Horizon]
  BY DEF TimersInv, TypeOK
<1>3. \A j \in Watched : j \in Nbr /\ left[j] \in -1 .. Interval
  BY <1>1, <1>2, LeftBound DEF Watched
<1>4. Watched' = Watched
  BY <1>1 DEF Watched
<1>5. \A j \in Nbr :
         /\ left'[j] = IF j \in Watched THEN left[j] - seconds ELSE left[j]
         /\ quiet'[j] = Least(quiet[j] + seconds, Horizon)
  BY <1>1 DEF Elapse, Silence
<1>6. ASSUME NEW j \in Nbr
      PROVE  left'[j] \in -(MaxBusy + 1) .. Interval /\ quiet'[j] \in 0 .. Horizon
  <2>1. quiet'[j] \in 0 .. Horizon
    BY <1>2, <1>5, Constants DEF Least
  <2>2. CASE j \in Watched
    BY <1>3, <1>5, <2>1, <2>2, Constants
  <2>3. CASE j \notin Watched
    BY <1>2, <1>5, <2>1, <2>3
  <2> QED BY <2>2, <2>3
<1>7. /\ left' \in [Nbr -> -(MaxBusy + 1) .. Interval]
      /\ quiet' \in [Nbr -> 0 .. Horizon]
  <2>1. left' = [j \in Nbr |-> left'[j]] /\ quiet' = [j \in Nbr |-> quiet'[j]]
    BY <1>1 DEF Elapse, Silence
  <2> QED BY <1>6, <2>1
<1>8. ASSUME NEW j \in Watched'
      PROVE  Accounted(j)'
  <2>1. j \in Watched /\ j \in Nbr
    BY <1>3, <1>4
  <2>2. /\ left[j] \in Int /\ left[j] >= -1 /\ quiet[j] \in 0 .. Horizon
        /\ seconds \in Nat /\ MaxBusy \in Nat
    BY <1>2, <1>3, <2>1, Constants
  <2>3. Accounts(missed[j], quiet[j] + left[j])
    BY <2>1 DEF TimersInv, Accounted
  <2>4. left[j] - seconds >= -(MaxBusy + 1)
    BY <2>2
  <2>5. Accounts(missed[j], Least(quiet[j] + seconds, Horizon) + (left[j] - seconds))
    BY <2>2, <2>3, <2>4, AccountsKept
  <2> QED BY <1>1, <1>5, <2>1, <2>5 DEF Accounted
<1>9. /\ phase = "idle" => heard' = {}
      /\ \A j \in Nbr \ heard' : missed'[j] = 0
  BY <1>1 DEF TimersInv
<1>10. heard' \subseteq Nbr /\ heard \subseteq heard' /\ removed' = removed
       /\ gone' = gone /\ missed' \in [Nbr -> 0 .. Limit]
  BY <1>1, <1>2
<1> QED BY <1>1, <1>7, <1>8, <1>9, <1>10, HandlersTimers

\* A timeout: the neighbor that is due is the one whose update is missed.
LEMMA TimeoutTimers ==
  ASSUME TimersInv, Timeout
  PROVE  /\ TimersInv'
         /\ phase' = "exited" => \E j \in Watched' : quiet'[j] > Interval
         /\ \A i \in removed' \ removed :
               i = timeoutIndex /\ i \in heard /\ quiet[i] >= 3 * Interval
<1>1. /\ phase \in {"idle", "on"} /\ wait <= 0
      /\ removed' = removed \cup {i \in Nbr : missed'[i] >= Limit}
      /\ UNCHANGED <<heard, gone, quiet>>
      /\ EnterSelect(IF phase = "idle" THEN FirstInterval ELSE Interval)
  BY DEF Timeout, TimersInv, TypeOK
<1>2. /\ heard \subseteq Nbr /\ removed \subseteq heard
      /\ missed \in [Nbr -> 0 .. Limit]
      /\ left \in [Nbr -> -(MaxBusy + 1) .. Interval]
      /\ quiet \in [Nbr -> 0 .. Horizon]
      /\ timeoutIndex \in heard \cup {NoIndex}
  BY DEF TimersInv, TypeOK
<1>3. /\ timeoutIndex = NoIndex => missed' = missed /\ left' = left
      /\ timeoutIndex # NoIndex =>
           /\ missed' = [missed EXCEPT ![timeoutIndex] =
                            Least(missed[timeoutIndex] + 1, Limit)]
           /\ left' = [left EXCEPT ![timeoutIndex] = Interval]
  BY DEF Timeout, Charge
<1>4. \A i \in Nbr \ {timeoutIndex} : missed'[i] = missed[i] /\ left'[i] = left[i]
  BY <1>2, <1>3
<1>5. \A i \in Watched : /\ i \in Nbr /\ Accounted(i)
                         /\ left[i] \in -1 .. Interval
                         /\ missed[i] \in 0 .. 2
  BY <1>1, <1>2, LeftBound DEF Watched, TimersInv, Accounted, Accounts
<1>6. Watched # {} => /\ timeoutIndex \in Watched
                      /\ left[timeoutIndex] <= 0
                      /\ \A i \in Watched : left[timeoutIndex] <= left[i]
  BY <1>1 DEF TimersInv, NearestIsDue
<1>7. ASSUME timeoutIndex \in Watched
      PROVE  LET i == timeoutIndex IN
             /\ missed'[i] = missed[i] + 1 /\ left'[i] = Interval
             /\ missed[i] = 0 => quiet[i] >= Interval
             /\ missed[i] = 1 => quiet[i] >= Interval + Interval
             /\ missed[i] = 2 => quiet[i] >= Interval + Interval + Interval
  <2> DEFINE i == timeoutIndex
  <2>1. i \in Nbr /\ Accounted(i) /\ missed[i] \in 0 .. 2 /\ left[i] <= 0
        /\ left[i] \in Int /\ quiet[i] \in Int
    BY <1>2, <1>5, <1>6, <1>7, Constants
  <2>2. i # NoIndex
    BY <2>1, Constants
  <2>3. missed'[i] = missed[i] + 1 /\ left'[i] = Interval
    BY <1>2, <1>3, <2>1, <2>2 DEF Least, Limit
  <2> QED BY <2>1, <2>3, Constants DEF Accounted, Accounts
<1>8. ASSUME NEW i \in removed' \ removed
      PROVE  i = timeoutIndex /\ i \in heard /\ quiet[i] >= 3 * Interval
  <2>1. i \in Nbr /\ missed'[i] >= 3
    BY <1>1, <1>8 DEF Limit
  <2>2. CASE i \in Watched
    <3>1. i = timeoutIndex
      BY <1>4, <1>5, <2>1, <2>2
    <3>2. missed[i] = 2 /\ quiet[i] \in Int
      BY <1>2, <1>5, <1>7, <2>1, <2>2, <3>1, Constants
    <3>3. quiet[i] >= Interval + Interval + Interval
      BY <1>7, <2>2, <3>1, <3>2
    <3> QED BY <2>2, <3>1, <3>2, <3>3, Constants DEF Watched
  <2>3. CASE i \notin Watched
    <3>1. i \notin heard
      BY <1>8, <2>3 DEF Watched
    <3>2. i # timeoutIndex
      BY <1>2, <2>1, <3>1, Constants
    <3>3. missed'[i] = 0
      BY <1>4, <2>1, <3>1, <3>2 DEF TimersInv
    <3> QED BY <2>1, <3>3
  <2> QED BY <2>2, <2>3
<1>9. removed' \subseteq heard' /\ Watched' \subseteq Watched /\ heard' = heard
  BY <1>1, <1>2, <1>8 DEF Watched
<1>10. /\ missed' \in [Nbr -> 0 .. Limit]
       /\ left' \in [Nbr -> -(MaxBusy + 1) .. Interval]
  <2>1. /\ Interval \in -(MaxBusy + 1) .. Interval
        /\ \A n \in 0 .. Limit : Least(n + 1, Limit) \in 0 .. Limit
    BY Constants DEF Least, Limit
  <2>2. CASE timeoutIndex = NoIndex
    BY <1>2, <1>3, <2>2
  <2>3. CASE timeoutIndex # NoIndex
    BY <1>2, <1>3, <2>1, <2>3
  <2> QED BY <2>2, <2>3
<1>11. ASSUME NEW j \in Watched'
       PROVE  Accounted(j)'
  <2>1. j \in Watched /\ j \in Nbr /\ Accounted(j) /\ quiet'[j] = quiet[j]
        /\ missed'[j] < 3 /\ left[j] \in Int /\ quiet[j] \in Int
    <3>1. j \in Nbr /\ missed'[j] \in 0 .. 3 /\ j \notin removed'
      BY <1>5, <1>9, <1>10 DEF Limit, Watched
    <3> QED BY <1>1, <1>2, <1>5, <1>9, <3>1, Constants DEF Limit
  <2>2. CASE j = timeoutIndex
    <3>1. /\ missed'[j] = missed[j] + 1 /\ left'[j] = Interval
          /\ missed[j] = 0 => quiet[j] >= Interval
          /\ missed[j] = 1 => quiet[j] >= Interval + Interval
      BY <1>7, <2>1, <2>2
    <3>2. missed[j] \in 0 .. 1 /\ left[j] \in -1 .. 0
      BY <1>5, <1>6, <2>1, <2>2, <3>1
    <3>3. /\ missed[j] = 0 => quiet[j] + Interval \in
                Interval + Interval .. Interval + Interval + 1
          /\ missed[j] = 1 => quiet[j] + Interval \in
                Interval + Interval + Interval .. Interval + Interval + Interval + 2
      BY <2>1, <3>1, <3>2, Constants DEF Accounted, Accounts
    <3>4. Accounts(missed[j] + 1, quiet[j] + Interval)
      BY <3>2, <3>3 DEF Accounts
    <3> QED BY <2>1, <3>1, <3>4 DEF Accounted
  <2>3. CASE j # timeoutIndex
    <3>1. missed'[j] = missed[j] /\ left'[j] = left[j]
      BY <1>4, <2>1, <2>3
    <3> QED BY <2>1, <3>1 DEF Accounted
  <2> QED BY <2>2, <2>3
<1>12. PICK tv \in 0 .. Horizon + FirstInterval : EnterSelect(tv)
  BY <1>1, Constants
<1>13. /\ timeoutIndex' \in heard' \cup {NoIndex}
       /\ wait' \in Int
       /\ phase' \in {phase, "exited"}
       /\ phase' # "exited" => wait' \in 0 .. Horizon + FirstInterval
       /\ NearestIsDue'
       /\ phase' = "exited" => \E i \in Watched' : left'[i] < 0
  BY <1>1, <1>2, <1>9, <1>10, <1>12, SelectEntered
<1>14. ASSUME phase' = "exited"
       PROVE  \E j \in Watched' : quiet'[j] > Interval
  <2>1. PICK j \in Watched' : left'[j] < 0
    BY <1>13, <1>14
  <2>2. j \in Nbr /\ Accounted(j)'
    BY <1>5, <1>9, <1>11
  <2>3. left'[j] \in Int /\ quiet'[j] \in Int
    <3>1. left'[j] \in -(MaxBusy + 1) .. Interval /\ quiet'[j] \in 0 .. Horizon
      BY <1>1, <1>2, <1>10, <2>2
    <3> QED BY <3>1, Constants
  <2>4. quiet'[j] + left'[j] >= Interval
    BY <2>2, <2>3, Constants DEF Accounted, Accounts
  <2> QED BY <2>1, <2>3, <2>4, Constants
<1>15. TypeOK'
  BY <1>1, <1>2, <1>9, <1>10, <1>13 DEF TypeOK, TimersInv
<1>16. \A i \in Nbr \ heard' : missed'[i] = 0
  BY <1>2, <1>4, <1>9, Constants DEF TimersInv
<1>17. /\ phase' = "idle" => heard' = {}
       /\ phase' # "exited" => wait' \in -1 .. Horizon + FirstInterval
  BY <1>9, <1>13, Constants DEF TimersInv
<1> QED BY <1>8, <1>11, <1>13, <1>14, <1>15, <1>16, <1>17 DEF TimersInv

-----------------------------------------------------------------------------
\* What a step does besides keeping the invariant.
StepIsSound ==
    /\ phase' = "exited" =>
          phase = "exited" \/ \E j \in Watched' : quiet'[j] > Interval
    /\ removed' # removed => Timeout
    /\ \A i \in removed' \ removed :
          i = timeoutIndex /\ i \in heard /\ quiet[i] >= 3 * Interval

LEMMA NextTimers == TimersInv /\ [Next]_vars => TimersInv' /\ [StepIsSound]_vars
<1> SUFFICES ASSUME TimersInv, [Next]_vars
             PROVE  TimersInv' /\ (StepIsSound \/ UNCHANGED vars)
  OBVIOUS
<1>1. CASE Tick
  <2>1. phase' = phase /\ removed' = removed
    BY <1>1 DEF Tick
  <2> QED BY <1>1, <2>1, TickTimers DEF StepIsSound
<1>2. CASE Initialize
  <2>1. phase = "idle" /\ phase' = "on" /\ heard = {}
        /\ UNCHANGED <<heard, removed, missed, left, timeoutIndex, wait, gone, quiet>>
    BY <1>2 DEF Initialize, TimersInv
  <2> QED BY <2>1 DEF TimersInv, TypeOK, NearestIsDue, Watched, Accounted, StepIsSound
<1>3. ASSUME NEW i \in Nbr, NEW before \in 0 .. MaxBusy, NEW after \in 0 .. MaxBusy,
             Receive(i, before, after)
      PROVE  TimersInv' /\ StepIsSound
  <2>1. removed' = removed
    BY <1>3 DEF Receive
  <2> QED BY <1>3, <2>1, ReceiveTimers DEF StepIsSound
<1>4. ASSUME NEW seconds \in 0 .. MaxBusy, Busy(seconds)
      PROVE  TimersInv' /\ StepIsSound
  <2>1. removed' = removed
    BY <1>4 DEF Busy
  <2> QED BY <1>4, <2>1, BusyTimers DEF StepIsSound
<1>5. CASE Timeout
  BY <1>5, TimeoutTimers DEF StepIsSound
<1>6. ASSUME NEW i \in Nbr, Down(i)
      PROVE  TimersInv' /\ StepIsSound
  <2>1. /\ gone' \subseteq Nbr
        /\ UNCHANGED <<phase, heard, removed, missed, left, timeoutIndex, wait, quiet>>
    BY <1>6 DEF Down, TimersInv, TypeOK
  <2> QED BY <2>1 DEF TimersInv, TypeOK, NearestIsDue, Watched, Accounted, StepIsSound
<1>7. CASE UNCHANGED vars
  BY <1>7 DEF vars, TimersInv, TypeOK, NearestIsDue, Watched, Accounted
<1> QED BY <1>1, <1>2, <1>3, <1>4, <1>5, <1>6, <1>7 DEF Next

LEMMA AlwaysTimers == Spec => []TimersInv
BY InitTimers, NextTimers, PTL DEF Spec

\* The time left to a neighbor never falls below what the handlers take, and no more
\* updates are counted as missed than it takes to give a neighbor up.
THEOREM TimersTyped == Spec => []TypeOK
<1>1. TimersInv => TypeOK
  BY DEF TimersInv
<1> QED BY <1>1, AlwaysTimers, PTL

\* However late select is and whatever restarts it, a watched neighbor is silent for
\* three intervals and three seconds at most.
THEOREM SilenceNoticed == Spec => []SilenceIsNoticed
<1>1. ASSUME TimersInv, phase # "exited", NEW i \in Watched
      PROVE  quiet[i] <= 3 * (Interval + 1)
  <2>1. /\ i \in Nbr /\ Accounts(missed[i], quiet[i] + left[i])
        /\ quiet[i] \in 0 .. Horizon
    BY <1>1 DEF TimersInv, TypeOK, Accounted, Watched
  <2>2. left[i] \in -1 .. Interval
    BY <1>1, LeftBound
  <2>3. quiet[i] + left[i] <= Interval + Interval + Interval + 2
    BY <2>1, Constants DEF Accounts
  <2> QED BY <2>1, <2>2, <2>3, Constants
<1>2. TimersInv => SilenceIsNoticed
  BY <1>1 DEF SilenceIsNoticed
<1> QED BY <1>2, AlwaysTimers, PTL

\* No neighbor is given up before it has been silent for three intervals.
THEOREM ThreeSilentIntervals == Spec => GivenUpWhenSilent
<1>1. StepIsSound => \A i \in removed' \ removed : quiet[i] >= 3 * Interval
  BY DEF StepIsSound
<1> QED BY <1>1, NextTimers, AlwaysTimers, PTL DEF Spec, GivenUpWhenSilent

\* What a timeout of module DVRouting may give up is what main_loop gives up.
THEOREM OneNeighborAtATime == Spec => LosesOneHeard
<1>1. StepIsSound => /\ removed' \ removed \subseteq heard
                     /\ \A i, j \in removed' \ removed : i = j
                     /\ removed' # removed => Timeout
  BY DEF StepIsSound
<1> QED BY <1>1, NextTimers, AlwaysTimers, PTL DEF Spec, LosesOneHeard

\* A router that hears every neighbor it watches once an interval runs on.
THEOREM NoExitInTime == Spec => ExitsOnlyWhenLate
<1>1. StepIsSound => (phase' = "exited" =>
          phase = "exited" \/ \E i \in Watched' : quiet'[i] > Interval)
  BY DEF StepIsSound
<1> QED BY <1>1, NextTimers, AlwaysTimers, PTL DEF Spec, ExitsOnlyWhenLate
=============================================================================
