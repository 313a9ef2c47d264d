------------------------- MODULE HeartbeatTheorems --------------------------
(***************************************************************************)
(* Two routers that keep each other waiting, for any intervals and any     *)
(* number of lost datagrams and crashes: each of them behaves as module    *)
(* NeighborTimers says, so that what is proved there holds of each, and    *)
(* together they keep on sending.                                          *)
(***************************************************************************)
EXTENDS Heartbeat, TLAPS

TA == INSTANCE NeighborTimersTheorems WITH
         Nbr <- {1}, MaxBusy <- 0, gone <- {},
         phase <- phaseA, heard <- heardA, removed <- removedA,
         missed <- missedA, left <- leftA, timeoutIndex <- timeoutIndexA,
         wait <- waitA, quiet <- quietA
TB == INSTANCE NeighborTimersTheorems WITH
         Nbr <- {0}, MaxBusy <- 0, gone <- {},
         phase <- phaseB, heard <- heardB, removed <- removedB,
         missed <- missedB, left <- leftB, timeoutIndex <- timeoutIndexB,
         wait <- waitB, quiet <- quietB

-----------------------------------------------------------------------------
(***************************************************************************)
(* Each router by itself.                                                  *)
(***************************************************************************)

LEMMA StepOfA == [Next]_vars => [A!Next]_A!vars
<1> SUFFICES ASSUME [Next]_vars PROVE A!Next \/ UNCHANGED A!vars
  OBVIOUS
<1>1. UNCHANGED varsA => UNCHANGED A!vars
  BY DEF varsA, A!vars
<1>2. A!Receive(1, 0, 0) \/ A!Busy(0) => A!Next
  BY DEF A!Next
<1>3. CASE Tick
  BY <1>1, <1>3 DEF Tick, A!Next
<1>4. CASE Start
  BY <1>1, <1>4 DEF Start, A!Next
<1>5. CASE Interrupt
  BY <1>1, <1>2, <1>5 DEF Interrupt
<1>6. CASE BeatA \/ BeatB
  BY <1>1, <1>6 DEF BeatA, BeatB, A!Next
<1>7. CASE HearA \/ HearB
  BY <1>1, <1>2, <1>7 DEF HearA, HearB
<1>8. CASE Lose \/ (\E r \in {0, 1} : Crash(r)) \/ UNCHANGED vars
  BY <1>1, <1>8 DEF Lose, Crash, vars
<1> QED BY <1>3, <1>4, <1>5, <1>6, <1>7, <1>8 DEF Next

LEMMA StepOfB == [Next]_vars => [B!Next]_B!vars
<1> SUFFICES ASSUME [Next]_vars PROVE B!Next \/ UNCHANGED B!vars
  OBVIOUS
<1>1. UNCHANGED varsB => UNCHANGED B!vars
  BY DEF varsB, B!vars
<1>2. B!Receive(0, 0, 0) \/ B!Busy(0) => B!Next
  BY DEF B!Next
<1>3. CASE Tick
  BY <1>1, <1>3 DEF Tick, B!Next
<1>4. CASE Start
  BY <1>1, <1>4 DEF Start, B!Next
<1>5. CASE Interrupt
  BY <1>1, <1>2, <1>5 DEF Interrupt
<1>6. CASE BeatA \/ BeatB
  BY <1>1, <1>6 DEF BeatA, BeatB, B!Next
<1>7. CASE HearA \/ HearB
  BY <1>1, <1>2, <1>7 DEF HearA, HearB
<1>8. CASE Lose \/ (\E r \in {0, 1} : Crash(r)) \/ UNCHANGED vars
  BY <1>1, <1>8 DEF Lose, Crash, vars
<1> QED BY <1>3, <1>4, <1>5, <1>6, <1>7, <1>8 DEF Next

\* TA has the definitions of A once more.
LEMMA SameA ==
  /\ A!Init <=> TA!Init
  /\ A!Next <=> TA!Next
  /\ A!vars = TA!vars
<1>1. A!Init <=> TA!Init
  BY DEF A!Init, TA!Init, A!NoIndex, TA!NoIndex
<1>2. A!vars = TA!vars
  BY DEF A!vars, TA!vars
<1>3. \A time, set : A!Nearest(time, set) = TA!Nearest(time, set)
  BY Zenon DEF A!Nearest, TA!Nearest
<1>4. \A tv : A!EnterSelect(tv) <=> TA!EnterSelect(tv)
  BY <1>3, Zenon DEF A!EnterSelect, TA!EnterSelect, A!Watched, TA!Watched
<1>5. \A time, set, d : /\ A!Elapse(time, set, d) = TA!Elapse(time, set, d)
                        /\ A!Silence(time, d) = TA!Silence(time, d)
  BY Zenon DEF A!Elapse, TA!Elapse, A!Silence, TA!Silence, A!Least, TA!Least
<1>6. A!Tick <=> TA!Tick
  BY <1>5, Zenon DEF A!Tick, TA!Tick, A!Watched, TA!Watched
<1>7. A!Initialize <=> TA!Initialize
  BY Zenon DEF A!Initialize, TA!Initialize
<1>8. A!TimeNotSlept = TA!TimeNotSlept
  BY DEF A!TimeNotSlept, TA!TimeNotSlept
<1>9. \A i, b, a : A!Receive(i, b, a) <=> TA!Receive(i, b, a)
  BY <1>4, <1>5, <1>8, Zenon
     DEF A!Receive, TA!Receive, A!ResetCount, TA!ResetCount, A!Renew, TA!Renew,
         A!Watched, TA!Watched
<1>10. \A d : A!Busy(d) <=> TA!Busy(d)
  BY <1>4, <1>5, <1>8, Zenon DEF A!Busy, TA!Busy, A!Watched, TA!Watched
<1>11. A!Timeout <=> TA!Timeout
  BY <1>4, Zenon DEF A!Timeout, TA!Timeout, A!Charge, TA!Charge, A!NoIndex,
                     TA!NoIndex, A!Limit, TA!Limit, A!Least, TA!Least
<1>12. \A i : A!Down(i) <=> TA!Down(i)
  BY Zenon DEF A!Down, TA!Down
<1>13. A!Next <=> TA!Next
  BY <1>6, <1>7, <1>9, <1>10, <1>11, <1>12, Zenon DEF A!Next, TA!Next
<1> QED BY <1>1, <1>2, <1>13

\* What the joint argument takes of module NeighborTimers.
TimersA ==
    /\ phaseA \in {"idle", "on", "exited"}
    /\ phaseA = "idle" => A!Watched = {}
    /\ A!Watched \subseteq {1}
    /\ leftA[1] \in -1 .. Interval

\* What the argument about giving up takes of it besides.
ClockA ==
    /\ heardA \subseteq {1} /\ removedA \subseteq {1}
    /\ (heardA = {} => missedA[1] = 0 /\ timeoutIndexA = -1)
    /\ phaseA # "exited" /\ A!Watched # {} => timeoutIndexA = 1 /\ waitA = leftA[1]
    /\ missedA \in [{1} -> 0 .. 3] /\ quietA \in [{1} -> 0 .. Horizon]
    /\ leftA \in [{1} -> -1 .. Interval]

LEMMA AlwaysTimersA == Spec => [](TimersA /\ ClockA)
<1>1. TA!TimerAssumption
  BY HeartbeatAssumption DEF TA!TimerAssumption
<1>2. TA!Init /\ [][TA!Next]_TA!vars => []TA!TimersInv
  BY <1>1, TA!AlwaysTimers DEF TA!Spec
<1>3. TA!TimersInv => TimersA
  BY HeartbeatAssumption
     DEF TA!TimersInv, TA!TypeOK, TimersA, A!Watched, TA!Watched
<1>4. Init => TA!Init
  BY SameA DEF Init
<1>5. [Next]_vars => [TA!Next]_TA!vars
  <2>1. UNCHANGED A!vars => UNCHANGED TA!vars
    BY DEF A!vars, TA!vars
  <2> QED BY <2>1, StepOfA, SameA
<1>6. TA!TimersInv => ClockA
  <2> SUFFICES ASSUME TA!TimersInv PROVE ClockA
    OBVIOUS
  <2>1. /\ heardA \subseteq {1} /\ removedA \subseteq {1} /\ missedA \in [{1} -> 0 .. 3]
        /\ timeoutIndexA \in heardA \cup {-1}
        /\ quietA \in [{1} -> 0 .. Horizon] /\ leftA \in [{1} -> -(0 + 1) .. Interval]
    BY DEF TA!TimersInv, TA!TypeOK, TA!Limit, TA!NoIndex
  <2>2. heardA = {} => missedA[1] = 0
    BY DEF TA!TimersInv
  <2>3. phaseA # "exited" /\ A!Watched # {} => timeoutIndexA = 1 /\ waitA = leftA[1]
    BY <2>1 DEF TA!TimersInv, TA!NearestIsDue, A!Watched, TA!Watched
  <2>4. -(0 + 1) = -1
    OBVIOUS
  <2> QED BY <2>1, <2>2, <2>3, <2>4 DEF ClockA
<1> QED BY <1>2, <1>3, <1>4, <1>5, <1>6, PTL DEF Spec

\* TB has the definitions of B once more.
LEMMA SameB ==
  /\ B!Init <=> TB!Init
  /\ B!Next <=> TB!Next
  /\ B!vars = TB!vars
<1>1. B!Init <=> TB!Init
  BY DEF B!Init, TB!Init, B!NoIndex, TB!NoIndex
<1>2. B!vars = TB!vars
  BY DEF B!vars, TB!vars
<1>3. \A time, set : B!Nearest(time, set) = TB!Nearest(time, set)
  BY Zenon DEF B!Nearest, TB!Nearest
<1>4. \A tv : B!EnterSelect(tv) <=> TB!EnterSelect(tv)
  BY <1>3, Zenon DEF B!EnterSelect, TB!EnterSelect, B!Watched, TB!Watched
<1>5. \A time, set, d : /\ B!Elapse(time, set, d) = TB!Elapse(time, set, d)
                        /\ B!Silence(time, d) = TB!Silence(time, d)
  BY Zenon DEF B!Elapse, TB!Elapse, B!Silence, TB!Silence, B!Least, TB!Least
<1>6. B!Tick <=> TB!Tick
  BY <1>5, Zenon DEF B!Tick, TB!Tick, B!Watched, TB!Watched
<1>7. B!Initialize <=> TB!Initialize
  BY Zenon DEF B!Initialize, TB!Initialize
<1>8. B!TimeNotSlept = TB!TimeNotSlept
  BY DEF B!TimeNotSlept, TB!TimeNotSlept
<1>9. \A i, b, a : B!Receive(i, b, a) <=> TB!Receive(i, b, a)
  BY <1>4, <1>5, <1>8, Zenon
     DEF B!Receive, TB!Receive, B!ResetCount, TB!ResetCount, B!Renew, TB!Renew,
         B!Watched, TB!Watched
<1>10. \A d : B!Busy(d) <=> TB!Busy(d)
  BY <1>4, <1>5, <1>8, Zenon DEF B!Busy, TB!Busy, B!Watched, TB!Watched
<1>11. B!Timeout <=> TB!Timeout
  BY <1>4, Zenon DEF B!Timeout, TB!Timeout, B!Charge, TB!Charge, B!NoIndex,
                     TB!NoIndex, B!Limit, TB!Limit, B!Least, TB!Least
<1>12. \A i : B!Down(i) <=> TB!Down(i)
  BY Zenon DEF B!Down, TB!Down
<1>13. B!Next <=> TB!Next
  BY <1>6, <1>7, <1>9, <1>10, <1>11, <1>12, Zenon DEF B!Next, TB!Next
<1> QED BY <1>1, <1>2, <1>13

\* What the joint argument takes of module NeighborTimers.
TimersB ==
    /\ phaseB \in {"idle", "on", "exited"}
    /\ phaseB = "idle" => B!Watched = {}
    /\ B!Watched \subseteq {0}
    /\ leftB[0] \in -1 .. Interval

\* What the argument about giving up takes of it besides.
ClockB ==
    /\ heardB \subseteq {0} /\ removedB \subseteq {0}
    /\ (heardB = {} => missedB[0] = 0 /\ timeoutIndexB = -1)
    /\ phaseB # "exited" /\ B!Watched # {} => timeoutIndexB = 0 /\ waitB = leftB[0]
    /\ missedB \in [{0} -> 0 .. 3] /\ quietB \in [{0} -> 0 .. Horizon]
    /\ leftB \in [{0} -> -1 .. Interval]

LEMMA AlwaysTimersB == Spec => [](TimersB /\ ClockB)
<1>1. TB!TimerAssumption
  BY HeartbeatAssumption DEF TB!TimerAssumption
<1>2. TB!Init /\ [][TB!Next]_TB!vars => []TB!TimersInv
  BY <1>1, TB!AlwaysTimers DEF TB!Spec
<1>3. TB!TimersInv => TimersB
  BY HeartbeatAssumption
     DEF TB!TimersInv, TB!TypeOK, TimersB, B!Watched, TB!Watched
<1>4. Init => TB!Init
  BY SameB DEF Init
<1>5. [Next]_vars => [TB!Next]_TB!vars
  <2>1. UNCHANGED B!vars => UNCHANGED TB!vars
    BY DEF B!vars, TB!vars
  <2> QED BY <2>1, StepOfB, SameB
<1>6. TB!TimersInv => ClockB
  <2> SUFFICES ASSUME TB!TimersInv PROVE ClockB
    OBVIOUS
  <2>1. /\ heardB \subseteq {0} /\ removedB \subseteq {0} /\ missedB \in [{0} -> 0 .. 3]
        /\ timeoutIndexB \in heardB \cup {-1}
        /\ quietB \in [{0} -> 0 .. Horizon] /\ leftB \in [{0} -> -(0 + 1) .. Interval]
    BY DEF TB!TimersInv, TB!TypeOK, TB!Limit, TB!NoIndex
  <2>2. heardB = {} => missedB[0] = 0
    BY DEF TB!TimersInv
  <2>3. phaseB # "exited" /\ B!Watched # {} => timeoutIndexB = 0 /\ waitB = leftB[0]
    BY <2>1 DEF TB!TimersInv, TB!NearestIsDue, B!Watched, TB!Watched
  <2>4. -(0 + 1) = -1
    OBVIOUS
  <2> QED BY <2>1, <2>2, <2>3, <2>4 DEF ClockB
<1> QED BY <1>2, <1>3, <1>4, <1>5, <1>6, PTL DEF Spec

-----------------------------------------------------------------------------
(***************************************************************************)
(* The two together.                                                       *)
(***************************************************************************)

Counts ==
    /\ Interval \in Nat /\ Horizon \in Nat
    /\ toA \in Nat /\ toB \in Nat /\ still \in Nat

\* What is on its way to a router was sent in this second, and a router that
\* watches the other has waited as long as nobody has broadcast.
SideA ==
    /\ UpA /\ toA > 0 => still = 0
    /\ UpA /\ A!Watched # {} => leftA[1] + still <= Interval
SideB ==
    /\ UpB /\ toB > 0 => still = 0
    /\ UpB /\ B!Watched # {} => leftB[0] + still <= Interval

LEMMA CountsKept == Counts /\ [Next]_vars => Counts'
<1> SUFFICES ASSUME Counts, [Next]_vars PROVE Counts'
  OBVIOUS
<1> USE DEF Counts
<1>1. A!Least(still + 1, Horizon) \in Nat
  BY DEF A!Least
<1>2. CASE Tick
  BY <1>1, <1>2 DEF Tick
<1>3. CASE Start \/ Interrupt \/ UNCHANGED vars
  BY <1>3 DEF Start, Interrupt, net, vars
<1>4. CASE Lose \/ (\E r \in {0, 1} : Crash(r))
  BY <1>4 DEF Lose, Crash
<1>5. CASE BeatA \/ BeatB
  BY <1>5 DEF BeatA, BeatB, Beat, Sent
<1>6. CASE HearA \/ HearB
  BY <1>6 DEF HearA, HearB
<1> QED BY <1>2, <1>3, <1>4, <1>5, <1>6 DEF Next

\* The steps that leave router A alone.
LEMMA ApartA ==
  ASSUME Counts, Counts', SideA, UNCHANGED varsA, UpA' => UpA,
         toA' <= toA \/ still' = 0, still' <= still, TimersA
  PROVE  SideA'
<1>1. A!Watched' = A!Watched
  BY DEF varsA, A!Watched
<1>2. leftA' = leftA /\ leftA[1] \in Int
  BY HeartbeatAssumption DEF varsA, TimersA
<1> QED BY <1>1, <1>2 DEF SideA, Counts

LEMMA SideAKept ==
  ASSUME Counts, Counts', TimersA, TimersA', ClockA', SideA, [Next]_vars
  PROVE  SideA'
<1> USE DEF Counts
<1>1. leftA[1] \in Int /\ leftA'[1] \in Int /\ leftA'[1] <= Interval
  BY HeartbeatAssumption DEF TimersA
<1>2. still' = 0 => SideA'
  BY <1>1 DEF SideA
<1>3. CASE Tick
  <2>1. still' <= still + 1 /\ toA' = toA
    BY <1>3, HeartbeatAssumption DEF Tick, A!Least, UpA
  <2>2. CASE ~UpA
    <3>1. ~UpA'
      BY <1>3, <2>2 DEF Tick, UpA, varsA
    <3> QED BY <3>1 DEF SideA
  <2>3. CASE UpA
    <3>1. A!Tick /\ toA = 0
      BY <1>3, <2>3 DEF Tick
    <3>2. A!Watched' = A!Watched
      BY <3>1 DEF A!Tick, A!Watched
    <3>3. 1 \in A!Watched => leftA'[1] = leftA[1] - 1
      BY <3>1 DEF A!Tick, A!Elapse
    <3>4. A!Watched # {} => 1 \in A!Watched
      BY DEF TimersA
    <3> QED BY <1>1, <2>1, <2>3, <3>1, <3>2, <3>3, <3>4 DEF SideA
  <2> QED BY <2>2, <2>3
<1>4. CASE Start
  BY <1>2, <1>4 DEF Start
<1>5. CASE Interrupt
  <2>1. still' = still /\ toA' = toA /\ crashed' = crashed
    BY <1>5 DEF Interrupt, net
  <2>2. CASE UNCHANGED varsA
    BY <2>1, <2>2, ApartA DEF UpA, varsA
  <2>3. CASE UpA /\ A!Busy(0)
    <3>1. A!Watched' = A!Watched
      BY <2>3 DEF A!Busy, A!Watched
    <3>2. leftA'[1] = leftA[1]
      BY <1>1, <2>3 DEF A!Busy, A!Elapse
    <3> QED BY <1>1, <2>1, <2>3, <3>1, <3>2 DEF SideA
  <2> QED BY <1>5, <2>2, <2>3 DEF Interrupt
<1>6. CASE BeatA
  <2>1. UpA /\ toA' = toA /\ A!Timeout /\ Beat(Broadcasts(phaseA, removedA'))
    BY <1>6 DEF BeatA
  <2>2. CASE Broadcasts(phaseA, removedA')
    BY <1>2, <2>1, <2>2 DEF Beat
  <2>3. CASE ~Broadcasts(phaseA, removedA')
    <3>1. CASE phaseA # "on"
      <4>1. phaseA = "idle"
        BY <2>1, <3>1 DEF UpA, TimersA
      <4>2. A!Watched = {} => A!Watched' = {}
        BY <2>1 DEF A!Timeout, A!Watched
      <4>3. still' = still
        BY <2>1, <2>3 DEF Beat
      <4> QED BY <2>1, <4>1, <4>2, <4>3 DEF SideA, TimersA
    <3>2. CASE removedA' # {}
      <4>1. A!Watched' = {}
        BY <3>2 DEF ClockA, A!Watched
      <4>2. still' = still
        BY <2>1, <2>3 DEF Beat
      <4> QED BY <2>1, <4>1, <4>2 DEF SideA
    <3> QED BY <2>3, <3>1, <3>2 DEF Broadcasts
  <2> QED BY <2>2, <2>3
<1>7. CASE BeatB
  <2>1. /\ UNCHANGED varsA /\ crashed' = crashed /\ still' \in {0, still}
        /\ toA' = toA \/ still' = 0
    BY <1>7 DEF BeatB, Beat, Sent, Broadcasts
  <2> QED BY <1>2, <2>1, ApartA DEF UpA, varsA
<1>8. CASE HearA
  <2>1. UpA /\ toA > 0 /\ still' = still
    BY <1>8 DEF HearA
  <2> QED BY <1>2, <2>1 DEF SideA
<1>9. CASE HearB
  BY <1>9, ApartA DEF HearB, UpA, varsA
<1>10. CASE Lose
  <2>1. UNCHANGED <<varsA, still, crashed>> /\ toA' <= toA
    BY <1>10 DEF Lose
  <2> QED BY <2>1, ApartA DEF UpA, varsA
<1>11. ASSUME NEW r \in {0, 1}, Crash(r) PROVE SideA'
  <2>1. UNCHANGED <<varsA, still, toA>> /\ crashed \subseteq crashed'
    BY <1>11 DEF Crash
  <2> QED BY <2>1, ApartA DEF UpA, varsA
<1>12. CASE UNCHANGED vars
  BY <1>12, ApartA DEF UpA, varsA, vars, net
<1> QED BY <1>3, <1>4, <1>5, <1>6, <1>7, <1>8, <1>9, <1>10, <1>11, <1>12 DEF Next

\* The steps that leave router B alone.
LEMMA ApartB ==
  ASSUME Counts, Counts', SideB, UNCHANGED varsB, UpB' => UpB,
         toB' <= toB \/ still' = 0, still' <= still, TimersB
  PROVE  SideB'
<1>1. B!Watched' = B!Watched
  BY DEF varsB, B!Watched
<1>2. leftB' = leftB /\ leftB[0] \in Int
  BY HeartbeatAssumption DEF varsB, TimersB
<1> QED BY <1>1, <1>2 DEF SideB, Counts

LEMMA SideBKept ==
  ASSUME Counts, Counts', TimersB, TimersB', ClockB', SideB, [Next]_vars
  PROVE  SideB'
<1> USE DEF Counts
<1>1. leftB[0] \in Int /\ leftB'[0] \in Int /\ leftB'[0] <= Interval
  BY HeartbeatAssumption DEF TimersB
<1>2. still' = 0 => SideB'
  BY <1>1 DEF SideB
<1>3. CASE Tick
  <2>1. still' <= still + 1 /\ toB' = toB
    BY <1>3, HeartbeatAssumption DEF Tick, A!Least, UpB
  <2>2. CASE ~UpB
    <3>1. ~UpB'
      BY <1>3, <2>2 DEF Tick, UpB, varsB
    <3> QED BY <3>1 DEF SideB
  <2>3. CASE UpB
    <3>1. B!Tick /\ toB = 0
      BY <1>3, <2>3 DEF Tick
    <3>2. B!Watched' = B!Watched
      BY <3>1 DEF B!Tick, B!Watched
    <3>3. 0 \in B!Watched => leftB'[0] = leftB[0] - 1
      BY <3>1 DEF B!Tick, B!Elapse
    <3>4. B!Watched # {} => 0 \in B!Watched
      BY DEF TimersB
    <3> QED BY <1>1, <2>1, <2>3, <3>1, <3>2, <3>3, <3>4 DEF SideB
  <2> QED BY <2>2, <2>3
<1>4. CASE Start
  BY <1>2, <1>4 DEF Start
<1>5. CASE Interrupt
  <2>1. still' = still /\ toB' = toB /\ crashed' = crashed
    BY <1>5 DEF Interrupt, net
  <2>2. CASE UNCHANGED varsB
    BY <2>1, <2>2, ApartB DEF UpB, varsB
  <2>3. CASE UpB /\ B!Busy(0)
    <3>1. B!Watched' = B!Watched
      BY <2>3 DEF B!Busy, B!Watched
    <3>2. leftB'[0] = leftB[0]
      BY <1>1, <2>3 DEF B!Busy, B!Elapse
    <3> QED BY <1>1, <2>1, <2>3, <3>1, <3>2 DEF SideB
  <2> QED BY <1>5, <2>2, <2>3 DEF Interrupt
<1>6. CASE BeatB
  <2>1. UpB /\ toB' = toB /\ B!Timeout /\ Beat(Broadcasts(phaseB, removedB'))
    BY <1>6 DEF BeatB
  <2>2. CASE Broadcasts(phaseB, removedB')
    BY <1>2, <2>1, <2>2 DEF Beat
  <2>3. CASE ~Broadcasts(phaseB, removedB')
    <3>1. CASE phaseB # "on"
      <4>1. phaseB = "idle"
        BY <2>1, <3>1 DEF UpB, TimersB
      <4>2. B!Watched = {} => B!Watched' = {}
        BY <2>1 DEF B!Timeout, B!Watched
      <4>3. still' = still
        BY <2>1, <2>3 DEF Beat
      <4> QED BY <2>1, <4>1, <4>2, <4>3 DEF SideB, TimersB
    <3>2. CASE removedB' # {}
      <4>1. B!Watched' = {}
        BY <3>2 DEF ClockB, B!Watched
      <4>2. still' = still
        BY <2>1, <2>3 DEF Beat
      <4> QED BY <2>1, <4>1, <4>2 DEF SideB
    <3> QED BY <2>3, <3>1, <3>2 DEF Broadcasts
  <2> QED BY <2>2, <2>3
<1>7. CASE BeatA
  <2>1. /\ UNCHANGED varsB /\ crashed' = crashed /\ still' \in {0, still}
        /\ toB' = toB \/ still' = 0
    BY <1>7 DEF BeatA, Beat, Sent, Broadcasts
  <2> QED BY <1>2, <2>1, ApartB DEF UpB, varsB
<1>8. CASE HearB
  <2>1. UpB /\ toB > 0 /\ still' = still
    BY <1>8 DEF HearB
  <2> QED BY <1>2, <2>1 DEF SideB
<1>9. CASE HearA
  BY <1>9, ApartB DEF HearA, UpB, varsB
<1>10. CASE Lose
  <2>1. UNCHANGED <<varsB, still, crashed>> /\ toB' <= toB
    BY <1>10 DEF Lose
  <2> QED BY <2>1, ApartB DEF UpB, varsB
<1>11. ASSUME NEW r \in {0, 1}, Crash(r) PROVE SideB'
  <2>1. UNCHANGED <<varsB, still, toB>> /\ crashed \subseteq crashed'
    BY <1>11 DEF Crash
  <2> QED BY <2>1, ApartB DEF UpB, varsB
<1>12. CASE UNCHANGED vars
  BY <1>12, ApartB DEF UpB, varsB, vars, net
<1> QED BY <1>3, <1>4, <1>5, <1>6, <1>7, <1>8, <1>9, <1>10, <1>11, <1>12 DEF Next

\* Some router broadcasts at least every interval and a second, as long as one of
\* the two watches the other.
THEOREM SomeRouterBeats == Spec => []BeatsGoOn
<1> DEFINE Joint == Counts /\ SideA /\ SideB
<1>1. Init => Joint
  BY HeartbeatAssumption
     DEF Init, Counts, SideA, SideB, A!Init, B!Init, A!Watched, B!Watched
<1>2. /\ Joint /\ [Next]_vars
      /\ TimersA /\ TimersA' /\ ClockA' /\ TimersB /\ TimersB' /\ ClockB'
      => Joint'
  BY CountsKept, SideAKept, SideBKept
<1>3. Joint /\ TimersA /\ TimersB => BeatsGoOn
  <2>1. ASSUME Counts, SideA, TimersA, UpA, A!Watched # {}
        PROVE  still <= Interval + 1
    BY <2>1 DEF Counts, SideA, TimersA
  <2>2. ASSUME Counts, SideB, TimersB, UpB, B!Watched # {}
        PROVE  still <= Interval + 1
    BY <2>2 DEF Counts, SideB, TimersB
  <2> QED BY <2>1, <2>2 DEF BeatsGoOn
<1> QED BY <1>1, <1>2, <1>3, AlwaysTimersA, AlwaysTimersB, PTL DEF Spec

-----------------------------------------------------------------------------
(***************************************************************************)
(* Who gives up whom.                                                      *)
(***************************************************************************)

\* Nobody has heard from, or has a vector of, a neighbor that is not on yet.
FromA == heardB # {} \/ toB > 0 => phaseA # "idle"
FromB == heardA # {} \/ toA > 0 => phaseB # "idle"

\* While a is waiting for a vector it has missed, its own is on its way to b, or b
\* has read one no earlier than a began to wait.
MutedA ==
    lost = 0 /\ UpA /\ UpB /\ A!Watched # {} /\ missedA[1] >= 1 =>
        IF toB > 0 THEN leftA[1] = Interval
                   ELSE quietB[0] + leftA[1] <= Interval

\* The same with the two exchanged.
MutedB ==
    lost = 0 /\ UpB /\ UpA /\ B!Watched # {} /\ missedB[0] >= 1 =>
        IF toA > 0 THEN leftB[0] = Interval
                   ELSE quietA[1] + leftB[0] <= Interval

LEMMA FromAKept == Counts /\ FromA /\ [Next]_vars => FromA'
<1> SUFFICES ASSUME Counts, FromA, [Next]_vars PROVE FromA'
  OBVIOUS
<1> USE DEF FromA
<1>1. \A tv : A!EnterSelect(tv) => phaseA' \in {"exited", phaseA}
  BY DEF A!EnterSelect
<1>2. CASE Tick
  BY <1>2 DEF Tick, A!Tick, B!Tick, varsA, varsB
<1>3. CASE Start
  BY <1>3 DEF Start, A!Initialize, B!Initialize, varsA, varsB
<1>4. CASE Interrupt
  BY <1>1, <1>4 DEF Interrupt, A!Busy, B!Busy, varsA, varsB, net
<1>5. CASE BeatA
  <2>1. toB' = toB \/ phaseA = "on"
    BY <1>5 DEF BeatA, Sent, Broadcasts, Counts
  <2> QED BY <1>1, <1>5, <2>1 DEF BeatA, A!Timeout, varsB, Counts
<1>6. CASE BeatB
  BY <1>6 DEF BeatB, B!Timeout, varsA
<1>7. CASE HearA
  BY <1>1, <1>7 DEF HearA, A!Receive, varsB
<1>8. CASE HearB
  BY <1>8 DEF HearB, varsA, Counts
<1>9. CASE Lose \/ (\E r \in {0, 1} : Crash(r)) \/ UNCHANGED vars
  BY <1>9 DEF Lose, Crash, vars, varsA, varsB, net, Counts
<1> QED BY <1>2, <1>3, <1>4, <1>5, <1>6, <1>7, <1>8, <1>9 DEF Next

LEMMA FromBKept == Counts /\ FromB /\ [Next]_vars => FromB'
<1> SUFFICES ASSUME Counts, FromB, [Next]_vars PROVE FromB'
  OBVIOUS
<1> USE DEF FromB
<1>1. \A tv : B!EnterSelect(tv) => phaseB' \in {"exited", phaseB}
  BY DEF B!EnterSelect
<1>2. CASE Tick
  BY <1>2 DEF Tick, B!Tick, A!Tick, varsB, varsA
<1>3. CASE Start
  BY <1>3 DEF Start, B!Initialize, A!Initialize, varsB, varsA
<1>4. CASE Interrupt
  BY <1>1, <1>4 DEF Interrupt, B!Busy, A!Busy, varsB, varsA, net
<1>5. CASE BeatB
  <2>1. toA' = toA \/ phaseB = "on"
    BY <1>5 DEF BeatB, Sent, Broadcasts, Counts
  <2> QED BY <1>1, <1>5, <2>1 DEF BeatB, B!Timeout, varsA, Counts
<1>6. CASE BeatA
  BY <1>6 DEF BeatA, A!Timeout, varsB
<1>7. CASE HearB
  BY <1>1, <1>7 DEF HearB, B!Receive, varsA
<1>8. CASE HearA
  BY <1>8 DEF HearA, varsB, Counts
<1>9. CASE Lose \/ (\E r \in {0, 1} : Crash(r)) \/ UNCHANGED vars
  BY <1>9 DEF Lose, Crash, vars, varsB, varsA, net, Counts
<1> QED BY <1>2, <1>3, <1>4, <1>5, <1>6, <1>7, <1>8, <1>9 DEF Next

LEMMA MutedAKept ==
  ASSUME Counts, Counts', TimersA, TimersB,
         ClockA, ClockA', ClockB, ClockB',
         FromB, FromB', lost \in Nat, MutedA, [Next]_vars
  PROVE  MutedA'
<1> SUFFICES ASSUME lost' = 0, UpA', UpB', A!Watched' # {}, missedA'[1] >= 1
             PROVE  IF toB' > 0 THEN leftA'[1] = Interval
                                ELSE quietB'[0] + leftA'[1] <= Interval
  BY DEF MutedA
<1> USE DEF Counts
<1>1. /\ leftA[1] \in Int /\ leftA'[1] \in Int /\ quietB[0] \in Nat /\ quietB'[0] \in Nat
      /\ missedA[1] \in Nat /\ quietB[0] <= Horizon /\ quietB'[0] <= Horizon
  BY HeartbeatAssumption DEF ClockA, ClockB
\* Steps after which nothing of it is different, or a has been given more time.
<1>2. ASSUME UNCHANGED <<lost, heardA, removedA, missedA, toB>>, UpA, UpB,
             leftA'[1] = leftA[1], quietB'[0] <= quietB[0]
      PROVE  IF toB' > 0 THEN leftA'[1] = Interval
                         ELSE quietB'[0] + leftA'[1] <= Interval
  <2>1. A!Watched # {}
    BY <1>2 DEF A!Watched
  <2> QED BY <1>1, <1>2, <2>1 DEF MutedA
<1>3. \A tv : /\ A!EnterSelect(tv) => phaseA' \in {"exited", phaseA}
              /\ B!EnterSelect(tv) => phaseB' \in {"exited", phaseB}
  BY DEF A!EnterSelect, B!EnterSelect
<1>4. CASE Tick
  <2>1. UpA /\ UpB
    BY <1>4 DEF Tick, A!Tick, B!Tick, UpA, UpB, varsA, varsB
  <2>2. A!Tick /\ B!Tick /\ toB = 0 /\ toB' = 0 /\ lost' = lost
    BY <1>4, <2>1 DEF Tick
  <2>3. A!Watched # {} /\ missedA' = missedA
    BY <2>2 DEF A!Tick, A!Watched
  <2>4. 1 \in A!Watched
    BY <2>3 DEF ClockA, A!Watched
  <2>5. leftA'[1] = leftA[1] - 1
    BY <2>2, <2>4 DEF A!Tick, A!Elapse
  <2>6. quietB'[0] <= quietB[0] + 1
    BY <1>1, <2>2, HeartbeatAssumption DEF B!Tick, B!Silence, B!Least
  <2>7. quietB[0] + leftA[1] <= Interval
    BY <2>1, <2>2, <2>3 DEF MutedA
  <2> QED BY <1>1, <2>2, <2>5, <2>6, <2>7, HeartbeatAssumption
<1>5. CASE Start
  <2>1. UpA /\ UpB
    BY <1>5 DEF Start, UpA, UpB, varsA, varsB
  <2> QED BY <1>1, <1>2, <1>5, <2>1 DEF Start, A!Initialize, B!Initialize, varsA, varsB
<1>6. CASE Interrupt
  <2>1. UpA /\ UpB
    <3>1. crashed' = crashed
      BY <1>6 DEF Interrupt, net
    <3>2. CASE UpA /\ UNCHANGED varsB
      BY <3>1, <3>2 DEF UpB, varsB
    <3>3. CASE UpB /\ UNCHANGED varsA
      BY <3>1, <3>3 DEF UpA, varsA
    <3> QED BY <1>6, <3>2, <3>3 DEF Interrupt
  <2>2. CASE A!Busy(0) /\ UNCHANGED varsB
    <3>1. leftA'[1] = leftA[1]
      BY <1>1, <2>2 DEF A!Busy, A!Elapse
    <3> QED BY <1>1, <1>2, <1>6, <2>1, <2>2, <3>1 DEF Interrupt, net, A!Busy, varsB
  <2>3. CASE B!Busy(0) /\ UNCHANGED varsA
    <3>1. quietB'[0] <= quietB[0]
      BY <1>1, <2>3, HeartbeatAssumption DEF B!Busy, B!Silence, B!Least
    <3> QED BY <1>2, <1>6, <2>1, <2>3, <3>1 DEF Interrupt, net, varsA
  <2> QED BY <1>6, <2>2, <2>3 DEF Interrupt
<1>7. CASE BeatA
  <2>1. UpA /\ A!Timeout /\ UNCHANGED <<varsB, toA, lost, crashed>>
    BY <1>7 DEF BeatA
  <2>2. A!Watched # {} /\ UpB
    <3>1. heardA' = heardA /\ removedA \subseteq removedA'
      BY <2>1 DEF A!Timeout
    <3> QED BY <2>1, <3>1 DEF A!Watched, UpB, varsB
  <2>3. timeoutIndexA = 1 /\ leftA'[1] = Interval
    <3>1. timeoutIndexA = 1
      BY <2>1, <2>2 DEF ClockA, UpA
    <3> QED BY <2>1, <3>1 DEF A!Timeout, A!Charge, A!NoIndex, ClockA
  <2>4. phaseA = "on" /\ phaseB = "on"
    <3>1. phaseA = "on"
      BY <2>1, <2>2 DEF TimersA, UpA
    <3>2. heardA # {}
      BY <2>2 DEF A!Watched
    <3> QED BY <2>2, <3>1, <3>2 DEF FromB, UpB, TimersB
  <2>5. removedA' = {}
    <3>1. removedA' \subseteq {1}
      BY DEF ClockA
    <3>2. 1 \notin removedA'
      BY DEF ClockA, A!Watched
    <3> QED BY <3>1, <3>2
  <2>6. toB' = toB + 1
    BY <1>7, <2>2, <2>4, <2>5 DEF BeatA, Sent, Broadcasts
  <2> QED BY <2>3, <2>6
<1>8. CASE BeatB
  <2>1. /\ UpB /\ B!Timeout /\ UNCHANGED <<varsA, toB, lost, crashed>>
    BY <1>8 DEF BeatB
  <2> QED BY <1>1, <1>2, <2>1 DEF B!Timeout, UpA, varsA
<1>9. CASE HearA
  BY <1>9 DEF HearA, A!Receive, A!ResetCount, ClockA
<1>10. CASE HearB
  <2>1. /\ toB > 0 /\ toB' = toB - 1 /\ UpB /\ B!Receive(0, 0, 0)
        /\ UNCHANGED <<varsA, lost, crashed>>
    BY <1>10 DEF HearB
  <2>2. UpA /\ A!Watched # {} /\ missedA' = missedA /\ leftA' = leftA
    BY <2>1 DEF UpA, varsA, A!Watched
  <2>3. leftA[1] = Interval
    BY <2>1, <2>2 DEF MutedA
  <2>4. quietB'[0] = 0
    BY <1>1, <2>1, HeartbeatAssumption DEF B!Receive, B!Silence, B!Least, ClockB
  <2> QED BY <2>2, <2>3, <2>4, HeartbeatAssumption
<1>11. CASE Lose
  BY <1>11 DEF Lose
<1>12. ASSUME NEW r \in {0, 1}, Crash(r)
       PROVE  IF toB' > 0 THEN leftA'[1] = Interval
                          ELSE quietB'[0] + leftA'[1] <= Interval
  <2>1. UNCHANGED <<varsA, varsB, toB, lost>> /\ crashed \subseteq crashed'
    BY <1>12 DEF Crash
  <2> QED BY <1>1, <1>2, <2>1 DEF UpA, UpB, varsA, varsB
<1>13. CASE UNCHANGED vars
  BY <1>1, <1>2, <1>13 DEF UpA, UpB, varsA, varsB, vars, net
<1> QED BY <1>4, <1>5, <1>6, <1>7, <1>8, <1>9, <1>10, <1>11, <1>12, <1>13 DEF Next

LEMMA GivenUpByA ==
  ASSUME Counts, TimersA, ClockA, ClockB, MutedA, [Next]_vars,
         lost = 0, removedA' # removedA, UpB
  PROVE  quietB[0] <= Interval + 1
<1>1. UpA /\ A!Timeout
  BY DEF Next, Tick, Start, Interrupt, Lose, Crash, BeatA, BeatB, HearA, HearB, vars,
         varsA, A!Tick, A!Initialize, A!Busy, A!Receive
<1>2. /\ removedA' = removedA \cup {i \in {1} : missedA'[i] >= A!Limit}
      /\ A!Charge /\ waitA <= 0
  BY <1>1 DEF A!Timeout
<1>3. 1 \notin removedA /\ missedA'[1] >= 3
  BY <1>2 DEF ClockA, A!Limit
<1>4. heardA # {}
  BY <1>2, <1>3 DEF ClockA, A!Charge, A!NoIndex
<1>5. A!Watched # {}
  BY <1>3, <1>4 DEF ClockA, A!Watched
<1>6. timeoutIndexA = 1 /\ leftA[1] <= 0
  BY <1>1, <1>2, <1>5 DEF ClockA, UpA
<1>7. missedA[1] \in Int /\ leftA[1] \in Int /\ leftA[1] >= -1 /\ quietB[0] \in Int
  BY HeartbeatAssumption DEF ClockA, ClockB
<1>8. missedA[1] >= 1
  BY <1>2, <1>3, <1>6, <1>7 DEF A!Charge, A!NoIndex, A!Limit, A!Least, ClockA
<1>9. IF toB > 0 THEN leftA[1] = Interval ELSE quietB[0] + leftA[1] <= Interval
  BY <1>1, <1>5, <1>8 DEF MutedA
<1> QED BY <1>6, <1>7, <1>9, HeartbeatAssumption

LEMMA MutedBKept ==
  ASSUME Counts, Counts', TimersB, TimersA,
         ClockB, ClockB', ClockA, ClockA',
         FromA, FromA', lost \in Nat, MutedB, [Next]_vars
  PROVE  MutedB'
<1> SUFFICES ASSUME lost' = 0, UpB', UpA', B!Watched' # {}, missedB'[0] >= 1
             PROVE  IF toA' > 0 THEN leftB'[0] = Interval
                                ELSE quietA'[1] + leftB'[0] <= Interval
  BY DEF MutedB
<1> USE DEF Counts
<1>1. /\ leftB[0] \in Int /\ leftB'[0] \in Int /\ quietA[1] \in Nat /\ quietA'[1] \in Nat
      /\ missedB[0] \in Nat /\ quietA[1] <= Horizon /\ quietA'[1] <= Horizon
  BY HeartbeatAssumption DEF ClockB, ClockA
\* Steps after which nothing of it is different, or a has been given more time.
<1>2. ASSUME UNCHANGED <<lost, heardB, removedB, missedB, toA>>, UpB, UpA,
             leftB'[0] = leftB[0], quietA'[1] <= quietA[1]
      PROVE  IF toA' > 0 THEN leftB'[0] = Interval
                         ELSE quietA'[1] + leftB'[0] <= Interval
  <2>1. B!Watched # {}
    BY <1>2 DEF B!Watched
  <2> QED BY <1>1, <1>2, <2>1 DEF MutedB
<1>3. \A tv : /\ B!EnterSelect(tv) => phaseB' \in {"exited", phaseB}
              /\ A!EnterSelect(tv) => phaseA' \in {"exited", phaseA}
  BY DEF B!EnterSelect, A!EnterSelect
<1>4. CASE Tick
  <2>1. UpB /\ UpA
    BY <1>4 DEF Tick, B!Tick, A!Tick, UpB, UpA, varsB, varsA
  <2>2. B!Tick /\ A!Tick /\ toA = 0 /\ toA' = 0 /\ lost' = lost
    BY <1>4, <2>1 DEF Tick
  <2>3. B!Watched # {} /\ missedB' = missedB
    BY <2>2 DEF B!Tick, B!Watched
  <2>4. 0 \in B!Watched
    BY <2>3 DEF ClockB, B!Watched
  <2>5. leftB'[0] = leftB[0] - 1
    BY <2>2, <2>4 DEF B!Tick, B!Elapse
  <2>6. quietA'[1] <= quietA[1] + 1
    BY <1>1, <2>2, HeartbeatAssumption DEF A!Tick, A!Silence, A!Least
  <2>7. quietA[1] + leftB[0] <= Interval
    BY <2>1, <2>2, <2>3 DEF MutedB
  <2> QED BY <1>1, <2>2, <2>5, <2>6, <2>7, HeartbeatAssumption
<1>5. CASE Start
  <2>1. UpB /\ UpA
    BY <1>5 DEF Start, UpB, UpA, varsB, varsA
  <2> QED BY <1>1, <1>2, <1>5, <2>1 DEF Start, B!Initialize, A!Initialize, varsB, varsA
<1>6. CASE Interrupt
  <2>1. UpB /\ UpA
    <3>1. crashed' = crashed
      BY <1>6 DEF Interrupt, net
    <3>2. CASE UpB /\ UNCHANGED varsA
      BY <3>1, <3>2 DEF UpA, varsA
    <3>3. CASE UpA /\ UNCHANGED varsB
      BY <3>1, <3>3 DEF UpB, varsB
    <3> QED BY <1>6, <3>2, <3>3 DEF Interrupt
  <2>2. CASE B!Busy(0) /\ UNCHANGED varsA
    <3>1. leftB'[0] = leftB[0]
      BY <1>1, <2>2 DEF B!Busy, B!Elapse
    <3> QED BY <1>1, <1>2, <1>6, <2>1, <2>2, <3>1 DEF Interrupt, net, B!Busy, varsA
  <2>3. CASE A!Busy(0) /\ UNCHANGED varsB
    <3>1. quietA'[1] <= quietA[1]
      BY <1>1, <2>3, HeartbeatAssumption DEF A!Busy, A!Silence, A!Least
    <3> QED BY <1>2, <1>6, <2>1, <2>3, <3>1 DEF Interrupt, net, varsB
  <2> QED BY <1>6, <2>2, <2>3 DEF Interrupt
<1>7. CASE BeatB
  <2>1. UpB /\ B!Timeout /\ UNCHANGED <<varsA, toB, lost, crashed>>
    BY <1>7 DEF BeatB
  <2>2. B!Watched # {} /\ UpA
    <3>1. heardB' = heardB /\ removedB \subseteq removedB'
      BY <2>1 DEF B!Timeout
    <3> QED BY <2>1, <3>1 DEF B!Watched, UpA, varsA
  <2>3. timeoutIndexB = 0 /\ leftB'[0] = Interval
    <3>1. timeoutIndexB = 0
      BY <2>1, <2>2 DEF ClockB, UpB
    <3> QED BY <2>1, <3>1 DEF B!Timeout, B!Charge, B!NoIndex, ClockB
  <2>4. phaseB = "on" /\ phaseA = "on"
    <3>1. phaseB = "on"
      BY <2>1, <2>2 DEF TimersB, UpB
    <3>2. heardB # {}
      BY <2>2 DEF B!Watched
    <3> QED BY <2>2, <3>1, <3>2 DEF FromA, UpA, TimersA
  <2>5. removedB' = {}
    <3>1. removedB' \subseteq {0}
      BY DEF ClockB
    <3>2. 0 \notin removedB'
      BY DEF ClockB, B!Watched
    <3> QED BY <3>1, <3>2
  <2>6. toA' = toA + 1
    BY <1>7, <2>2, <2>4, <2>5 DEF BeatB, Sent, Broadcasts
  <2> QED BY <2>3, <2>6
<1>8. CASE BeatA
  <2>1. /\ UpA /\ A!Timeout /\ UNCHANGED <<varsB, toA, lost, crashed>>
    BY <1>8 DEF BeatA
  <2> QED BY <1>1, <1>2, <2>1 DEF A!Timeout, UpB, varsB
<1>9. CASE HearB
  BY <1>9 DEF HearB, B!Receive, B!ResetCount, ClockB
<1>10. CASE HearA
  <2>1. /\ toA > 0 /\ toA' = toA - 1 /\ UpA /\ A!Receive(1, 0, 0)
        /\ UNCHANGED <<varsB, lost, crashed>>
    BY <1>10 DEF HearA
  <2>2. UpB /\ B!Watched # {} /\ missedB' = missedB /\ leftB' = leftB
    BY <2>1 DEF UpB, varsB, B!Watched
  <2>3. leftB[0] = Interval
    BY <2>1, <2>2 DEF MutedB
  <2>4. quietA'[1] = 0
    BY <1>1, <2>1, HeartbeatAssumption DEF A!Receive, A!Silence, A!Least, ClockA
  <2> QED BY <2>2, <2>3, <2>4, HeartbeatAssumption
<1>11. CASE Lose
  BY <1>11 DEF Lose
<1>12. ASSUME NEW r \in {0, 1}, Crash(r)
       PROVE  IF toA' > 0 THEN leftB'[0] = Interval
                          ELSE quietA'[1] + leftB'[0] <= Interval
  <2>1. UNCHANGED <<varsB, varsA, toA, lost>> /\ crashed \subseteq crashed'
    BY <1>12 DEF Crash
  <2> QED BY <1>1, <1>2, <2>1 DEF UpB, UpA, varsB, varsA
<1>13. CASE UNCHANGED vars
  BY <1>1, <1>2, <1>13 DEF UpB, UpA, varsB, varsA, vars, net
<1> QED BY <1>4, <1>5, <1>6, <1>7, <1>8, <1>9, <1>10, <1>11, <1>12, <1>13 DEF Next

LEMMA GivenUpByB ==
  ASSUME Counts, TimersB, ClockB, ClockA, MutedB, [Next]_vars,
         lost = 0, removedB' # removedB, UpA
  PROVE  quietA[1] <= Interval + 1
<1>1. UpB /\ B!Timeout
  BY DEF Next, Tick, Start, Interrupt, Lose, Crash, BeatB, BeatA, HearB, HearA, vars,
         varsB, B!Tick, B!Initialize, B!Busy, B!Receive
<1>2. /\ removedB' = removedB \cup {i \in {0} : missedB'[i] >= B!Limit}
      /\ B!Charge /\ waitB <= 0
  BY <1>1 DEF B!Timeout
<1>3. 0 \notin removedB /\ missedB'[0] >= 3
  BY <1>2 DEF ClockB, B!Limit
<1>4. heardB # {}
  BY <1>2, <1>3 DEF ClockB, B!Charge, B!NoIndex
<1>5. B!Watched # {}
  BY <1>3, <1>4 DEF ClockB, B!Watched
<1>6. timeoutIndexB = 0 /\ leftB[0] <= 0
  BY <1>1, <1>2, <1>5 DEF ClockB, UpB
<1>7. missedB[0] \in Int /\ leftB[0] \in Int /\ leftB[0] >= -1 /\ quietA[1] \in Int
  BY HeartbeatAssumption DEF ClockB, ClockA
<1>8. missedB[0] >= 1
  BY <1>2, <1>3, <1>6, <1>7 DEF B!Charge, B!NoIndex, B!Limit, B!Least, ClockB
<1>9. IF toA > 0 THEN leftB[0] = Interval ELSE quietA[1] + leftB[0] <= Interval
  BY <1>1, <1>5, <1>8 DEF MutedB
<1> QED BY <1>6, <1>7, <1>9, HeartbeatAssumption

\* While no datagram is lost, a router that is up is given up first only by one whose
\* vectors it has read: three timeouts of one without a word from the other are
\* three broadcasts, each of which has put the other's own timeout off.
THEOREM OnlyHeardOnesGiveUp == Spec => GivenUpByOneItHears
<1> DEFINE Hearing == FromA /\ FromB /\ MutedA /\ MutedB /\ lost \in Nat
           Own == Counts /\ TimersA /\ TimersB /\ ClockA /\ ClockB
           Step == lost = 0 =>
                     /\ removedA' # removedA /\ UpB /\ removedB = {} /\ phaseB = "on"
                            => quietB[0] <= Interval + 1
                     /\ removedB' # removedB /\ UpA /\ removedA = {} /\ phaseA = "on"
                            => quietA[1] <= Interval + 1
<1>1. Init => Hearing /\ Counts
  BY HeartbeatAssumption
     DEF Init, Counts, FromA, FromB, MutedA, MutedB, A!Init, B!Init, A!Watched,
         B!Watched
<1>2. Hearing /\ Own /\ Own' /\ [Next]_vars => Hearing'
  <2> SUFFICES ASSUME Hearing, Own, Own', [Next]_vars PROVE Hearing'
    OBVIOUS
  <2>1. lost' \in Nat
    BY DEF Next, Tick, Start, Interrupt, Lose, Crash, BeatA, BeatB, HearA, HearB,
           vars, net
  <2>2. FromA' /\ FromB'
    BY FromAKept, FromBKept
  <2> QED BY <2>1, <2>2, MutedAKept, MutedBKept
<1>3. Hearing /\ Own /\ [Next]_vars => [Step]_vars
  BY GivenUpByA, GivenUpByB
<1>4. Counts /\ [Next]_vars => Counts'
  BY CountsKept
<1> QED
  BY <1>1, <1>2, <1>3, <1>4, AlwaysTimersA, AlwaysTimersB, PTL
     DEF Spec, GivenUpByOneItHears
=============================================================================
