------------------------ MODULE FileChannelTheorems -------------------------
(***************************************************************************)
(* A single file through routers whose next hops stay as they are: the     *)
(* data plane is the channel of FileChannel, whatever the routers, their   *)
(* routes, the length and the TTL of the file, however often connect fails *)
(* and whichever routers crash; and the statistics of the routers on its   *)
(* way agree.                                                              *)
(***************************************************************************)
EXTENDS DataPlaneTheorems, LoopInduction, FiniteSetTheorems

-----------------------------------------------------------------------------
(***************************************************************************)
(* The way of a file.                                                      *)
(***************************************************************************)

\* P leads from a in n steps of next, a function of the routers.
Trail(next, a, n, P) ==
    /\ P \in [0 .. n -> Router] /\ P[0] = a
    /\ \A k \in 0 .. n - 1 : P[k + 1] = next[P[k]]

\* The routers of X lead from a to one another, and never to b.
Trap(next, a, b, X) ==
    /\ X \subseteq Router /\ a \in X /\ b \notin X
    /\ \A r \in X : next[r] \in X

\* The routers of X are a way from a to b, on which each but a comes after one other;
\* ttl[r] is what is left at r of a TTL of n.
Way(next, a, b, n, X, ttl) ==
    /\ X \subseteq Router /\ a \in X /\ b \in X
    /\ ttl \in [X -> Int] /\ ttl[a] = n
    /\ \A r \in X \ {b} :
          next[r] \in X /\ next[r] # a /\ ttl[next[r]] = ttl[r] - 1
    /\ \A r, s \in X \ {b} : next[r] = next[s] => r = s

LEMMA TrailToTrapOrWay ==
  ASSUME NEW next \in [Router -> Router], NEW a \in Router, NEW b \in Router, a # b,
         NEW hops \in Nat
  PROVE  (\E X : Trap(next, a, b, X)) \/ (\E X, ttl : Way(next, a, b, hops, X, ttl))
<1> DEFINE Lengths == {n \in Nat : \E P : Trail(next, a, n, P) /\ P[n] = b}
<1>1. CASE Lengths = {}
  <2> DEFINE X == {x \in Router : \E n \in Nat : \E P : Trail(next, a, n, P) /\ P[n] = x}
  <2>1. a \in X
    <3>1. Trail(next, a, 0, [k \in 0 .. 0 |-> a])
      BY DEF Trail
    <3> QED BY <3>1
  <2>2. b \notin X
    BY <1>1
  <2>3. ASSUME NEW r \in X PROVE next[r] \in X
    <3>1. PICK n \in Nat : \E P : Trail(next, a, n, P) /\ P[n] = r
      OBVIOUS
    <3>2. PICK P : Trail(next, a, n, P) /\ P[n] = r
      BY <3>1
    <3> DEFINE Q == [k \in 0 .. n + 1 |-> IF k = n + 1 THEN next[r] ELSE P[k]]
    <3>3. Trail(next, a, n + 1, Q)
      <4>1. Q \in [0 .. n + 1 -> Router]
        <5>1. \A k \in 0 .. n + 1 : k # n + 1 => k \in 0 .. n
          OBVIOUS
        <5> QED BY <3>2, <5>1 DEF Trail
      <4>2. Q[0] = a
        BY <3>2 DEF Trail
      <4>3. ASSUME NEW k \in 0 .. (n + 1) - 1 PROVE Q[k + 1] = next[Q[k]]
        <5>1. CASE k = n
          BY <3>2, <5>1
        <5>2. CASE k # n
          <6>1. k \in 0 .. n - 1
            BY <5>2
          <6> QED BY <3>2, <6>1 DEF Trail
        <5> QED BY <5>1, <5>2
      <4> QED BY <4>1, <4>2, <4>3 DEF Trail
    <3>4. Q[n + 1] = next[r] /\ n + 1 \in Nat
      OBVIOUS
    <3> HIDE DEF Q
    <3>5. next[r] \in Router
      OBVIOUS
    <3> QED BY <3>3, <3>4, <3>5
  <2>4. X \subseteq Router
    OBVIOUS
  <2> HIDE DEF X
  <2> QED BY <2>1, <2>2, <2>3, <2>4 DEF Trap
<1>2. CASE Lengths # {}
  <2>1. PICK n \in Lengths : \A m \in Lengths : n <= m
    BY <1>2, LeastNat
  <2>2. n \in Nat
    OBVIOUS
  <2>3. PICK P : Trail(next, a, n, P) /\ P[n] = b
    OBVIOUS
  <2>4. P \in [0 .. n -> Router] /\ P[0] = a /\ \A k \in 0 .. n - 1 : P[k + 1] = next[P[k]]
    BY <2>3 DEF Trail
  <2>5. ASSUME NEW m \in Nat, m < n, NEW Q, Trail(next, a, m, Q), Q[m] = b PROVE FALSE
    BY <2>1, <2>2, <2>5
  <2> HIDE DEF Lengths
  \* A trail that comes twice to the same router can be shortened.
  <2>6. ASSUME NEW i \in 0 .. n, NEW j \in 0 .. n, i < j, P[i] = P[j] PROVE FALSE
    <3> DEFINE d == j - i
               m == n - d
               Q == [k \in 0 .. m |-> IF k <= i THEN P[k] ELSE P[k + d]]
    <3>1. i \in Nat /\ j \in Nat /\ d \in Nat /\ d > 0 /\ d <= n /\ i + d = j /\ j <= n
      BY <2>2, <2>6
    <3>2. m \in Nat /\ m < n /\ m + d = n /\ i <= m
      BY <2>2, <3>1
    <3> HIDE DEF d, m
    <3>3. \A k \in 0 .. m : k \in 0 .. n /\ k + d \in 0 .. n
      BY <2>2, <3>1, <3>2
    <3>4. Q \in [0 .. m -> Router]
      BY <2>4, <3>3
    <3>5. Q[0] = a
      BY <2>4, <3>1, <3>2
    <3>6. ASSUME NEW k \in 0 .. m - 1 PROVE Q[k + 1] = next[Q[k]]
      <4>1. k \in 0 .. m /\ k + 1 \in 0 .. m /\ k \in 0 .. n - 1 /\ k + d \in 0 .. n - 1
            /\ (k + 1) + d = (k + d) + 1 /\ k \in Nat
        BY <2>2, <3>1, <3>2
      <4>2. CASE k < i
        <5>1. k <= i /\ k + 1 <= i
          BY <3>1, <4>1, <4>2
        <5> QED BY <2>4, <4>1, <5>1
      <4>3. CASE k = i
        <5>1. Q[k] = P[j] /\ Q[k + 1] = P[(k + d) + 1] /\ P[k + d] = P[j]
          BY <2>6, <3>1, <4>1, <4>3
        <5> QED BY <2>4, <4>1, <5>1
      <4>4. CASE k > i
        <5>1. ~(k <= i) /\ ~(k + 1 <= i)
          BY <3>1, <4>1, <4>4
        <5>2. Q[k] = P[k + d] /\ Q[k + 1] = P[(k + d) + 1]
          BY <4>1, <5>1
        <5> QED BY <2>4, <4>1, <5>2
      <4> QED BY <3>1, <4>1, <4>2, <4>3, <4>4
    <3>7. Q[m] = b
      <4>1. CASE m <= i
        <5>1. m = i /\ j = n
          BY <2>2, <3>1, <3>2, <4>1
        <5> QED BY <2>3, <2>6, <3>2, <5>1
      <4>2. CASE ~(m <= i)
        BY <2>3, <3>2, <4>2
      <4> QED BY <4>1, <4>2
    <3> HIDE DEF Q
    <3>8. Trail(next, a, m, Q)
      BY <3>4, <3>5, <3>6 DEF Trail
    <3> QED BY <2>5, <3>2, <3>7, <3>8
  <2>7. \A i, j \in 0 .. n : P[i] = P[j] => i = j
    <3> SUFFICES ASSUME NEW i \in 0 .. n, NEW j \in 0 .. n, P[i] = P[j], i # j
                 PROVE  FALSE
      OBVIOUS
    <3>1. i < j \/ j < i
      BY <2>2
    <3> QED BY <2>6, <3>1
  <2> DEFINE X == {P[k] : k \in 0 .. n}
             place == [r \in X |-> CHOOSE k \in 0 .. n : P[k] = r]
             ttl == [r \in X |-> hops - place[r]]
  <2>8. \A k \in 0 .. n : P[k] \in X /\ place[P[k]] = k
    BY <2>7
  <2>9. \A r \in X : place[r] \in 0 .. n /\ P[place[r]] = r
    OBVIOUS
  <2>10. \A r \in X : ttl[r] = hops - place[r] /\ ttl[r] \in Int
    BY <2>2, <2>9
  <2>11. ttl \in [X -> Int]
    BY <2>10
  <2>12. X \subseteq Router
    BY <2>4
  <2> HIDE DEF X, place, ttl
  <2>13. 0 \in 0 .. n /\ n \in 0 .. n
    BY <2>2
  <2>14. a \in X /\ b \in X /\ place[a] = 0 /\ place[b] = n
    BY <2>3, <2>4, <2>8, <2>13
  <2>15. ttl[a] = hops
    BY <2>10, <2>14
  <2>16. ASSUME NEW r \in X \ {b}
         PROVE  next[r] \in X /\ place[next[r]] = place[r] + 1
    <3>1. place[r] \in 0 .. n - 1
      BY <2>2, <2>3, <2>9
    <3>2. place[r] + 1 \in 0 .. n
      BY <2>2, <3>1
    <3> QED BY <2>4, <2>8, <2>9, <3>1, <3>2
  <2>17. ASSUME NEW r \in X \ {b}
         PROVE  next[r] \in X /\ next[r] # a /\ ttl[next[r]] = ttl[r] - 1
    BY <2>2, <2>9, <2>10, <2>14, <2>16
  <2>18. ASSUME NEW r \in X \ {b}, NEW s \in X \ {b}, next[r] = next[s] PROVE r = s
    <3>1. place[r] + 1 = place[s] + 1
      BY <2>16, <2>18
    <3>2. place[r] = place[s]
      BY <2>2, <2>9, <3>1
    <3> QED BY <2>9, <3>2
  <2>19. Way(next, a, b, hops, X, ttl)
    BY <2>11, <2>12, <2>14, <2>15, <2>17, <2>18 DEF Way
  <2> QED BY <2>19
<1> QED BY <1>1, <1>2

-----------------------------------------------------------------------------
(***************************************************************************)
(* One link of the way.                                                    *)
(***************************************************************************)

\* Packet k of f, with a TTL of ttl.
Piece(f, k, ttl) ==
    [file |-> f, seq |-> Sequence(f)[k], ttl |-> ttl, fin |-> Final(f, k)]

\* The packets after the first i, as far as j.
Stretch(f, i, j, ttl) == [k \in 1 .. j - i |-> Piece(f, i + k, ttl)]

\* r has done what it could to send the first packets of f to h, as many as done; put
\* of them have got on the connection, of which h has taken some.  Whatever is not put
\* is lost, and nothing is put after that.
Flow(f, r, h, done, put, taken, ttl) ==
    /\ done \in 0 .. Count[f] /\ put \in 0 .. done /\ taken \in 0 .. put
    /\ put = 0 => conns[r][h] = <<>>
    /\ put > 0 => /\ Len(conns[r][h]) = 1
                  /\ conns[r][h][1].buf = Stretch(f, taken, put, ttl)
    /\ h \notin down =>
          \/ sock[r][h] = "0" /\ done = 0
          \/ sock[r][h] = "0" /\ put = Count[f]
          \/ sock[r][h] = "open" /\ put > 0 /\ put < Count[f] /\ put = done
          \/ sock[r][h] = "-1" /\ put = 0

\* Nothing happens on the link, unless a router dies.
LEMMA FlowStays ==
  ASSUME NEW f, NEW r, NEW h, NEW done, NEW put, NEW taken, NEW ttl,
         Flow(f, r, h, done, put, taken, ttl),
         conns'[r][h] = conns[r][h], sock'[r][h] = sock[r][h], down \subseteq down'
  PROVE  Flow(f, r, h, done, put, taken, ttl)'
BY DEF Flow

\* One more packet.
LEMMA StretchGrows ==
  ASSUME NEW f, NEW i \in Nat, NEW j \in Nat, NEW ttl, i <= j
  PROVE  Append(Stretch(f, i, j, ttl), Piece(f, j + 1, ttl)) = Stretch(f, i, j + 1, ttl)
<1> DEFINE S == {Piece(f, i + k, ttl) : k \in 1 .. (j + 1) - i}
           old == Stretch(f, i, j, ttl)
           new == Stretch(f, i, j + 1, ttl)
           p == Piece(f, j + 1, ttl)
           n == j - i
<1>1. n \in Nat /\ (j + 1) - i = n + 1 /\ i + (n + 1) = j + 1
  OBVIOUS
<1> HIDE DEF n
<1>2. \A k \in 1 .. n + 1 : Piece(f, i + k, ttl) \in S
  BY <1>1
<1> HIDE DEF S
<1>3. Piece(f, i + (n + 1), ttl) = p
  BY <1>1
<1>4. p \in S
  BY <1>1, <1>2, <1>3
<1>5. j - i = n /\ \A k \in 1 .. n : k \in 1 .. n + 1
  BY <1>1 DEF n
<1>6. /\ Len(old) = n /\ old \in Seq(S)
      /\ \A k \in 1 .. n : old[k] = Piece(f, i + k, ttl)
  <2>1. old = [k \in 1 .. n |-> Piece(f, i + k, ttl)]
    BY <1>5 DEF Stretch
  <2> HIDE DEF old
  <2> QED BY <1>1, <1>2, <1>5, <2>1
<1>7. n + 1 \in Nat
  BY <1>1
<1>8. /\ Len(new) = n + 1 /\ new \in Seq(S)
      /\ \A k \in 1 .. n + 1 : new[k] = Piece(f, i + k, ttl)
  <2>1. new = [k \in 1 .. n + 1 |-> Piece(f, i + k, ttl)]
    BY <1>1 DEF Stretch
  <2> HIDE DEF new
  <2> QED BY <1>2, <1>7, <2>1
<1> HIDE DEF old, new, p, S
<1>9. /\ Append(old, p) \in Seq(S) /\ Len(Append(old, p)) = n + 1
      /\ \A k \in 1 .. n : Append(old, p)[k] = old[k]
      /\ Append(old, p)[n + 1] = p
  BY <1>4, <1>6, AppendProperties
<1>10. \A k \in 1 .. n + 1 : Append(old, p)[k] = new[k]
  <2>1. \A k \in 1 .. n + 1 : k \in 1 .. n \/ k = n + 1
    BY <1>1
  <2> QED BY <1>3, <1>6, <1>8, <1>9, <2>1
<1>11. Append(old, p) = new
  BY <1>8, <1>9, <1>10, SeqEqual
<1> QED BY <1>11 DEF old, new, p

\* One packet less.
LEMMA StretchShrinks ==
  ASSUME NEW f, NEW i \in Nat, NEW j \in Nat, NEW ttl, i < j
  PROVE  /\ Head(Stretch(f, i, j, ttl)) = Piece(f, i + 1, ttl)
         /\ Tail(Stretch(f, i, j, ttl)) = Stretch(f, i + 1, j, ttl)
<1> DEFINE S == {Piece(f, i + k, ttl) : k \in 1 .. j - i}
           old == Stretch(f, i, j, ttl)
           new == Stretch(f, i + 1, j, ttl)
           n == j - (i + 1)
<1>1. n \in Nat /\ j - i = n + 1 /\ i + 1 \in Nat /\ i + 1 <= j /\ i <= j
  OBVIOUS
<1>2. j - (i + 1) = n /\ n + 1 \in Nat
  OBVIOUS
<1> HIDE DEF n
<1>3. \A k \in 1 .. n + 1 : Piece(f, i + k, ttl) \in S
  BY <1>1
<1> HIDE DEF S
<1>4. \A k \in 1 .. n : k + 1 \in 1 .. n + 1 /\ (i + 1) + k = i + (k + 1)
  BY <1>1
<1>5. /\ Len(old) = n + 1 /\ old \in Seq(S)
      /\ \A k \in 1 .. n + 1 : old[k] = Piece(f, i + k, ttl)
  <2>1. old = [k \in 1 .. n + 1 |-> Piece(f, i + k, ttl)]
    BY <1>1 DEF Stretch
  <2> HIDE DEF old
  <2> QED BY <1>2, <1>3, <2>1
<1>6. \A k \in 1 .. n : Piece(f, (i + 1) + k, ttl) \in S
  BY <1>3, <1>4
<1>7. /\ Len(new) = n /\ new \in Seq(S)
      /\ \A k \in 1 .. n : new[k] = Piece(f, (i + 1) + k, ttl)
  <2>1. new = [k \in 1 .. n |-> Piece(f, (i + 1) + k, ttl)]
    BY <1>2 DEF Stretch
  <2> HIDE DEF new
  <2> QED BY <1>1, <1>6, <2>1
<1> HIDE DEF old, new
<1>8. old # <<>>
  BY <1>1, <1>5, EmptySeq
<1>9. /\ Head(old) = old[1] /\ Tail(old) \in Seq(S) /\ Len(Tail(old)) = n
      /\ \A k \in 1 .. n : Tail(old)[k] = old[k + 1]
  BY <1>1, <1>5, <1>8, HeadTailProperties
<1>10. Head(old) = Piece(f, i + 1, ttl)
  BY <1>1, <1>5, <1>9
<1>11. \A k \in 1 .. n : Tail(old)[k] = new[k]
  BY <1>4, <1>5, <1>7, <1>9
<1>12. Tail(old) = new
  BY <1>7, <1>9, <1>11, SeqEqual
<1> QED BY <1>10, <1>12 DEF old, new

LEMMA StretchEmpty ==
  ASSUME NEW f, NEW i \in Nat, NEW ttl
  PROVE  Stretch(f, i, i, ttl) = <<>>
<1>1. i - i = 0
  OBVIOUS
<1>2. Stretch(f, i, i, ttl) = [k \in 1 .. 0 |-> Piece(f, i + k, ttl)]
  BY <1>1 DEF Stretch
<1> QED BY <1>2

\* What sending leaves alone.
LEMMA SendsThere ==
  ASSUME Linked, NEW r \in Router, NEW h \in Router, NEW p,
         Transmit(r, h, p) \/ Break(r, h, p) \/ NoSocket(r, h)
  PROVE  /\ down \subseteq down' /\ (h \notin down => down' = down)
         /\ \A s, t \in Router : ~(s = r /\ t = h) =>
               conns'[s][t] = conns[s][t] /\ sock'[s][t] = sock[s][t]
         /\ \/ Transmit(r, h, p) /\ h \notin down
            \/ h \in down /\ UNCHANGED conns
            \/ UNCHANGED <<conns, down>> /\ sock' = [sock EXCEPT ![r][h] = "-1"]
                 /\ sock[r][h] # "open"
<1>1. CASE Transmit(r, h, p)
  <2>1. \A s, t \in Router : ~(s = r /\ t = h) => conns'[s][t] = conns[s][t]
    <3>1. CASE sock[r][h] = "0"
      BY <1>1, <3>1 DEF Linked, Transmit, Put
    <3>2. CASE sock[r][h] = "open"
      BY <1>1, <3>2 DEF Linked, Transmit, Put
    <3> QED BY <1>1, <3>1, <3>2 DEF Transmit, Put
  <2>2. \A s, t \in Router : ~(s = r /\ t = h) => sock'[s][t] = sock[s][t]
    BY <1>1 DEF Linked, Transmit, CloseAfter
  <2> QED BY <1>1, <2>1, <2>2 DEF Transmit
<1>2. CASE Break(r, h, p)
  <2>1. \A s, t \in Router : ~(s = r /\ t = h) => sock'[s][t] = sock[s][t]
    BY <1>2 DEF Linked, Break, CloseAfter
  <2> QED BY <1>2, <2>1 DEF Break
<1>3. CASE NoSocket(r, h)
  <2>1. \A s, t \in Router : ~(s = r /\ t = h) => sock'[s][t] = sock[s][t]
    BY <1>3 DEF Linked, NoSocket, GiveUpSocket
  <2> QED BY <1>3, <2>1 DEF NoSocket, GiveUpSocket
<1> QED BY <1>1, <1>2, <1>3

\* The next packet is put on the connection behind the others, or is lost.
LEMMA FlowSends ==
  ASSUME Linked, NEW f \in Files, NEW r \in Router, NEW h \in Router,
         NEW done, NEW put, NEW taken, NEW ttl,
         Flow(f, r, h, done, put, taken, ttl), done < Count[f],
         NEW p, p = Piece(f, done + 1, ttl),
         Transmit(r, h, p) \/ Break(r, h, p) \/ NoSocket(r, h)
  PROVE  \E more \in {put, put + 1} : Flow(f, r, h, done + 1, more, taken, ttl)'
<1>1. /\ Count[f] \in Nat /\ done \in Nat /\ put \in Nat /\ taken \in Nat
      /\ put <= done /\ taken <= put /\ done + 1 <= Count[f]
  BY Constants DEF Flow
<1>2. /\ done + 1 \in 0 .. Count[f] /\ put \in 0 .. done + 1 /\ taken \in 0 .. put
      /\ put # Count[f]
  BY <1>1
<1>3. CASE Transmit(r, h, p) /\ h \notin down
  <2>1. /\ h \notin down' /\ sock[r][h] \in {"0", "open"}
        /\ sock' = [sock EXCEPT ![r][h] = IF p.fin THEN "0" ELSE "open"]
    BY <1>3 DEF Transmit, CloseAfter, Put
  <2>2. p.fin = (done + 1 = Count[f])
    BY DEF Piece, Final
  <2>3. sock'[r][h] = IF done + 1 = Count[f] THEN "0" ELSE "open"
    BY <2>1, <2>2 DEF Linked
  <2>4. put = done
    BY <1>1, <1>2, <1>3, <2>1 DEF Flow
  <2>5. Len(conns'[r][h]) = 1 /\ conns'[r][h][1].buf = Stretch(f, taken, put + 1, ttl)
    <3>1. CASE sock[r][h] = "0"
      <4>1. done = 0 /\ put = 0 /\ taken = 0 /\ conns[r][h] = <<>>
        BY <1>1, <1>2, <1>3, <3>1 DEF Flow
      <4> DEFINE conn == [buf |-> <<p>>, fd |-> "backlog"]
      <4>2. conns' = [conns EXCEPT ![r][h] = Append(conns[r][h], conn)]
        BY <1>3, <3>1 DEF Transmit, Put
      <4>3. conn.buf = <<p>>
        OBVIOUS
      <4> HIDE DEF conn
      <4>4. conns'[r][h] = <<conn>>
        BY <4>1, <4>2 DEF Linked
      <4>5. Append(Stretch(f, 0, 0, ttl), Piece(f, 0 + 1, ttl)) = Stretch(f, 0, 0 + 1, ttl)
        BY StretchGrows
      <4>6. Stretch(f, 0, 0, ttl) = <<>>
        BY StretchEmpty
      <4>7. <<p>> = Stretch(f, taken, put + 1, ttl)
        <5>1. p = Piece(f, 0 + 1, ttl)
              /\ Stretch(f, taken, put + 1, ttl) = Stretch(f, 0, 0 + 1, ttl)
          BY <4>1
        <5>2. Append(<<>>, p) = <<p>>
          OBVIOUS
        <5> QED BY <4>5, <4>6, <5>1, <5>2, Zenon
      <4> QED BY <4>3, <4>4, <4>7
    <3>2. CASE sock[r][h] = "open"
      <4>1. put > 0 /\ Len(conns[r][h]) = 1
            /\ conns[r][h][1].buf = Stretch(f, taken, put, ttl)
        BY <1>3, <3>2 DEF Flow
      <4>2. conns' = [conns EXCEPT ![r][h][Len(conns[r][h])].buf = Append(@, p)]
        BY <1>3, <3>2 DEF Transmit, Put
      <4>3. conns[r][h] \in Seq(Conn) /\ conns[r][h][1] \in Conn
        BY <4>1, ElementOfSeq DEF Linked
      <4>4. conns' = [conns EXCEPT ![r][h][1].buf = Append(conns[r][h][1].buf, p)]
        BY <4>1, <4>2
      <4>5. conns'[r][h] = [conns[r][h] EXCEPT ![1].buf = Append(conns[r][h][1].buf, p)]
        BY <4>4 DEF Linked
      <4>6. Len(conns'[r][h]) = 1
            /\ conns'[r][h][1].buf = Append(conns[r][h][1].buf, p)
        BY <4>1, <4>3, <4>5 DEF Conn
      <4>7. Append(Stretch(f, taken, put, ttl), Piece(f, put + 1, ttl))
              = Stretch(f, taken, put + 1, ttl)
        BY <1>1, StretchGrows
      <4> QED BY <2>4, <4>1, <4>6, <4>7
    <3> QED BY <2>1, <3>1, <3>2
  <2>6. put + 1 \in 0 .. done + 1 /\ taken \in 0 .. put + 1 /\ put + 1 > 0
        /\ put + 1 # 0 /\ (put + 1 = Count[f] \/ put + 1 < Count[f])
    BY <1>1
  <2>7. Flow(f, r, h, done + 1, put + 1, taken, ttl)'
    BY <1>2, <2>3, <2>4, <2>5, <2>6 DEF Flow
  <2> QED BY <2>7
<1>4. CASE h \in down /\ UNCHANGED conns
  <2>1. h \in down'
    BY <1>4, SendsThere
  <2>2. Flow(f, r, h, done + 1, put, taken, ttl)'
    BY <1>2, <1>4, <2>1 DEF Flow
  <2> QED BY <2>2
<1>5. CASE UNCHANGED <<conns, down>> /\ sock' = [sock EXCEPT ![r][h] = "-1"]
           /\ sock[r][h] # "open"
  <2>1. sock'[r][h] = "-1"
    BY <1>5 DEF Linked
  <2>2. h \notin down => put = 0
    BY <1>1, <1>2, <1>5 DEF Flow
  <2>3. Flow(f, r, h, done + 1, put, taken, ttl)'
    BY <1>2, <1>5, <2>1, <2>2 DEF Flow
  <2> QED BY <2>3
<1> QED BY <1>3, <1>4, <1>5, SendsThere

\* There is something on the connection: the packet after those that are taken.
LEMMA FlowNext ==
  ASSUME Linked, NEW f \in Files, NEW r \in Router, NEW h \in Router,
         NEW done, NEW put, NEW taken, NEW ttl,
         Flow(f, r, h, done, put, taken, ttl),
         NEW c \in 1 .. Len(conns[r][h]), conns[r][h][c].buf # <<>>
  PROVE  /\ done \in Nat /\ put \in Nat /\ taken \in Nat /\ taken < put
         /\ put <= done /\ done <= Count[f]
         /\ c = 1 /\ Len(conns[r][h]) = 1
         /\ Head(conns[r][h][c].buf) = Piece(f, taken + 1, ttl)
         /\ Tail(conns[r][h][c].buf) = Stretch(f, taken + 1, put, ttl)
<1>1. /\ Count[f] \in Nat /\ done \in Nat /\ put \in Nat /\ taken \in Nat
      /\ put <= done /\ taken <= put /\ done <= Count[f]
  BY Constants DEF Flow
<1>2. put > 0 /\ Len(conns[r][h]) = 1 /\ c = 1
      /\ conns[r][h][1].buf = Stretch(f, taken, put, ttl)
  <2>1. put # 0
    <3> SUFFICES ASSUME put = 0 PROVE FALSE
      OBVIOUS
    <3>1. conns[r][h] = <<>>
      BY DEF Flow
    <3>2. Len(conns[r][h]) = 0
      BY <3>1
    <3> QED BY <3>2
  <2>2. put > 0
    BY <1>1, <2>1
  <2> QED BY <2>2 DEF Flow
<1>3. taken < put
  <2>1. taken # put
    BY <1>1, <1>2, StretchEmpty
  <2> QED BY <1>1, <2>1
<1>4. /\ Head(conns[r][h][c].buf) = Piece(f, taken + 1, ttl)
      /\ Tail(conns[r][h][c].buf) = Stretch(f, taken + 1, put, ttl)
  BY <1>1, <1>2, <1>3, StretchShrinks
<1> QED BY <1>1, <1>2, <1>3, <1>4

\* r takes the first packet off a connection of s.
Takes(s, r, c, fd) ==
    conns' = [conns EXCEPT ![s][r][c] = [buf |-> Tail(conns[s][r][c].buf), fd |-> fd]]

\* h takes it off.
LEMMA FlowTaken ==
  ASSUME Linked, NEW f \in Files, NEW r \in Router, NEW h \in Router,
         NEW done, NEW put, NEW taken, NEW ttl,
         Flow(f, r, h, done, put, taken, ttl),
         NEW c \in 1 .. Len(conns[r][h]), conns[r][h][c].buf # <<>>, NEW fd,
         conns' = [conns EXCEPT ![r][h][c] =
                      [buf |-> Tail(conns[r][h][c].buf), fd |-> fd]],
         UNCHANGED sock, down \subseteq down'
  PROVE  Flow(f, r, h, done, put, taken + 1, ttl)'
<1> DEFINE conn == [buf |-> Tail(conns[r][h][c].buf), fd |-> fd]
<1>1. /\ done \in Nat /\ put \in Nat /\ taken \in Nat /\ taken < put
      /\ c = 1 /\ Len(conns[r][h]) = 1
  BY FlowNext
<1>2. conn.buf = Stretch(f, taken + 1, put, ttl)
  BY FlowNext
<1>3. conns' = [conns EXCEPT ![r][h][1] = conn]
  BY <1>1
<1> HIDE DEF conn
<1>4. conns'[r][h] = [conns[r][h] EXCEPT ![1] = conn]
  <2> DEFINE q == [conns[r][h] EXCEPT ![1] = conn]
  <2>1. conns' = [conns EXCEPT ![r][h] = q]
    BY <1>3
  <2> HIDE DEF q
  <2>2. conns'[r][h] = q
    BY <2>1 DEF Linked
  <2> QED BY <2>2 DEF q
<1>5. Len(conns'[r][h]) = 1 /\ conns'[r][h][1] = conn
  <2>1. conns[r][h] \in Seq(Conn)
    BY DEF Linked
  <2> QED BY <1>1, <1>4, <2>1
<1>6. taken + 1 \in 0 .. put /\ put > 0 /\ put # 0
  BY <1>1
<1>7. conns'[r][h][1].buf = Stretch(f, taken + 1, put, ttl) /\ Len(conns'[r][h]) = 1
  BY <1>2, <1>5
<1>8. sock'[r][h] = sock[r][h] /\ (h \notin down' => h \notin down)
  OBVIOUS
<1> QED BY <1>6, <1>7, <1>8 DEF Flow

\* The sender gives up the socket, and the file.
LEMMA FlowGivenUp ==
  ASSUME Linked, NEW f \in Files, NEW r \in Router, NEW h \in Router,
         NEW done, NEW put, NEW taken, NEW ttl,
         Flow(f, r, h, done, put, taken, ttl), done < Count[f], NoSocket(r, h)
  PROVE  Flow(f, r, h, done, put, taken, ttl)'
<1>1. /\ Count[f] \in Nat /\ done \in Nat /\ put \in Nat /\ put <= done /\ put # Count[f]
  BY Constants DEF Flow
<1>2. /\ UNCHANGED <<conns, down>> /\ sock' = [sock EXCEPT ![r][h] = "-1"]
      /\ sock[r][h] # "open"
  BY DEF NoSocket, GiveUpSocket
<1>3. sock'[r][h] = "-1"
  BY <1>2 DEF Linked
<1>4. h \notin down => put = 0
  BY <1>1, <1>2 DEF Flow
<1> QED BY <1>2, <1>3, <1>4 DEF Flow

-----------------------------------------------------------------------------
(***************************************************************************)
(* A file on its way: got[r] packets have come to r, and put[r] have got   *)
(* on the connection from there.                                           *)
(***************************************************************************)

Leads(f, next) ==
    next \in [Router -> Router] /\ \A r \in Router : next[r] = route[r][To[f]]

\* Those r has sent on, as far as it could.
Done(r, ttl, got) == IF ttl > 0 THEN got - Len(hold[r]) ELSE 0

Counted(f, X, got, put) ==
    /\ got \in [X -> Nat] /\ put \in [X -> Nat]
    /\ got[From[f]] = sent[f] /\ \A r \in X : got[r] <= sent[f]

Flows(f, next, X, ttl, got, put) ==
    \A r \in X \ {To[f]} :
        Flow(f, r, next[r], Done(r, ttl[r], got[r]), put[r], got[next[r]], ttl[r])

\* What a router has in hand is the last packet it has got.
Hands(f, X, ttl, got) ==
    \A r \in Router : hold[r] # <<>> =>
        /\ r \in X /\ r # To[f] /\ r # From[f]
        /\ ttl[r] > 0 /\ got[r] >= 1 /\ hold[r] = <<Piece(f, got[r], ttl[r])>>

\* There is nothing elsewhere.
OnlyHere(f, next, X) ==
    \A s, r \in Router : conns[s][r] # <<>> => s \in X /\ s # To[f] /\ r = next[s]

Carried(f, next, X, ttl, got, put) ==
    /\ Counted(f, X, got, put) /\ Flows(f, next, X, ttl, got, put)
    /\ Hands(f, X, ttl, got) /\ OnlyHere(f, next, X)

\* A link on which nothing happens.
LEMMA FlowKept ==
  ASSUME NEW f, NEW next, NEW X, NEW ttl, NEW got, NEW put, NEW g, NEW q,
         Flows(f, next, X, ttl, got, put), NEW s \in X, s # To[f],
         g[s] = got[s], q[s] = put[s], g[next[s]] = got[next[s]],
         hold'[s] = hold[s], down \subseteq down',
         conns'[s][next[s]] = conns[s][next[s]], sock'[s][next[s]] = sock[s][next[s]]
  PROVE  Flow(f, s, next[s], Done(s, ttl[s], g[s]), q[s], g[next[s]], ttl[s])'
<1>1. PICK d : d = Done(s, ttl[s], got[s])
  OBVIOUS
<1>2. Flow(f, s, next[s], d, put[s], got[next[s]], ttl[s])
  BY <1>1 DEF Flows
<1>3. Done(s, ttl[s], g[s])' = d
  BY <1>1 DEF Done
<1>4. Flow(f, s, next[s], d, put[s], got[next[s]], ttl[s])'
  BY <1>2, FlowStays
<1> QED BY <1>3, <1>4 DEF Flow

\* The first router sends the next packet, or gives up.
LEMMA CarriedSend ==
  ASSUME DataInv, NEW f \in Files, NEW next, NEW X, NEW ttl, NEW got, NEW put,
         Leads(f, next), Way(next, From[f], To[f], TTL[f], X, ttl),
         Carried(f, next, X, ttl, got, put), SendNext(f)
  PROVE  \E g, q : /\ \A s \in X : s # From[f] => g[s] = got[s]
                   /\ Carried(f, next, X, ttl, g, q)'
<1> DEFINE r == From[f]
           h == next[r]
           p == Piece(f, sent[f] + 1, TTL[f])
<1>1. /\ Linked /\ Sending /\ Holding
      /\ Counted(f, X, got, put) /\ Flows(f, next, X, ttl, got, put)
      /\ Hands(f, X, ttl, got) /\ OnlyHere(f, next, X)
  BY DEF DataInv, Carried
<1>2. /\ r \in X /\ To[f] \in X /\ r # To[f] /\ X \subseteq Router
      /\ ttl[r] = TTL[f] /\ h \in X /\ h # r
      /\ \A s \in X : s # To[f] => next[s] \in X /\ next[s] # r
  <2>1. /\ From[f] \in X /\ To[f] \in X /\ From[f] # To[f] /\ X \subseteq Router
        /\ ttl[From[f]] = TTL[f]
        /\ \A s \in X : s # To[f] => next[s] \in X /\ next[s] # From[f]
    BY DataAssumption DEF Way
  <2> QED BY <2>1
<1>3. /\ h = route[r][To[f]] /\ r \in Router /\ h \in Router
  BY <1>2 DEF Leads
<1>4. sent[f] < Count[f] /\ TTL[f] > 0 /\ sent[f] \in Nat /\ Count[f] \in Nat
  BY <1>1, Constants DEF SendNext, Sending
<1>0. PICK n : n = sent[f]
  OBVIOUS
<1>5. p = [file |-> f, seq |-> Sequence(f)[sent[f] + 1], ttl |-> TTL[f],
           fin |-> Final(f, sent[f] + 1)]
  BY DEF Piece
<1>6. /\ \/ /\ Transmit(r, h, p) \/ Break(r, h, p)
            /\ sent' = [sent EXCEPT ![f] = n + 1]
         \/ NoSocket(r, h) /\ UNCHANGED sent
      /\ UNCHANGED hold
  BY <1>0, <1>3, <1>5 DEF SendNext
<1>7. hold[r] = <<>> /\ got[r] = n
  BY <1>0, <1>1, <1>3 DEF Hands, Counted
<1>8. Done(r, ttl[r], got[r]) = n
  BY <1>0, <1>2, <1>4, <1>7 DEF Done
<1>9. Flow(f, r, h, n, put[r], got[h], TTL[f])
  BY <1>1, <1>2, <1>8 DEF Flows
<1> HIDE DEF p
<1>10. /\ down \subseteq down'
       /\ \A s, t \in Router : ~(s = r /\ t = h) =>
             conns'[s][t] = conns[s][t] /\ sock'[s][t] = sock[s][t]
  BY <1>1, <1>3, <1>6, SendsThere
<1>11. OnlyHere(f, next, X)'
  <2> SUFFICES ASSUME NEW s \in Router, NEW t \in Router, conns'[s][t] # <<>>
               PROVE  s \in X /\ s # To[f] /\ t = next[s]
    BY DEF OnlyHere
  <2>1. CASE s = r /\ t = h
    BY <1>2, <2>1
  <2>2. CASE ~(s = r /\ t = h)
    BY <1>1, <1>10, <2>2 DEF OnlyHere
  <2> QED BY <2>1, <2>2
\* The other links.
<1>12. ASSUME NEW g, NEW q, \A s \in X : s # r => g[s] = got[s] /\ q[s] = put[s],
              NEW s \in X, s # To[f], s # r
       PROVE  Flow(f, s, next[s], Done(s, ttl[s], g[s]), q[s], g[next[s]], ttl[s])'
  <2>1. g[s] = got[s] /\ q[s] = put[s] /\ g[next[s]] = got[next[s]]
    BY <1>2, <1>12
  <2>2. s \in Router /\ next[s] \in Router
    BY <1>2, <1>12
  <2>3. conns'[s][next[s]] = conns[s][next[s]] /\ sock'[s][next[s]] = sock[s][next[s]]
    BY <1>10, <1>12, <2>2
  <2> QED BY <1>1, <1>6, <1>10, <1>12, <2>1, <2>3, FlowKept
<1>13. CASE (Transmit(r, h, p) \/ Break(r, h, p))
            /\ sent' = [sent EXCEPT ![f] = n + 1]
  <2>1. PICK m \in {put[r], put[r] + 1} : Flow(f, r, h, n + 1, m, got[h], TTL[f])'
    BY <1>1, <1>0, <1>3, <1>4, <1>9, <1>13, FlowSends DEF p
  <2>2. PICK g, q :
            /\ g \in [X -> Nat] /\ q \in [X -> Nat] /\ g[r] = n + 1 /\ q[r] = m
            /\ \A s \in X : s # r => g[s] = got[s] /\ q[s] = put[s]
    <3>1. got \in [X -> Nat] /\ put \in [X -> Nat] /\ n + 1 \in Nat /\ m \in Nat
      BY <1>0, <1>1, <1>2, <1>4 DEF Counted
    <3> WITNESS [got EXCEPT ![r] = n + 1], [put EXCEPT ![r] = m]
    <3> QED BY <1>2, <3>1
  <2>3. sent'[f] = n + 1
    BY <1>0, <1>1, <1>13 DEF Sending
  <2>4. Counted(f, X, g, q)'
    <3>1. \A s \in X : g[s] <= n + 1
      BY <1>0, <1>1, <1>4, <2>2 DEF Counted
    <3> QED BY <2>2, <2>3, <3>1 DEF Counted
  <2>5. Hands(f, X, ttl, g)'
    BY <1>1, <1>6, <2>2 DEF Hands
  <2>6. Flows(f, next, X, ttl, g, q)'
    <3>1. Done(r, ttl[r], g[r])' = n + 1
      BY <1>0, <1>2, <1>4, <1>6, <1>7, <2>2 DEF Done
    <3>2. g[h] = got[h]
      BY <1>2, <2>2
    <3>3. Flow(f, r, next[r], Done(r, ttl[r], g[r]), q[r], g[next[r]], ttl[r])'
      BY <1>2, <2>1, <2>2, <3>1, <3>2 DEF Flow
    <3>4. ASSUME NEW s \in X, s # To[f]
          PROVE  Flow(f, s, next[s], Done(s, ttl[s], g[s]), q[s], g[next[s]], ttl[s])'
      BY <1>12, <2>2, <3>3, <3>4
    <3> QED BY <3>4 DEF Flows
  <2>7. Carried(f, next, X, ttl, g, q)'
    BY <1>11, <2>4, <2>5, <2>6 DEF Carried
  <2> QED BY <1>2, <2>2, <2>7
<1>14. CASE NoSocket(r, h) /\ UNCHANGED sent
  <2>1. Flow(f, r, h, n, put[r], got[h], TTL[f])'
    BY <1>1, <1>0, <1>3, <1>4, <1>9, <1>14, FlowGivenUp
  <2>2. Counted(f, X, got, put)' /\ Hands(f, X, ttl, got)'
    BY <1>1, <1>6, <1>14 DEF Counted, Hands
  <2>3. Flows(f, next, X, ttl, got, put)'
    <3>1. Done(r, ttl[r], got[r])' = n
      BY <1>6, <1>8 DEF Done
    <3>2. Flow(f, r, next[r], Done(r, ttl[r], got[r]), put[r], got[next[r]], ttl[r])'
      BY <1>2, <2>1, <3>1 DEF Flow
    <3>3. ASSUME NEW s \in X, s # To[f]
          PROVE  Flow(f, s, next[s], Done(s, ttl[s], got[s]), put[s], got[next[s]], ttl[s])'
      BY <1>12, <3>2, <3>3
    <3> QED BY <3>3 DEF Flows
  <2>4. Carried(f, next, X, ttl, got, put)'
    BY <1>11, <2>2, <2>3 DEF Carried
  <2> QED BY <2>4
<1> QED BY <1>6, <1>13, <1>14

\* A router sends on what it has in hand, or loses it.
LEMMA CarriedForward ==
  ASSUME DataInv, NEW f \in Files, NEW next, NEW X, NEW ttl, NEW got, NEW put,
         Leads(f, next), Way(next, From[f], To[f], TTL[f], X, ttl),
         Carried(f, next, X, ttl, got, put), NEW r \in Router, Forward(r)
  PROVE  /\ r # To[f] /\ hold[r][1].file = f
         /\ \E q : Carried(f, next, X, ttl, got, q)'
<1> DEFINE h == next[r]
           p == hold[r][1]
<1>1. /\ Linked /\ Sending /\ Holding
      /\ Counted(f, X, got, put) /\ Flows(f, next, X, ttl, got, put)
      /\ Hands(f, X, ttl, got) /\ OnlyHere(f, next, X)
  BY DEF DataInv, Carried
<1>2. X \subseteq Router /\ \A s \in X : s # To[f] => next[s] \in X
  BY DEF Way
<1>3. /\ r \in X /\ r # To[f] /\ r # From[f]
      /\ ttl[r] > 0 /\ got[r] >= 1 /\ hold[r] = <<Piece(f, got[r], ttl[r])>>
  BY <1>1 DEF Forward, Hands
<1>4. p = Piece(f, got[r], ttl[r]) /\ p.file = f /\ Len(hold[r]) = 1
  BY <1>3 DEF Piece
<1>5. h \in X /\ h \in Router /\ h = route[r][To[f]]
  BY <1>2, <1>3 DEF Leads
<1>6. Transmit(r, h, p) \/ Break(r, h, p) \/ NoSocket(r, h)
  <2>1. LET x == route[r][To[p.file]]
        IN  Transmit(r, x, p) \/ Break(r, x, p) \/ NoSocket(r, x)
    BY DEF Forward
  <2> HIDE DEF p
  <2> QED BY <1>4, <1>5, <2>1
<1>7. hold' = [hold EXCEPT ![r] = <<>>] /\ UNCHANGED sent
  BY DEF Forward
<1>8. hold'[r] = <<>> /\ \A s \in Router : s # r => hold'[s] = hold[s]
  BY <1>1, <1>7 DEF Holding
<1>9. PICK n : n = got[r] - 1
  OBVIOUS
<1>10. /\ n \in Nat /\ n + 1 = got[r] /\ n < Count[f]
       /\ Done(r, ttl[r], got[r]) = n /\ put[r] \in Nat
  <2>1. got[r] \in Nat /\ put[r] \in Nat /\ got[r] <= sent[f]
        /\ sent[f] \in Nat /\ sent[f] <= Count[f] /\ Count[f] \in Nat
    BY <1>1, <1>3, Constants DEF Counted, Sending
  <2>2. n \in Nat /\ n + 1 = got[r] /\ n < Count[f]
    BY <1>3, <1>9, <2>1
  <2> QED BY <1>3, <1>4, <1>9, <2>1, <2>2 DEF Done
<1>11. Flow(f, r, h, n, put[r], got[h], ttl[r])
  BY <1>1, <1>3, <1>10 DEF Flows
<1>12. p = Piece(f, n + 1, ttl[r])
  BY <1>4, <1>10
<1> HIDE DEF p
<1>13. PICK m \in {put[r], put[r] + 1} : Flow(f, r, h, n + 1, m, got[h], ttl[r])'
  BY <1>1, <1>5, <1>6, <1>10, <1>11, <1>12, FlowSends
<1>14. /\ down \subseteq down'
       /\ \A s, t \in Router : ~(s = r /\ t = h) =>
             conns'[s][t] = conns[s][t] /\ sock'[s][t] = sock[s][t]
  BY <1>1, <1>5, <1>6, SendsThere
<1>15. PICK q : /\ q \in [X -> Nat] /\ q[r] = m
                /\ \A s \in X : s # r => q[s] = put[s]
  <2>1. put \in [X -> Nat] /\ m \in Nat
    BY <1>1, <1>10 DEF Counted
  <2> WITNESS [put EXCEPT ![r] = m]
  <2> QED BY <1>3, <2>1
<1>16. OnlyHere(f, next, X)'
  <2> SUFFICES ASSUME NEW s \in Router, NEW t \in Router, conns'[s][t] # <<>>
               PROVE  s \in X /\ s # To[f] /\ t = next[s]
    BY DEF OnlyHere
  <2>1. CASE s = r /\ t = h
    BY <1>3, <2>1
  <2>2. CASE ~(s = r /\ t = h)
    BY <1>1, <1>14, <2>2 DEF OnlyHere
  <2> QED BY <2>1, <2>2
<1>17. Counted(f, X, got, q)'
  BY <1>1, <1>7, <1>15 DEF Counted
<1>18. Hands(f, X, ttl, got)'
  BY <1>1, <1>8 DEF Hands
<1>19. Flows(f, next, X, ttl, got, q)'
  <2>1. Done(r, ttl[r], got[r])' = n + 1
    <3>1. got[r] \in Nat
      BY <1>1, <1>3 DEF Counted
    <3> QED BY <1>3, <1>8, <1>10, <3>1 DEF Done
  <2>2. Flow(f, r, next[r], Done(r, ttl[r], got[r]), q[r], got[next[r]], ttl[r])'
    BY <1>13, <1>15, <2>1 DEF Flow
  <2>3. ASSUME NEW s \in X, s # To[f], s # r
        PROVE  Flow(f, s, next[s], Done(s, ttl[s], got[s]), q[s], got[next[s]], ttl[s])'
    <3>1. s \in Router /\ next[s] \in Router
      BY <1>2, <2>3
    <3>2. conns'[s][next[s]] = conns[s][next[s]] /\ sock'[s][next[s]] = sock[s][next[s]]
      BY <1>14, <2>3, <3>1
    <3>3. q[s] = put[s] /\ hold'[s] = hold[s]
      BY <1>8, <1>15, <2>3, <3>1
    <3> QED BY <1>1, <1>14, <2>3, <3>2, <3>3, FlowKept
  <2>4. ASSUME NEW s \in X, s # To[f]
        PROVE  Flow(f, s, next[s], Done(s, ttl[s], got[s]), q[s], got[next[s]], ttl[s])'
    BY <2>2, <2>3, <2>4
  <2> QED BY <2>4 DEF Flows
<1>20. Carried(f, next, X, ttl, got, q)'
  BY <1>16, <1>17, <1>18, <1>19 DEF Carried
<1> QED BY <1>3, <1>4, <1>20 DEF p

\* A router takes the next packet off a connection.
LEMMA CarriedTaken ==
  ASSUME DataInv, NEW f \in Files, NEW next, NEW X, NEW ttl, NEW got, NEW put,
         Way(next, From[f], To[f], TTL[f], X, ttl),
         Carried(f, next, X, ttl, got, put),
         NEW s \in Router, NEW r \in Router, NEW c \in 1 .. Len(conns[s][r]),
         conns[s][r][c].buf # <<>>, hold[r] = <<>>, NEW fd,
         Takes(s, r, c, fd),
         Handle(r, Head(conns[s][r][c].buf)), down \subseteq down'
  PROVE  /\ r \in X /\ got[r] \in Nat /\ got[r] < sent[f] /\ got[r] < Count[f]
         /\ Head(conns[s][r][c].buf) = Piece(f, got[r] + 1, ttl[r] + 1)
         /\ \E g : /\ g[r] = got[r] + 1 /\ \A x \in X : x # r => g[x] = got[x]
                   /\ Carried(f, next, X, ttl, g, put)'
<1> DEFINE p == Head(conns[s][r][c].buf)
<1>1. /\ Linked /\ Sending /\ Holding
      /\ Counted(f, X, got, put) /\ Flows(f, next, X, ttl, got, put)
      /\ Hands(f, X, ttl, got) /\ OnlyHere(f, next, X)
  BY DEF DataInv, Carried
<1>2. /\ X \subseteq Router /\ From[f] \in X /\ To[f] \in X
      /\ \A x \in X : x # To[f] => next[x] \in X /\ next[x] # From[f]
                                   /\ ttl[next[x]] = ttl[x] - 1
      /\ \A x, y \in X : x # To[f] /\ y # To[f] /\ next[x] = next[y] => x = y
      /\ \A x \in X : ttl[x] \in Int
  BY DEF Way
<1>3. conns[s][r] # <<>>
  <2> SUFFICES ASSUME conns[s][r] = <<>> PROVE FALSE
    OBVIOUS
  <2>1. Len(conns[s][r]) = 0
    OBVIOUS
  <2> QED BY <2>1
<1>4. s \in X /\ s # To[f] /\ r = next[s]
  BY <1>1, <1>3 DEF OnlyHere
<1>5. r \in X /\ r # From[f] /\ ttl[r] = ttl[s] - 1 /\ ttl[s] \in Int /\ ttl[r] \in Int
  BY <1>2, <1>4
<1>6. PICK d : d = Done(s, ttl[s], got[s])
  OBVIOUS
<1>7. Flow(f, s, r, d, put[s], got[r], ttl[s])
  BY <1>1, <1>4, <1>6 DEF Flows
<1>8. /\ d \in Nat /\ put[s] \in Nat /\ got[r] \in Nat
      /\ got[r] < put[s] /\ put[s] <= d /\ d <= Count[f]
      /\ p = Piece(f, got[r] + 1, ttl[s])
  BY <1>1, <1>7, FlowNext
<1>9. /\ got[s] \in Nat /\ got[s] <= sent[f] /\ sent[f] \in Nat /\ Count[f] \in Nat
      /\ Len(hold[s]) \in Nat
  BY <1>1, <1>2, <1>4, Constants DEF Counted, Sending, Holding
<1>10. got[r] < sent[f] /\ got[r] < Count[f]
  <2>1. d <= got[s]
    BY <1>6, <1>9 DEF Done
  <2> QED BY <1>8, <1>9, <2>1
<1>11. ttl[s] = ttl[r] + 1 /\ ttl[s] - 1 = ttl[r]
  BY <1>5
<1>12. p = Piece(f, got[r] + 1, ttl[r] + 1) /\ p.ttl = ttl[s] /\ p.file = f
  BY <1>8, <1>11 DEF Piece
<1>13. PICK g : /\ g \in [X -> Nat] /\ g[r] = got[r] + 1
                /\ \A x \in X : x # r => g[x] = got[x]
  <2>1. got \in [X -> Nat] /\ got[r] + 1 \in Nat
    BY <1>1, <1>8 DEF Counted
  <2> WITNESS [got EXCEPT ![r] = got[r] + 1]
  <2> QED BY <1>5, <2>1
<1>14. UNCHANGED <<sock, sent>>
  BY DEF Handle
<1>15. hold' = [hold EXCEPT ![r] = IF ttl[r] > 0 /\ To[f] # r
                                   THEN <<Piece(f, g[r], ttl[r])>> ELSE <<>>]
  <2>1. hold' = [hold EXCEPT ![r] = IF p.ttl - 1 > 0 /\ To[p.file] # r
                                    THEN <<[p EXCEPT !.ttl = p.ttl - 1]>> ELSE <<>>]
    BY DEF Handle
  <2>2. [p EXCEPT !.ttl = p.ttl - 1] = Piece(f, g[r], ttl[r])
    <3>1. [Piece(f, got[r] + 1, ttl[s]) EXCEPT !.ttl = ttl[r]]
            = Piece(f, got[r] + 1, ttl[r])
      BY DEF Piece
    <3> HIDE DEF p
    <3> QED BY <1>8, <1>11, <1>12, <1>13, <3>1
  <2> HIDE DEF p
  <2> QED BY <1>11, <1>12, <2>1, <2>2
<1>16. \A x, y \in Router : ~(x = s /\ y = r) => conns'[x][y] = conns[x][y]
  BY <1>1 DEF Linked, Takes
<1>17. OnlyHere(f, next, X)'
  <2> SUFFICES ASSUME NEW x \in Router, NEW y \in Router, conns'[x][y] # <<>>
               PROVE  x \in X /\ x # To[f] /\ y = next[x]
    BY DEF OnlyHere
  <2>1. CASE x = s /\ y = r
    BY <1>4, <2>1
  <2>2. CASE ~(x = s /\ y = r)
    BY <1>1, <1>16, <2>2 DEF OnlyHere
  <2> QED BY <2>1, <2>2
<1>18. Counted(f, X, g, put)'
  <2>1. ASSUME NEW x \in X PROVE g[x] <= sent[f]
    <3>1. CASE x = r
      BY <1>8, <1>9, <1>10, <1>13, <3>1
    <3>2. CASE x # r
      BY <1>1, <1>13, <3>2 DEF Counted
    <3> QED BY <3>1, <3>2
  <2>2. g[From[f]] = sent[f] /\ put \in [X -> Nat]
    BY <1>1, <1>2, <1>5, <1>13 DEF Counted
  <2> QED BY <1>13, <1>14, <2>1, <2>2 DEF Counted
<1>19. hold'[r] = (IF ttl[r] > 0 /\ To[f] # r THEN <<Piece(f, g[r], ttl[r])>> ELSE <<>>)
       /\ \A x \in Router : x # r => hold'[x] = hold[x]
  <2>1. PICK q : q = IF ttl[r] > 0 /\ To[f] # r THEN <<Piece(f, g[r], ttl[r])>> ELSE <<>>
    OBVIOUS
  <2>2. hold' = [hold EXCEPT ![r] = q]
    BY <1>15, <2>1
  <2>3. hold'[r] = q /\ \A x \in Router : x # r => hold'[x] = hold[x]
    BY <1>1, <2>2 DEF Holding
  <2> QED BY <2>1, <2>3
<1>20. Hands(f, X, ttl, g)'
  <2> SUFFICES ASSUME NEW x \in Router, hold'[x] # <<>>
               PROVE  /\ x \in X /\ x # To[f] /\ x # From[f] /\ ttl[x] > 0 /\ g[x] >= 1
                      /\ hold'[x] = <<Piece(f, g[x], ttl[x])>>
    BY DEF Hands
  <2>1. CASE x = r
    BY <1>5, <1>8, <1>13, <1>19, <2>1
  <2>2. CASE x # r
    BY <1>1, <1>13, <1>19, <2>2 DEF Hands
  <2> QED BY <2>1, <2>2
<1>21. Flows(f, next, X, ttl, g, put)'
  <2>1. ASSUME NEW x \in X, x # To[f]
        PROVE  Flow(f, x, next[x], Done(x, ttl[x], g[x]), put[x], g[next[x]], ttl[x])'
    <3>1. x \in Router /\ next[x] \in X /\ next[x] \in Router
      BY <1>2, <2>1
    <3>2. PICK e : e = Done(x, ttl[x], got[x])
      OBVIOUS
    <3>3. Done(x, ttl[x], g[x])' = e
      <4>1. CASE x = r
        <5>1. got[r] \in Nat /\ g[r] = got[r] + 1
          BY <1>8, <1>13
        <5>2. ttl[r] > 0 => Len(hold'[r]) = 1
          <6>1. ttl[r] > 0 => hold'[r] = <<Piece(f, g[r], ttl[r])>>
            BY <1>19, <2>1, <4>1
          <6>2. \A y : Len(<<y>>) = 1
            OBVIOUS
          <6> QED BY <6>1, <6>2
        <5>3. Len(hold[r]) = 0
          OBVIOUS
        <5>4. e = IF ttl[r] > 0 THEN got[r] - Len(hold[r]) ELSE 0
          BY <3>2, <4>1 DEF Done
        <5>5. Done(x, ttl[x], g[x])' = IF ttl[r] > 0 THEN g[r] - Len(hold'[r]) ELSE 0
          BY <4>1 DEF Done
        <5>6. got[r] - 0 = g[r] - 1
          BY <5>1
        <5> QED BY <5>2, <5>3, <5>4, <5>5, <5>6
      <4>2. CASE x # r
        BY <1>13, <1>19, <3>1, <3>2, <4>2 DEF Done
      <4> QED BY <4>1, <4>2
    <3>4. Flow(f, x, next[x], e, put[x], got[next[x]], ttl[x])
      BY <1>1, <2>1, <3>2 DEF Flows
    <3>5. CASE x = s
      <4>1. Flow(f, s, r, e, put[s], got[r] + 1, ttl[s])'
        BY <1>1, <1>4, <1>14, <3>4, <3>5, FlowTaken DEF Takes
      <4> QED BY <1>4, <1>13, <3>3, <3>5, <4>1 DEF Flow
    <3>6. CASE x # s
      <4>1. next[x] # r
        BY <1>2, <1>4, <2>1, <3>6
      <4>2. g[next[x]] = got[next[x]]
        BY <1>13, <3>1, <4>1
      <4>3. conns'[x][next[x]] = conns[x][next[x]] /\ sock'[x][next[x]] = sock[x][next[x]]
        BY <1>14, <1>16, <3>1, <3>6
      <4>4. Flow(f, x, next[x], e, put[x], got[next[x]], ttl[x])'
        BY <3>4, <4>3, FlowStays
      <4> QED BY <3>3, <4>2, <4>4 DEF Flow
    <3> QED BY <3>5, <3>6
  <2> QED BY <2>1 DEF Flows
<1>22. Carried(f, next, X, ttl, g, put)'
  BY <1>17, <1>18, <1>20, <1>21 DEF Carried
<1> QED BY <1>5, <1>8, <1>10, <1>12, <1>13, <1>22

\* Nothing of it moves.
LEMMA CarriedStays ==
  ASSUME NEW f \in Files, NEW next, NEW X, NEW ttl, NEW got, NEW put,
         Leads(f, next), Way(next, From[f], To[f], TTL[f], X, ttl),
         Carried(f, next, X, ttl, got, put),
         UNCHANGED <<sent, hold, sock>>, down \subseteq down',
         \A s, r \in Router :
            /\ Len(conns'[s][r]) = Len(conns[s][r])
            /\ conns'[s][r] = <<>> <=> conns[s][r] = <<>>
            /\ conns[s][r] # <<>> => conns'[s][r][1].buf = conns[s][r][1].buf
  PROVE  Carried(f, next, X, ttl, got, put)'
<1>1. /\ Counted(f, X, got, put) /\ Flows(f, next, X, ttl, got, put)
      /\ Hands(f, X, ttl, got) /\ OnlyHere(f, next, X)
  BY DEF Carried
<1>2. Counted(f, X, got, put)' /\ Hands(f, X, ttl, got)' /\ OnlyHere(f, next, X)'
  BY <1>1 DEF Counted, Hands, OnlyHere
<1>3. ASSUME NEW s \in X, s # To[f]
      PROVE  Flow(f, s, next[s], Done(s, ttl[s], got[s]), put[s], got[next[s]], ttl[s])'
  <2>1. s \in Router /\ next[s] \in Router
    BY <1>3 DEF Way
  <2>2. PICK d : d = Done(s, ttl[s], got[s])
    OBVIOUS
  <2>3. Flow(f, s, next[s], d, put[s], got[next[s]], ttl[s])
    BY <1>1, <1>3, <2>2 DEF Flows
  <2>4. Done(s, ttl[s], got[s])' = d
    BY <2>2 DEF Done
  <2>5. Flow(f, s, next[s], d, put[s], got[next[s]], ttl[s])'
    <3>1. /\ Len(conns'[s][next[s]]) = Len(conns[s][next[s]])
          /\ conns'[s][next[s]] = <<>> <=> conns[s][next[s]] = <<>>
          /\ conns[s][next[s]] # <<>> =>
                conns'[s][next[s]][1].buf = conns[s][next[s]][1].buf
      BY <2>1
    <3>2. Len(conns[s][next[s]]) = 1 => conns[s][next[s]] # <<>>
      <4>1. Len(<<>>) # 1
        OBVIOUS
      <4> QED BY <4>1
    <3> QED BY <2>3, <3>1, <3>2 DEF Flow
  <2> QED BY <2>4, <2>5 DEF Flow
<1>4. Flows(f, next, X, ttl, got, put)'
  BY <1>3 DEF Flows
<1> QED BY <1>2, <1>4 DEF Carried

-----------------------------------------------------------------------------
(***************************************************************************)
(* A file whose routes do not lead to its destination.                     *)
(***************************************************************************)

OfFile(f) == [buf : Seq({p \in Alive : p.file = f}), fd : {"backlog", "watched", "cleared"}]

Trapped(f, X) ==
    /\ \A s, r \in Router :
          /\ conns[s][r] \in Seq(OfFile(f))
          /\ conns[s][r] # <<>> => s \in X /\ r \in X
    /\ \A r \in Router : hold[r] # <<>> => r \in X /\ hold[r][1].file = f

LEMMA TrappedSends ==
  ASSUME DataInv, NEW f \in Files, NEW X, Trapped(f, X),
         NEW r \in Router, NEW h \in Router, r \in X, h \in X, r \notin down,
         NEW p \in Alive, p.file = f,
         Transmit(r, h, p) \/ Break(r, h, p) \/ NoSocket(r, h),
         \A s \in Router : hold'[s] # <<>> => hold'[s] = hold[s]
  PROVE  Trapped(f, X)'
<1> DEFINE S == {x \in Alive : x.file = f}
           T == [buf : Seq(S), fd : {"backlog", "watched", "cleared"}]
<1>1. Linked /\ p \in S
  BY DEF DataInv
<1>2. \A s, t \in Router : conns[s][t] \in Seq(T)
  BY DEF Trapped, OfFile
<1>3. \A s, t \in Router : ~(s = r /\ t = h) => conns'[s][t] = conns[s][t]
  BY <1>1, SendsThere
<1>4. conns'[r][h] \in Seq(T)
  <2>1. CASE UNCHANGED conns
    BY <1>2, <2>1
  <2>2. CASE sock[r][h] = "0" /\ Transmit(r, h, p)
    <3> DEFINE conn == [buf |-> <<p>>, fd |-> "backlog"]
               q == Append(conns[r][h], conn)
    <3>1. conns' = [conns EXCEPT ![r][h] = q]
      BY <2>2 DEF Transmit, Put
    <3>2. conn \in T
      <4>1. <<p>> \in Seq(S)
        BY <1>1
      <4> HIDE DEF S
      <4> QED BY <4>1
    <3> HIDE DEF conn, T
    <3>3. q \in Seq(T)
      BY <1>2, <3>2, AppendProperties
    <3> HIDE DEF q
    <3>4. conns'[r][h] = q
      BY <1>1, <3>1 DEF Linked
    <3> QED BY <3>3, <3>4
  <2>3. CASE sock[r][h] = "open" /\ Transmit(r, h, p)
    <3> DEFINE line == conns[r][h]
               n == Len(line)
               more == [line[n] EXCEPT !.buf = Append(line[n].buf, p)]
               q == [line EXCEPT ![n] = more]
    <3>1. n \in 1 .. Len(line)
      <4>1. line \in Seq(Conn) /\ Goes(line)
        BY <1>1, <2>3, SameLink DEF Transmit, Link
      <4> QED BY <4>1, LenProperties, EmptySeq DEF Goes
    <3>2. conns' = [conns EXCEPT ![r][h] = q]
      <4>1. conns' = [conns EXCEPT ![r][h][n].buf = Append(@, p)]
        BY <2>3 DEF Transmit, Put
      <4> QED BY <4>1
    <3>3. line[n] \in T
      <4> HIDE DEF T
      <4>1. line \in Seq(T)
        BY <1>2
      <4> QED BY <3>1, <4>1, ElementOfSeq
    <3>4. more \in T
      <4> HIDE DEF S, line, n
      <4>1. line[n].buf \in Seq(S)
        BY <3>3
      <4>2. Append(line[n].buf, p) \in Seq(S)
        BY <1>1, <4>1, AppendProperties
      <4> QED BY <3>3, <4>2
    <3> HIDE DEF more, T
    <3>5. q \in Seq(T)
      <4>1. line \in Seq(T)
        BY <1>2
      <4> QED BY <3>1, <3>4, <4>1, ExceptSeq
    <3> HIDE DEF q
    <3>6. conns'[r][h] = q
      BY <1>1, <3>2 DEF Linked
    <3> QED BY <3>5, <3>6
  <2> QED BY <2>1, <2>2, <2>3 DEF Transmit, Put, Break, NoSocket
<1> HIDE DEF T
<1>5. ASSUME NEW s \in Router, NEW t \in Router
      PROVE  conns'[s][t] \in Seq(T) /\ (conns'[s][t] # <<>> => s \in X /\ t \in X)
  <2>1. CASE s = r /\ t = h
    BY <1>4, <2>1
  <2>2. CASE ~(s = r /\ t = h)
    BY <1>2, <1>3, <2>2 DEF Trapped
  <2> QED BY <2>1, <2>2
<1>6. \A s \in Router : hold'[s] # <<>> => s \in X /\ hold'[s][1].file = f
  BY DEF Trapped
<1> QED BY <1>5, <1>6 DEF Trapped, T, OfFile

LEMMA TrappedTaken ==
  ASSUME DataInv, NEW f \in Files, NEW X, Trapped(f, X),
         NEW s \in Router, NEW r \in Router, NEW c \in 1 .. Len(conns[s][r]),
         conns[s][r][c].buf # <<>>, NEW fd \in {"backlog", "watched", "cleared"},
         Takes(s, r, c, fd),
         Handle(r, Head(conns[s][r][c].buf))
  PROVE  /\ r \in X /\ Head(conns[s][r][c].buf) \in Alive
         /\ Head(conns[s][r][c].buf).file = f
         /\ Trapped(f, X)'
<1> DEFINE S == {x \in Alive : x.file = f}
           T == [buf : Seq(S), fd : {"backlog", "watched", "cleared"}]
           line == conns[s][r]
           p == Head(line[c].buf)
           conn == [buf |-> Tail(line[c].buf), fd |-> fd]
           q == [line EXCEPT ![c] = conn]
<1>1. Linked /\ Holding
  BY DEF DataInv
<1>2. \A x, t \in Router : conns[x][t] \in Seq(T)
  BY DEF Trapped, OfFile
<1>3. line # <<>> /\ s \in X /\ r \in X
  <2>1. line # <<>>
    <3> SUFFICES ASSUME line = <<>> PROVE FALSE
      OBVIOUS
    <3>1. Len(line) = 0
      OBVIOUS
    <3> QED BY <3>1
  <2> QED BY <2>1 DEF Trapped
<1>4. line[c] \in T
  <2> HIDE DEF T
  <2>1. line \in Seq(T)
    BY <1>2
  <2> QED BY <2>1, ElementOfSeq
<1>5. line[c].buf \in Seq(S)
  <2> HIDE DEF S, line
  <2> QED BY <1>4
<1>6. p \in S /\ Tail(line[c].buf) \in Seq(S)
  <2> HIDE DEF S
  <2> QED BY <1>5, HeadTailProperties
<1>7. conn \in T
  <2> HIDE DEF S
  <2> QED BY <1>6
<1>8. conns' = [conns EXCEPT ![s][r] = q]
  BY DEF Takes
<1>9. p \in Alive /\ p.file = f
  BY <1>6
<1> HIDE DEF T, conn
<1>10. q \in Seq(T)
  <2>1. line \in Seq(T)
    BY <1>2
  <2> QED BY <1>7, <2>1, ExceptSeq
<1> HIDE DEF q
<1>11. conns'[s][r] = q /\ \A x, t \in Router : ~(x = s /\ t = r) => conns'[x][t] = conns[x][t]
  BY <1>1, <1>8 DEF Linked
<1>12. ASSUME NEW x \in Router, NEW t \in Router
       PROVE  conns'[x][t] \in Seq(T) /\ (conns'[x][t] # <<>> => x \in X /\ t \in X)
  <2>1. CASE x = s /\ t = r
    BY <1>3, <1>10, <1>11, <2>1
  <2>2. CASE ~(x = s /\ t = r)
    BY <1>2, <1>11, <2>2 DEF Trapped
  <2> QED BY <2>1, <2>2
<1>13. PICK y : y = IF p.ttl - 1 > 0 /\ To[p.file] # r
                    THEN <<[p EXCEPT !.ttl = p.ttl - 1]>> ELSE <<>>
  OBVIOUS
<1>14. hold' = [hold EXCEPT ![r] = y]
  BY <1>13 DEF Handle
<1>15. y # <<>> => y[1].file = f
  <2>1. [p EXCEPT !.ttl = p.ttl - 1].file = p.file
    BY <1>9 DEF Alive, Packet
  <2> HIDE DEF p
  <2> QED BY <1>9, <1>13, <2>1
<1>16. \A x \in Router : hold'[x] # <<>> => x \in X /\ hold'[x][1].file = f
  BY <1>1, <1>3, <1>14, <1>15 DEF Trapped, Holding
<1>17. Trapped(f, X)'
  BY <1>12, <1>16 DEF Trapped, T, OfFile
<1> QED BY <1>3, <1>9, <1>17

-----------------------------------------------------------------------------
(***************************************************************************)
(* The destination.                                                        *)
(***************************************************************************)

Begun(f, n) == [k \in 1 .. n |-> Sequence(f)[k]]

\* The first n packets of f are in the file; one with ID 0 is never opened.
Received(f, n) ==
    /\ n \in 0 .. Count[f]
    /\ written[f] = Begun(f, n) /\ open[f] = (0 < n /\ n < Count[f])
    /\ f \in known[To[f]] <=> f = 0 \/ n > 0
    /\ n = 0 => first[To[f]][f] = 0

LEMMA ReceivedStays ==
  ASSUME NEW f \in Files, NEW n, Received(f, n),
         written'[f] = written[f], open'[f] = open[f],
         f \in known'[To[f]] <=> f \in known[To[f]],
         first'[To[f]][f] = first[To[f]][f]
  PROVE  Received(f, n)'
BY DEF Received

\* A router on the way notes nothing of what it has received.
LEMMA ReceivedNoted ==
  ASSUME Noting, NEW r \in Router, NEW p \in Alive, r # To[p.file], NoteSent(r, p),
         UNCHANGED file
  PROVE  \A f \in Files : \A n : Received(f, n) => Received(f, n)'
<1> SUFFICES ASSUME NEW f \in Files, NEW n, Received(f, n) PROVE Received(f, n)'
  OBVIOUS
<1>1. p.file \in Files /\ To[f] \in Router
  BY AlivePacket, Constants
<1>2. known' = [known EXCEPT ![r] = @ \cup {p.file}]
      /\ first' = [first EXCEPT ![r][p.file] = IF p.file \notin known[r] THEN p.seq ELSE @]
  BY DEF NoteSent
<1>3. f \in known'[To[f]] <=> f \in known[To[f]]
  BY <1>1, <1>2 DEF Noting
<1>4. first'[To[f]][f] = first[To[f]][f]
  <2>1. CASE To[f] = r
    <3>1. f # p.file
      BY <2>1
    <3> QED BY <1>1, <1>2, <3>1 DEF Noting
  <2>2. CASE To[f] # r
    BY <1>1, <1>2, <2>2 DEF Noting
  <2> QED BY <2>1, <2>2
<1>5. written'[f] = written[f] /\ open'[f] = open[f]
  BY DEF file
<1> QED BY <1>3, <1>4, <1>5, ReceivedStays

LEMMA BegunGrows ==
  ASSUME NEW f \in Files, NEW n \in Nat, n < Count[f]
  PROVE  /\ Append(Begun(f, n), Sequence(f)[n + 1]) = Begun(f, n + 1)
         /\ Len(Begun(f, n)) = n
<1> DEFINE old == Begun(f, n)
           new == Begun(f, n + 1)
           w == Sequence(f)[n + 1]
<1>1. Count[f] \in Nat
  BY Constants
<1>2. n + 1 \in Nat /\ \A k \in 1 .. n + 1 : k \in 1 .. Count[f]
  BY <1>1
<1>3. \A k \in 1 .. n + 1 : Sequence(f)[k] \in Word
  BY <1>2, SequenceIsWords
<1>4. \A k \in 1 .. n : k \in 1 .. n + 1
  OBVIOUS
<1>5. w \in Word
  BY <1>3
<1>6. old \in Seq(Word) /\ Len(old) = n /\ \A k \in 1 .. n : old[k] = Sequence(f)[k]
  <2>1. old = [k \in 1 .. n |-> Sequence(f)[k]]
    BY DEF Begun
  <2> HIDE DEF old
  <2> QED BY <1>3, <1>4, <2>1
<1>7. /\ new \in Seq(Word) /\ Len(new) = n + 1
      /\ \A k \in 1 .. n + 1 : new[k] = Sequence(f)[k]
  <2>1. new = [k \in 1 .. n + 1 |-> Sequence(f)[k]]
    BY DEF Begun
  <2> HIDE DEF new
  <2> QED BY <1>2, <1>3, <2>1
<1>8. new[n + 1] = w
  BY <1>7
<1> HIDE DEF old, new, w
<1>9. /\ Append(old, w) \in Seq(Word) /\ Len(Append(old, w)) = n + 1
      /\ \A k \in 1 .. n : Append(old, w)[k] = old[k]
      /\ Append(old, w)[n + 1] = w
  BY <1>5, <1>6, AppendProperties
<1>10. \A k \in 1 .. n + 1 : Append(old, w)[k] = new[k]
  <2>1. \A k \in 1 .. n + 1 : k \in 1 .. n \/ k = n + 1
    OBVIOUS
  <2> QED BY <1>4, <1>6, <1>7, <1>8, <1>9, <2>1
<1>11. Append(old, w) = new
  BY <1>7, <1>9, <1>10, SeqEqual
<1> QED BY <1>6, <1>11 DEF old, new, w

\* The next packet is written.
LEMMA ReceivedNext ==
  ASSUME Noting, Writing, NEW f \in Files, f # 0, NEW n, Received(f, n), n < Count[f],
         NEW p, p.file = f, p.seq = Sequence(f)[n + 1], p.fin = Final(f, n + 1),
         Save(To[f], p)
  PROVE  /\ UNCHANGED down
         /\ written' = [written EXCEPT ![f] = Append(@, Sequence(f)[n + 1])]
         /\ open' = [open EXCEPT ![f] = n + 1 < Count[f]]
         /\ Len(written[f]) = n
         /\ Received(f, n + 1)'
         /\ \A g \in Files : g # f /\ Received(g, 0) => Received(g, 0)'
<1> DEFINE r == To[f]
           new == f \notin known[r]
<1>1. /\ n \in Nat /\ Count[f] \in Nat /\ n <= Count[f] /\ r \in Router
      /\ written[f] = Begun(f, n) /\ open[f] = (0 < n /\ n < Count[f])
      /\ f \in known[r] <=> n > 0
      /\ n = 0 => first[r][f] = 0
  BY Constants DEF Received
<1>2. open[f] \/ new
  BY <1>1
<1>3. Begun(f, 0) = <<>>
  BY DEF Begun
<1>4. new => written[f] = <<>>
  BY <1>1, <1>3
<1>5. /\ written' = [written EXCEPT ![f] =
                        Append(IF new THEN <<>> ELSE written[f], Sequence(f)[n + 1])]
      /\ open' = [open EXCEPT ![f] = ~Final(f, n + 1)]
      /\ UNCHANGED down
      /\ \/ /\ first[r][f] = 0
            /\ known' = [known EXCEPT ![r] = @ \cup {f}]
            /\ first' = [first EXCEPT ![r][f] = p.seq]
         \/ first[r][f] # 0 /\ UNCHANGED <<known, first>>
  BY <1>2 DEF Save
<1>6. written' = [written EXCEPT ![f] = Append(written[f], Sequence(f)[n + 1])]
  BY <1>4, <1>5
<1>7. open' = [open EXCEPT ![f] = n + 1 < Count[f]]
  <2>1. ~Final(f, n + 1) <=> n + 1 < Count[f]
    BY <1>1 DEF Final
  <2>2. (~Final(f, n + 1)) = (n + 1 < Count[f])
    BY <2>1 DEF Final
  <2> QED BY <1>5, <2>2
<1>8. Append(Begun(f, n), Sequence(f)[n + 1]) = Begun(f, n + 1) /\ Len(Begun(f, n)) = n
  BY <1>1, BegunGrows
<1>9. written'[f] = Begun(f, n + 1) /\ \A g \in Files : g # f => written'[g] = written[g]
  BY <1>1, <1>6, <1>8 DEF Writing
<1>10. open'[f] = (n + 1 < Count[f]) /\ \A g \in Files : g # f => open'[g] = open[g]
  BY <1>7 DEF Writing
<1>11. f \in known'[r]
  <2>1. CASE first[r][f] = 0
    BY <1>1, <1>5, <2>1 DEF Noting
  <2>2. CASE first[r][f] # 0
    BY <1>1, <1>5, <2>2
  <2> QED BY <2>1, <2>2
<1>12. n + 1 \in 0 .. Count[f] /\ n + 1 > 0 /\ 0 < n + 1 /\ n + 1 # 0
  BY <1>1
<1>13. open'[f] = (0 < n + 1 /\ n + 1 < Count[f])
  BY <1>10, <1>12
<1>14. Received(f, n + 1)'
  BY <1>9, <1>11, <1>12, <1>13 DEF Received
<1>15. ASSUME NEW g \in Files, g # f, Received(g, 0) PROVE Received(g, 0)'
  <2>1. To[g] \in Router
    BY Constants
  <2>2. (g \in known'[To[g]] <=> g \in known[To[g]]) /\ first'[To[g]][g] = first[To[g]][g]
    <3>1. CASE first[r][f] = 0
      <4>1. known' = [known EXCEPT ![r] = @ \cup {f}]
            /\ first' = [first EXCEPT ![r][f] = p.seq]
        BY <1>5, <3>1
      <4>2. g \in known'[To[g]] <=> g \in known[To[g]]
        BY <1>1, <1>15, <2>1, <4>1 DEF Noting
      <4>3. first'[To[g]][g] = first[To[g]][g]
        BY <1>1, <1>15, <2>1, <4>1 DEF Noting
      <4> QED BY <4>2, <4>3
    <3>2. CASE first[r][f] # 0
      BY <1>5, <3>2
    <3> QED BY <3>1, <3>2
  <2> QED BY <1>9, <1>10, <1>15, <2>2, ReceivedStays
<1> QED BY <1>1, <1>5, <1>6, <1>7, <1>8, <1>14, <1>15

\* A router does not survive the first packet with ID 0.
LEMMA NotReceived ==
  ASSUME Noting, NEW f \in Files, f = 0, Received(f, 0), NEW p, p.file = f, Save(To[f], p)
  PROVE  UNCHANGED <<stats, file>> /\ down' = down \cup {To[f]}
<1>1. f \in known[To[f]]
  BY DEF Received
<1>2. ~(0 < 0)
  OBVIOUS
<1>3. ~open[f]
  BY <1>2 DEF Received
<1> QED BY <1>1, <1>3 DEF Save

-----------------------------------------------------------------------------
(***************************************************************************)
(* What the routers note.                                                  *)
(***************************************************************************)

\* The first n elements of a sequence that is given as a function.
Initial(e, n) == [k \in 1 .. n |-> e[k]]

\* The numbers of f as a router on the way notes them, and as the destination notes
\* those of a file numbered from 0.
Swapped(f) == [k \in 1 .. Count[f] |-> Htons(Sequence(f)[k])]
Rest(f) == [k \in 1 .. Count[f] - 1 |-> Sequence(f)[k + 1]]

LEMMA InitialIs ==
  ASSUME NEW e, NEW n \in Nat, \A k \in 1 .. n : e[k] \in Word
  PROVE  /\ Initial(e, n) \in Seq(Word) /\ Len(Initial(e, n)) = n
         /\ \A k \in 1 .. n : Initial(e, n)[k] = e[k]
<1> DEFINE s == Initial(e, n)
<1>1. s = [k \in 1 .. n |-> e[k]]
  BY DEF Initial
<1> HIDE DEF s
<1>2. s \in Seq(Word) /\ Len(s) = n /\ \A k \in 1 .. n : s[k] = e[k]
  BY <1>1
<1> QED BY <1>2 DEF s

LEMMA InitialGrows ==
  ASSUME NEW e, NEW n \in Nat, \A k \in 1 .. n + 1 : e[k] \in Word
  PROVE  Append(Initial(e, n), e[n + 1]) = Initial(e, n + 1)
<1> DEFINE old == Initial(e, n)
           new == Initial(e, n + 1)
           w == e[n + 1]
<1>1. n + 1 \in Nat /\ \A k \in 1 .. n : k \in 1 .. n + 1
  OBVIOUS
<1>2. old \in Seq(Word) /\ Len(old) = n /\ \A k \in 1 .. n : old[k] = e[k]
  BY <1>1, InitialIs
<1>3. new \in Seq(Word) /\ Len(new) = n + 1 /\ \A k \in 1 .. n + 1 : new[k] = e[k]
  BY <1>1, InitialIs
<1>4. w \in Word /\ new[n + 1] = w
  BY <1>1, <1>3
<1> HIDE DEF old, new, w
<1>5. /\ Append(old, w) \in Seq(Word) /\ Len(Append(old, w)) = n + 1
      /\ \A k \in 1 .. n : Append(old, w)[k] = old[k]
      /\ Append(old, w)[n + 1] = w
  BY <1>2, <1>4, AppendProperties
<1>6. \A k \in 1 .. n + 1 : Append(old, w)[k] = new[k]
  <2>1. \A k \in 1 .. n + 1 : k \in 1 .. n \/ k = n + 1
    OBVIOUS
  <2> QED BY <1>1, <1>2, <1>3, <1>4, <1>5, <2>1
<1>7. Append(old, w) = new
  BY <1>3, <1>5, <1>6, SeqEqual
<1> QED BY <1>7 DEF old, new, w

LEMMA InitialPrefix ==
  ASSUME NEW e, NEW m \in Nat, NEW n \in Nat, m <= n, \A k \in 1 .. n : e[k] \in Word
  PROVE  IsPrefix(Initial(e, m), Initial(e, n))
<1> DEFINE s == Initial(e, m)
           t == Initial(e, n)
<1>1. \A k \in 1 .. m : k \in 1 .. n
  OBVIOUS
<1>2. s \in Seq(Word) /\ Len(s) = m /\ \A k \in 1 .. m : s[k] = e[k]
  BY <1>1, InitialIs
<1>3. t \in Seq(Word) /\ Len(t) = n /\ \A k \in 1 .. n : t[k] = e[k]
  BY InitialIs
<1> HIDE DEF s, t
<1>4. /\ \A k \in 1 .. m : s[k] \in Word /\ t[k] \in Word
      /\ (m - 1) + 1 = m /\ \A k \in 1 .. m : (1 + k) - 1 = k
  BY <1>1, <1>2, <1>3
<1>5. /\ SubSeq(s, 1, m) \in Seq(Word) /\ Len(SubSeq(s, 1, m)) = m
      /\ \A k \in 1 .. m : SubSeq(s, 1, m)[k] = s[k]
  BY <1>4, SubSeqProperties
<1>6. /\ SubSeq(t, 1, m) \in Seq(Word) /\ Len(SubSeq(t, 1, m)) = m
      /\ \A k \in 1 .. m : SubSeq(t, 1, m)[k] = t[k]
  BY <1>4, SubSeqProperties
<1>7. \A k \in 1 .. m : SubSeq(s, 1, m)[k] = SubSeq(t, 1, m)[k]
  BY <1>1, <1>2, <1>3, <1>5, <1>6
<1>8. SubSeq(s, 1, m) = SubSeq(t, 1, m)
  BY <1>5, <1>6, <1>7, SeqEqual
<1>9. IsPrefix(s, t)
  BY <1>2, <1>3, <1>8 DEF IsPrefix
<1> QED BY <1>9 DEF s, t

LEMMA NumbersAreWords ==
  ASSUME NEW f \in Files
  PROVE  /\ Count[f] \in Nat
         /\ \A k \in 1 .. Count[f] :
               /\ Sequence(f)[k] \in Word /\ Swapped(f)[k] \in Word
               /\ Swapped(f)[k] = Htons(Sequence(f)[k])
         /\ \A k \in 1 .. Count[f] - 1 :
               Rest(f)[k] \in Word /\ Rest(f)[k] = Sequence(f)[k + 1]
<1>1. Count[f] \in Nat
  BY Constants
<1>2. \A k \in 1 .. Count[f] : Sequence(f)[k] \in Word
  BY SequenceIsWords
<1>3. \A k \in 1 .. Count[f] :
         Swapped(f)[k] \in Word /\ Swapped(f)[k] = Htons(Sequence(f)[k])
  BY <1>2, HtonsIsWord DEF Swapped
<1>4. ASSUME NEW k \in 1 .. Count[f] - 1
      PROVE  Rest(f)[k] \in Word /\ Rest(f)[k] = Sequence(f)[k + 1]
  <2>1. k + 1 \in 1 .. Count[f]
    BY <1>1
  <2>2. Rest(f)[k] = Sequence(f)[k + 1]
    BY DEF Rest
  <2> QED BY <1>2, <2>1, <2>2
<1> QED BY <1>1, <1>2, <1>3, <1>4

\* What the controller makes of the numbers of a router on the way.
LEMMA SwappedBack ==
  ASSUME NEW f \in Files, NEW n \in 0 .. Count[f], NEW q, q = Initial(Swapped(f), n)
  PROVE  [i \in DOMAIN q |-> Htons(q[i])] = Initial(Sequence(f), n)
<1>1. n \in Nat /\ \A k \in 1 .. n : k \in 1 .. Count[f]
  BY NumbersAreWords
<1>2. \A k \in 1 .. n : Swapped(f)[k] \in Word
  BY <1>1, NumbersAreWords
<1>3. /\ q \in Seq(Word) /\ Len(q) = n
      /\ \A k \in 1 .. n : q[k] = Swapped(f)[k]
  BY <1>1, <1>2, InitialIs
<1>4. DOMAIN q = 1 .. n
  BY <1>3
<1>5. \A k \in 1 .. n : Htons(q[k]) = Sequence(f)[k]
  <2> SUFFICES ASSUME NEW k \in 1 .. n PROVE Htons(q[k]) = Sequence(f)[k]
    OBVIOUS
  <2>1. q[k] = Htons(Sequence(f)[k]) /\ Sequence(f)[k] \in Word
    BY <1>1, <1>3, NumbersAreWords
  <2> QED BY <2>1, HtonsTwice
<1> QED BY <1>4, <1>5 DEF Initial

\* ... and of the numbers of the destination.
LEMMA SwappedTwice ==
  ASSUME NEW q \in Seq(Word), NEW t, t = [i \in DOMAIN q |-> Htons(q[i])],
         NEW u, u = [i \in DOMAIN q |-> Htons(t[i])]
  PROVE  u = q
<1>1. DOMAIN q = 1 .. Len(q) /\ \A k \in 1 .. Len(q) : q[k] \in Word
  BY ElementOfSeq
<1>2. \A k \in DOMAIN q : Htons(t[k]) = q[k]
  BY <1>1, HtonsTwice
<1>3. q = [i \in DOMAIN q |-> q[i]]
  BY <1>1
<1> QED BY <1>2, <1>3

LEMMA WordsConcat ==
  ASSUME NEW z \in Seq(Word), NEW s \in Seq(Word), NEW k \in 1 .. Len(z) + Len(s)
  PROVE  (z \o s)[k] = IF k <= Len(z) THEN z[k] ELSE s[k - Len(z)]
BY ConcatProperties

\* The number a destination forgets, put back.
LEMMA FirstPutBack ==
  ASSUME NEW f \in Files, FirstSeq[f] = 0, NEW n \in Nat, n <= Count[f], n > 1
  PROVE  <<0>> \o Initial(Rest(f), n - 1) = Initial(Sequence(f), n)
<1> DEFINE s == Initial(Rest(f), n - 1)
           t == Initial(Sequence(f), n)
           z == <<0>>
<1>1. /\ Count[f] \in Nat /\ n - 1 \in Nat /\ 1 + (n - 1) = n
      /\ \A k \in 1 .. n : k \in 1 .. Count[f]
      /\ \A k \in 1 .. n - 1 : k \in 1 .. Count[f] - 1
  BY NumbersAreWords
<1>2. /\ s \in Seq(Word) /\ Len(s) = n - 1
      /\ \A k \in 1 .. n - 1 : s[k] = Sequence(f)[k + 1]
  <2>1. \A k \in 1 .. n - 1 : Rest(f)[k] \in Word /\ Rest(f)[k] = Sequence(f)[k + 1]
    BY <1>1, NumbersAreWords
  <2> QED BY <1>1, <2>1, InitialIs
<1>3. t \in Seq(Word) /\ Len(t) = n /\ \A k \in 1 .. n : t[k] = Sequence(f)[k]
  BY <1>1, NumbersAreWords, InitialIs
<1>4. z \in Seq(Word) /\ Len(z) = 1 /\ z[1] = 0
  BY DEF Word
<1>5. Sequence(f)[1] = 0
  <2>1. 1 \in 1 .. Count[f]
    BY <1>1
  <2>2. Sequence(f)[1] = (FirstSeq[f] + 1 - 1) % 65536
    BY <2>1 DEF Sequence
  <2> QED BY <2>2
<1> HIDE DEF s, t, z
<1>6. /\ z \o s \in Seq(Word) /\ Len(z \o s) = n
      /\ \A k \in 1 .. n : (z \o s)[k] = IF k <= 1 THEN z[k] ELSE s[k - 1]
  <2>1. z \o s \in Seq(Word) /\ Len(z \o s) = Len(z) + Len(s)
    BY <1>2, <1>4, ConcatProperties
  <2>2. Len(z) + Len(s) = n /\ Len(z) = 1
    BY <1>1, <1>2, <1>4
  <2>3. ASSUME NEW k \in 1 .. n PROVE (z \o s)[k] = IF k <= 1 THEN z[k] ELSE s[k - 1]
    <3>1. k \in 1 .. Len(z) + Len(s)
      BY <2>2
    <3>2. (z \o s)[k] = IF k <= Len(z) THEN z[k] ELSE s[k - Len(z)]
      BY <1>2, <1>4, <3>1, WordsConcat
    <3> QED BY <2>2, <3>2
  <2> QED BY <2>1, <2>2, <2>3
<1>7. ASSUME NEW k \in 1 .. n PROVE (z \o s)[k] = t[k]
  <2>1. CASE k = 1
    BY <1>3, <1>4, <1>5, <1>6, <2>1
  <2>2. CASE k # 1
    <3>1. ~(k <= 1) /\ k - 1 \in 1 .. n - 1 /\ (k - 1) + 1 = k
      BY <2>2
    <3>2. s[k - 1] = Sequence(f)[k]
      BY <1>2, <3>1
    <3> QED BY <1>3, <1>6, <3>1, <3>2
  <2> QED BY <2>1, <2>2
<1>8. z \o s = t
  BY <1>3, <1>6, <1>7, SeqEqual
<1> QED BY <1>8 DEF s, t, z

\* Of f a router on the way has noted the first n numbers and the TTL.
Listed(f, r, n, ttl) ==
    /\ n \in 0 .. Count[f] /\ seqs[r][f] = Initial(Swapped(f), n)
    /\ f \in known[r] <=> f = 0 \/ n > 0
    /\ f # 0 /\ n > 0 => ttls[r][f] = ttl

\* The destination has noted the first n, and forgotten the first of all if it is 0.
Filed(f, n, ttl) ==
    /\ n \in 0 .. Count[f]
    /\ IF FirstSeq[f] = 0 /\ n > 1 THEN seqs[To[f]][f] = Initial(Rest(f), n - 1)
                                   ELSE seqs[To[f]][f] = Initial(Sequence(f), n)
    /\ n > 0 => ttls[To[f]][f] = ttl
    /\ n > 0 => (first[To[f]][f] = 0 <=> FirstSeq[f] = 0 /\ n = 1)

\* Nobody has noted anything of f.
Blank(f) == \A r \in Router : seqs[r][f] = <<>> /\ (f \in known[r] <=> f = 0)

SameEntry(r, f) ==
    /\ seqs'[r][f] = seqs[r][f] /\ first'[r][f] = first[r][f]
    /\ ttls'[r][f] = ttls[r][f] /\ (f \in known'[r] <=> f \in known[r])

LEMMA ListedStays ==
  ASSUME NEW f, NEW r, NEW n, NEW ttl, Listed(f, r, n, ttl), SameEntry(r, f)
  PROVE  Listed(f, r, n, ttl)'
BY DEF Listed, SameEntry

LEMMA FiledStays ==
  ASSUME NEW f, NEW n, NEW ttl, Filed(f, n, ttl), SameEntry(To[f], f)
  PROVE  Filed(f, n, ttl)'
BY DEF Filed, SameEntry

LEMMA NoteElsewhere ==
  ASSUME Noting, NEW r \in Router, NEW p, p.file \in Files, NoteSent(r, p)
  PROVE  \A s \in Router, g \in Files : ~(s = r /\ g = p.file) => SameEntry(s, g)
<1> SUFFICES ASSUME NEW s \in Router, NEW g \in Files, ~(s = r /\ g = p.file)
             PROVE  SameEntry(s, g)
  OBVIOUS
<1> DEFINE f == p.file
           a == IF f \notin known[r] THEN p.seq ELSE first[r][f]
           b == IF f \notin known[r] THEN p.ttl ELSE ttls[r][f]
           q == Append(IF f \notin known[r] THEN <<>> ELSE seqs[r][f], Htons(p.seq))
<1>1. /\ known' = [known EXCEPT ![r] = @ \cup {f}]
      /\ first' = [first EXCEPT ![r][f] = a]
      /\ ttls' = [ttls EXCEPT ![r][f] = b]
      /\ seqs' = [seqs EXCEPT ![r][f] = q]
  BY DEF NoteSent
<1> HIDE DEF a, b, q
<1>2. /\ first'[s][g] = first[s][g] /\ ttls'[s][g] = ttls[s][g]
      /\ seqs'[s][g] = seqs[s][g]
  BY <1>1 DEF Noting
<1>3. g \in known'[s] <=> g \in known[s]
  BY <1>1 DEF Noting
<1> QED BY <1>2, <1>3 DEF SameEntry

LEMMA BlankNoted ==
  ASSUME Noting, NEW r \in Router, NEW p, p.file \in Files, NoteSent(r, p)
  PROVE  \A f \in Files : f # p.file /\ Blank(f) => Blank(f)'
BY NoteElsewhere DEF Blank, SameEntry

\* The next packet goes out.
LEMMA ListedNext ==
  ASSUME Noting, NEW f \in Files, NEW r \in Router, NEW n \in Nat, NEW ttl, n < Count[f],
         Listed(f, r, n, ttl),
         NEW p, p.file = f, p.seq = Sequence(f)[n + 1], p.ttl = ttl, NoteSent(r, p)
  PROVE  Listed(f, r, n + 1, ttl)'
<1> DEFINE q == Append(IF f \notin known[r] THEN <<>> ELSE seqs[r][f], Htons(p.seq))
           b == IF f \notin known[r] THEN p.ttl ELSE ttls[r][f]
<1>1. /\ known' = [known EXCEPT ![r] = @ \cup {f}]
      /\ ttls' = [ttls EXCEPT ![r][f] = b]
      /\ seqs' = [seqs EXCEPT ![r][f] = q]
  BY DEF NoteSent
<1>2. Count[f] \in Nat /\ n + 1 \in 0 .. Count[f] /\ n + 1 > 0
      /\ \A k \in 1 .. n + 1 : k \in 1 .. Count[f]
  BY NumbersAreWords
<1>3. Initial(Swapped(f), 0) = <<>>
  BY DEF Initial
<1>4. q = Append(Initial(Swapped(f), n), Htons(p.seq))
  <2>1. CASE f \notin known[r]
    <3>1. n = 0
      BY <2>1 DEF Listed
    <3> QED BY <1>3, <2>1, <3>1 DEF Listed
  <2>2. CASE f \in known[r]
    BY <2>2 DEF Listed
  <2> QED BY <2>1, <2>2
<1>5. Htons(p.seq) = Swapped(f)[n + 1]
  BY <1>2, NumbersAreWords
<1>6. q = Initial(Swapped(f), n + 1)
  <2>1. \A k \in 1 .. n + 1 : Swapped(f)[k] \in Word
    BY <1>2, NumbersAreWords
  <2> QED BY <1>4, <1>5, <2>1, InitialGrows
<1>7. f # 0 => b = ttl
  BY DEF Listed
<1> HIDE DEF q, b
<1>8. seqs'[r][f] = q /\ ttls'[r][f] = b /\ f \in known'[r]
  BY <1>1 DEF Noting
<1> QED BY <1>2, <1>6, <1>7, <1>8 DEF Listed

LEMMA SaveElsewhere ==
  ASSUME Noting, NEW r \in Router, NEW p, p.file \in Files, Save(r, p)
  PROVE  \A s \in Router, g \in Files : ~(s = r /\ g = p.file) => SameEntry(s, g)
<1> SUFFICES ASSUME NEW s \in Router, NEW g \in Files, ~(s = r /\ g = p.file)
             PROVE  SameEntry(s, g)
  OBVIOUS
<1> DEFINE f == p.file
           q == Append(seqs[r][f], p.seq)
           z == <<p.seq>>
<1>1. \/ UNCHANGED <<known, first, ttls, seqs>>
      \/ /\ known' = [known EXCEPT ![r] = @ \cup {f}]
         /\ first' = [first EXCEPT ![r][f] = p.seq]
         /\ ttls' = [ttls EXCEPT ![r][f] = p.ttl]
         /\ seqs' = [seqs EXCEPT ![r][f] = z]
      \/ UNCHANGED <<known, first, ttls>> /\ seqs' = [seqs EXCEPT ![r][f] = q]
  BY DEF Save, stats
<1> HIDE DEF q, z
<1>2. CASE UNCHANGED <<known, first, ttls, seqs>>
  BY <1>2 DEF SameEntry
<1>3. CASE /\ known' = [known EXCEPT ![r] = @ \cup {f}]
           /\ first' = [first EXCEPT ![r][f] = p.seq]
           /\ ttls' = [ttls EXCEPT ![r][f] = p.ttl]
           /\ seqs' = [seqs EXCEPT ![r][f] = z]
  <2>1. /\ first'[s][g] = first[s][g] /\ ttls'[s][g] = ttls[s][g]
        /\ seqs'[s][g] = seqs[s][g]
    BY <1>3 DEF Noting
  <2>2. g \in known'[s] <=> g \in known[s]
    BY <1>3 DEF Noting
  <2> QED BY <2>1, <2>2 DEF SameEntry
<1>4. CASE UNCHANGED <<known, first, ttls>> /\ seqs' = [seqs EXCEPT ![r][f] = q]
  <2>1. seqs'[s][g] = seqs[s][g]
    BY <1>4 DEF Noting
  <2> QED BY <1>4, <2>1 DEF SameEntry
<1> QED BY <1>1, <1>2, <1>3, <1>4

\* The next packet is written.
LEMMA FiledNext ==
  ASSUME Noting, NEW f \in Files, NEW n \in Nat, n < Count[f], NEW ttl, Filed(f, n, ttl),
         f # 0, Received(f, n),
         NEW p, p.file = f, p.seq = Sequence(f)[n + 1], p.ttl = ttl, Save(To[f], p)
  PROVE  Filed(f, n + 1, ttl)'
<1> DEFINE r == To[f]
           w == p.seq
           q == Append(seqs[r][f], w)
           z == <<w>>
           e == Sequence(f)
<1>1. /\ Count[f] \in Nat /\ n + 1 \in 0 .. Count[f] /\ n + 1 > 0 /\ n <= Count[f]
      /\ \A k \in 1 .. n + 1 : k \in 1 .. Count[f]
      /\ r \in Router
  BY NumbersAreWords, Constants
<1>2. open[f] \/ f \notin known[r]
  BY <1>1 DEF Received
<1>3. /\ first[r][f] = 0 =>
            /\ first' = [first EXCEPT ![r][f] = w]
            /\ ttls' = [ttls EXCEPT ![r][f] = ttl]
            /\ seqs' = [seqs EXCEPT ![r][f] = z]
      /\ first[r][f] # 0 =>
            /\ seqs' = [seqs EXCEPT ![r][f] = q]
            /\ UNCHANGED <<first, ttls>>
  BY <1>2 DEF Save
<1>4. /\ n + 1 \in 1 .. Count[f] /\ w = e[n + 1] /\ w \in Word
      /\ \A k \in 1 .. n + 1 : e[k] \in Word
  BY <1>1, NumbersAreWords
<1>5. z = Append(<<>>, w)
  OBVIOUS
<1> HIDE DEF z, q
<1>6. /\ first[r][f] = 0 =>
            first'[r][f] = w /\ ttls'[r][f] = ttl /\ seqs'[r][f] = z
      /\ first[r][f] # 0 =>
            /\ seqs'[r][f] = q /\ first'[r][f] = first[r][f]
            /\ ttls'[r][f] = ttls[r][f]
  <2>1. CASE first[r][f] = 0
    BY <1>1, <1>3, <2>1 DEF Noting
  <2>2. CASE first[r][f] # 0
    BY <1>1, <1>3, <2>2 DEF Noting
  <2> QED BY <2>1, <2>2
<1>7. e[1] = FirstSeq[f] /\ (n = 1 => e[2] = (FirstSeq[f] + 1) % 65536)
  <2>1. FirstSeq[f] \in Nat /\ FirstSeq[f] < 65536
    <3>1. \A k \in Word : k \in Nat /\ k < 65536
      BY DEF Word
    <3>2. FirstSeq[f] \in Word
      BY Constants
    <3> QED BY <3>1, <3>2
  <2>2. e[1] = (FirstSeq[f] + 1 - 1) % 65536
    BY <1>1 DEF Sequence
  <2>3. n = 1 => e[2] = (FirstSeq[f] + 2 - 1) % 65536
    BY <1>1 DEF Sequence
  <2> QED BY <2>1, <2>2, <2>3
<1> HIDE DEF e
<1>8. CASE n = 0
  <2>1. first[r][f] = 0
    BY <1>8 DEF Received
  <2>2. seqs'[r][f] = Initial(e, n + 1)
    <3>1. Initial(e, 0) = <<>>
      BY DEF Initial
    <3>2. Append(Initial(e, n), e[n + 1]) = Initial(e, n + 1)
      BY <1>4, InitialGrows
    <3> QED BY <1>4, <1>5, <1>6, <1>8, <2>1, <3>1, <3>2
  <2>3. n + 1 = 1 /\ w = FirstSeq[f]
    BY <1>4, <1>7, <1>8
  <2> QED BY <1>1, <1>6, <2>1, <2>2, <2>3 DEF Filed, e
<1>9. CASE n > 0 /\ FirstSeq[f] # 0
  <2>1. first[r][f] # 0 /\ seqs[r][f] = Initial(e, n) /\ ttls[r][f] = ttl
    BY <1>9 DEF Filed, e
  <2>2. seqs'[r][f] = Initial(e, n + 1)
    BY <1>4, <1>6, <2>1, InitialGrows DEF q
  <2> QED BY <1>1, <1>6, <1>9, <2>1, <2>2 DEF Filed, e
<1>10. CASE n = 1 /\ FirstSeq[f] = 0
  <2>1. first[r][f] = 0 /\ w = 1
    BY <1>4, <1>7, <1>10 DEF Filed
  <2>2. z = Initial(Rest(f), 1)
    <3>1. Initial(Rest(f), 0) = <<>>
      BY DEF Initial
    <3>2. 1 \in 1 .. Count[f] - 1 /\ \A k \in 1 .. 0 + 1 : k \in 1 .. Count[f] - 1
      BY <1>1, <1>10
    <3>3. Rest(f)[1] = w /\ \A k \in 1 .. 0 + 1 : Rest(f)[k] \in Word
      BY <1>4, <1>10, <3>2, NumbersAreWords DEF e
    <3>4. Append(Initial(Rest(f), 0), Rest(f)[0 + 1]) = Initial(Rest(f), 0 + 1)
      BY <3>3, InitialGrows
    <3> QED BY <1>5, <3>1, <3>3, <3>4
  <2>3. n + 1 > 1 /\ (n + 1) - 1 = 1 /\ n + 1 # 1
    BY <1>10
  <2> QED BY <1>1, <1>6, <1>10, <2>1, <2>2, <2>3 DEF Filed
<1>11. CASE n > 1 /\ FirstSeq[f] = 0
  <2>1. /\ n > 0 /\ n # 1 /\ (n + 1) - 1 = (n - 1) + 1 /\ n + 1 > 1 /\ n + 1 # 1
        /\ n - 1 \in Nat /\ (n - 1) + 1 = n
    BY <1>11
  <2>2. first[r][f] # 0 /\ seqs[r][f] = Initial(Rest(f), n - 1) /\ ttls[r][f] = ttl
    BY <1>11, <2>1 DEF Filed
  <2>3. q = Initial(Rest(f), n)
    <3>1. \A k \in 1 .. n : k \in 1 .. Count[f] - 1
      BY <1>1
    <3>2. Rest(f)[n] = w /\ \A k \in 1 .. n : Rest(f)[k] \in Word
      <4>1. n \in 1 .. Count[f] - 1
        BY <1>1, <2>1
      <4> QED BY <1>4, <3>1, <4>1, NumbersAreWords DEF e
    <3>3. PICK m \in Nat : m = n - 1 /\ m + 1 = n
      BY <2>1
    <3>4. Append(Initial(Rest(f), m), Rest(f)[m + 1]) = Initial(Rest(f), m + 1)
      BY <3>2, <3>3, InitialGrows
    <3> QED BY <2>2, <3>2, <3>3, <3>4 DEF q
  <2>4. (n + 1) - 1 = n
    OBVIOUS
  <2> QED BY <1>1, <1>6, <1>11, <2>1, <2>2, <2>3, <2>4 DEF Filed
<1>12. n = 0 \/ n = 1 \/ n > 1
  OBVIOUS
<1> QED BY <1>8, <1>9, <1>10, <1>11, <1>12

-----------------------------------------------------------------------------
(***************************************************************************)
(* The trail of a file on its way: each router has noted what it has done  *)
(* to send on, and the first one a packet more if that was the last try.   *)
(***************************************************************************)

Given(f, ttl, got) == IF ttl[To[f]] > 0 /\ f # 0 THEN got[To[f]] ELSE 0

Tried(f, r, n, ttl, got) ==
    n = Done(r, ttl[r], got[r]) \/ (r = From[f] /\ f \notin job[r] /\ n = sent[f] + 1)

Trailed(f, X, ttl, got) ==
    /\ \A r \in X \ {To[f]} : \E n : Listed(f, r, n, ttl[r]) /\ Tried(f, r, n, ttl, got)
    /\ Filed(f, Given(f, ttl, got), ttl[To[f]])

\* A router that does not send.
LEMMA TrailKept ==
  ASSUME NEW f, NEW X, NEW ttl, NEW got, NEW g, Trailed(f, X, ttl, got),
         NEW r \in X \ {To[f]}, SameEntry(r, f),
         Done(r, ttl[r], g[r])' = Done(r, ttl[r], got[r]),
         r = From[f] => sent'[f] = sent[f] /\ (f \in job'[r] => f \in job[r])
  PROVE  \E n : Listed(f, r, n, ttl[r])' /\ Tried(f, r, n, ttl, g)'
<1>1. PICK n : Listed(f, r, n, ttl[r]) /\ Tried(f, r, n, ttl, got)
  BY Zenon DEF Trailed
<1>2. Listed(f, r, n, ttl[r])'
  BY <1>1, ListedStays
<1>3. Tried(f, r, n, ttl, g)'
  BY <1>1 DEF Tried
<1> QED BY <1>2, <1>3

LEMMA TrailSend ==
  ASSUME DataInv, NEW f \in Files, NEW next, NEW X, NEW ttl, NEW got, NEW put, NEW g, NEW q,
         Way(next, From[f], To[f], TTL[f], X, ttl),
         Carried(f, next, X, ttl, got, put), Carried(f, next, X, ttl, g, q)',
         \A s \in X : s # From[f] => g[s] = got[s],
         Trailed(f, X, ttl, got), SendNext(f)
  PROVE  Trailed(f, X, ttl, g)'
<1> DEFINE r == From[f]
           p == Piece(f, sent[f] + 1, TTL[f])
<1>1. /\ Sending /\ Noting /\ Counted(f, X, got, put) /\ Hands(f, X, ttl, got)
      /\ Counted(f, X, g, q)'
  BY DEF DataInv, Carried
<1>2. /\ r \in X /\ To[f] \in X /\ r # To[f] /\ X \subseteq Router /\ ttl[r] = TTL[f]
  BY DataAssumption DEF Way
<1>3. /\ sent[f] < Count[f] /\ TTL[f] > 0 /\ sent[f] \in Nat /\ Count[f] \in Nat
      /\ f \in job[r]
  BY <1>1, Constants DEF SendNext, Sending
<1>4. /\ NoteSent(r, p) /\ UNCHANGED hold
      /\ \/ sent' = [sent EXCEPT ![f] = sent[f] + 1]
         \/ sent' = sent /\ job' = [job EXCEPT ![r] = {}]
      /\ \A s \in Router : s # r => job'[s] = job[s]
  <2>1. p = [file |-> f, seq |-> Sequence(f)[sent[f] + 1], ttl |-> TTL[f],
             fin |-> Final(f, sent[f] + 1)]
    BY DEF Piece
  <2> HIDE DEF p
  <2> QED BY <1>1, <2>1 DEF SendNext, Sending
<1>5. p.file = f /\ p.seq = Sequence(f)[sent[f] + 1] /\ p.ttl = TTL[f]
  BY DEF Piece
<1> HIDE DEF p
<1>6. \A s \in Router, x \in Files : ~(s = r /\ x = f) => SameEntry(s, x)
  BY <1>1, <1>2, <1>4, <1>5, NoteElsewhere
<1>7. hold[r] = <<>> /\ hold'[r] = <<>> /\ Len(<<>>) = 0
  <2>1. r \in Router
    BY <1>2
  <2> QED BY <1>1, <1>4, <2>1 DEF Hands
<1>8. got[r] = sent[f] /\ g[r] = sent'[f]
  BY <1>1, <1>2 DEF Counted
<1>9. \E n : Listed(f, r, n, ttl[r])' /\ Tried(f, r, n, ttl, g)'
  <2>1. Listed(f, r, sent[f], ttl[r])
    <3>1. PICK n : Listed(f, r, n, ttl[r]) /\ Tried(f, r, n, ttl, got)
      BY <1>2, Zenon DEF Trailed
    <3>2. n = sent[f]
      BY <1>2, <1>3, <1>7, <1>8, <3>1 DEF Tried, Done
    <3> QED BY <3>1, <3>2
  <2>2. PICK m : m = sent[f]
    OBVIOUS
  <2>3. Listed(f, r, m + 1, ttl[r])'
    BY <1>1, <1>2, <1>3, <1>4, <1>5, <2>1, <2>2, ListedNext
  <2>4. CASE sent' = [sent EXCEPT ![f] = sent[f] + 1]
    <3>1. sent'[f] = m + 1
      BY <1>1, <2>2, <2>4 DEF Sending
    <3>2. Done(r, ttl[r], g[r])' = m + 1
      BY <1>2, <1>3, <1>7, <1>8, <2>2, <3>1 DEF Done
    <3>3. Tried(f, r, m + 1, ttl, g)'
      BY <3>2 DEF Tried
    <3> QED BY <2>3, <3>3
  <2>5. CASE sent' = sent /\ job' = [job EXCEPT ![r] = {}]
    <3>1. job'[r] = {} /\ sent'[f] = m
      BY <1>1, <1>2, <2>2, <2>5 DEF Sending
    <3>2. Tried(f, r, m + 1, ttl, g)'
      BY <3>1 DEF Tried
    <3> QED BY <2>3, <3>2
  <2> QED BY <1>4, <2>4, <2>5
<1>10. ASSUME NEW s \in X \ {To[f]}
       PROVE  \E n : Listed(f, s, n, ttl[s])' /\ Tried(f, s, n, ttl, g)'
  <2>1. CASE s = r
    BY <1>9, <2>1
  <2>2. CASE s # r
    <3>1. SameEntry(s, f) /\ g[s] = got[s]
      BY <1>2, <1>6, <2>2
    <3>2. Done(s, ttl[s], g[s])' = Done(s, ttl[s], got[s])
      BY <1>4, <3>1 DEF Done
    <3> QED BY <2>2, <3>1, <3>2, TrailKept
  <2> QED BY <2>1, <2>2
<1>11. Filed(f, Given(f, ttl, g), ttl[To[f]])'
  <2>1. SameEntry(To[f], f) /\ g[To[f]] = got[To[f]]
    BY <1>2, <1>6
  <2>2. PICK n : n = Given(f, ttl, got)
    OBVIOUS
  <2>3. Given(f, ttl, g) = n
    BY <2>1, <2>2 DEF Given
  <2>4. Filed(f, n, ttl[To[f]])'
    BY <2>1, <2>2, FiledStays DEF Trailed
  <2> QED BY <2>3, <2>4
<1> QED BY <1>10, <1>11 DEF Trailed

LEMMA TrailForward ==
  ASSUME DataInv, NEW f \in Files, NEW next, NEW X, NEW ttl, NEW got, NEW put,
         Way(next, From[f], To[f], TTL[f], X, ttl),
         Carried(f, next, X, ttl, got, put), Trailed(f, X, ttl, got),
         NEW r \in Router, Forward(r)
  PROVE  Trailed(f, X, ttl, got)'
<1> DEFINE p == hold[r][1]
<1>1. /\ Sending /\ Noting /\ Holding
      /\ Counted(f, X, got, put) /\ Hands(f, X, ttl, got)
  BY DEF DataInv, Carried
<1>2. /\ hold[r] # <<>> /\ NoteSent(r, p) /\ hold' = [hold EXCEPT ![r] = <<>>]
      /\ UNCHANGED <<sent, job>>
  BY DEF Forward
<1>3. /\ r \in X /\ r # To[f] /\ r # From[f] /\ ttl[r] > 0 /\ got[r] >= 1
      /\ hold[r] = <<Piece(f, got[r], ttl[r])>>
  BY <1>1, <1>2 DEF Hands
<1>4. p.file = f /\ p.seq = Sequence(f)[got[r]] /\ p.ttl = ttl[r]
  BY <1>3 DEF Piece
<1> HIDE DEF p
<1>5. /\ To[f] \in X /\ From[f] \in X /\ X \subseteq Router
      /\ got[r] \in Nat /\ got[r] <= sent[f] /\ sent[f] \in Nat /\ Count[f] \in Nat
      /\ sent[f] <= Count[f]
  BY <1>1, <1>3, Constants DEF Way, Counted, Sending
<1>6. PICK m \in Nat : m + 1 = got[r] /\ m = got[r] - 1 /\ m < Count[f]
  <2>1. got[r] - 1 \in Nat /\ (got[r] - 1) + 1 = got[r] /\ got[r] - 1 < Count[f]
    BY <1>3, <1>5
  <2> QED BY <2>1
<1>7. \A s \in Router, x \in Files : ~(s = r /\ x = f) => SameEntry(s, x)
  BY <1>1, <1>2, <1>4, NoteElsewhere
<1>8. Len(hold[r]) = 1 /\ hold'[r] = <<>> /\ Len(<<>>) = 0
  BY <1>1, <1>2, <1>3 DEF Holding
<1>9. \E n : Listed(f, r, n, ttl[r])' /\ Tried(f, r, n, ttl, got)'
  <2>1. PICK n : Listed(f, r, n, ttl[r]) /\ Tried(f, r, n, ttl, got)
    BY <1>3, Zenon DEF Trailed
  <2>2. n = m
    BY <1>3, <1>5, <1>6, <1>8, <2>1 DEF Tried, Done
  <2>3. Listed(f, r, m + 1, ttl[r])'
    BY <1>1, <1>2, <1>4, <1>6, <2>1, <2>2, ListedNext
  <2>4. Done(r, ttl[r], got[r])' = m + 1
    BY <1>3, <1>5, <1>6, <1>8 DEF Done
  <2>5. Tried(f, r, m + 1, ttl, got)'
    BY <2>4 DEF Tried
  <2> QED BY <2>3, <2>5
<1>10. ASSUME NEW s \in X \ {To[f]}
       PROVE  \E n : Listed(f, s, n, ttl[s])' /\ Tried(f, s, n, ttl, got)'
  <2>1. CASE s = r
    BY <1>9, <2>1
  <2>2. CASE s # r
    <3>1. SameEntry(s, f) /\ hold'[s] = hold[s]
      BY <1>1, <1>2, <1>5, <1>7, <2>2 DEF Holding
    <3>2. Done(s, ttl[s], got[s])' = Done(s, ttl[s], got[s])
      BY <3>1 DEF Done
    <3> QED BY <1>2, <3>1, <3>2, TrailKept
  <2> QED BY <2>1, <2>2
<1>11. Filed(f, Given(f, ttl, got), ttl[To[f]])'
  <2>1. SameEntry(To[f], f)
    BY <1>3, <1>5, <1>7
  <2>2. PICK n : n = Given(f, ttl, got)
    OBVIOUS
  <2>3. Filed(f, n, ttl[To[f]])'
    BY <2>1, <2>2, FiledStays DEF Trailed
  <2> QED BY <2>2, <2>3 DEF Given
<1> QED BY <1>10, <1>11 DEF Trailed

\* r takes a packet.
LEMMA TrailTaken ==
  ASSUME DataInv, NEW f \in Files, NEW next, NEW X, NEW ttl, NEW got, NEW put, NEW g,
         Way(next, From[f], To[f], TTL[f], X, ttl),
         Carried(f, next, X, ttl, got, put), Trailed(f, X, ttl, got),
         NEW r \in X, hold[r] = <<>>, NEW p, p.file = f, p.ttl - 1 = ttl[r], Handle(r, p),
         g[r] = got[r] + 1, \A x \in X : x # r => g[x] = got[x],
         \A x \in X : x # To[f] => SameEntry(x, f),
         Filed(f, Given(f, ttl, g), ttl[To[f]])'
  PROVE  Trailed(f, X, ttl, g)'
<1>1. /\ Sending /\ Holding /\ Counted(f, X, got, put) /\ X \subseteq Router
      /\ UNCHANGED <<sent, job>> /\ ttl[r] \in Int
  BY DEF DataInv, Carried, Way, Handle
<1>2. PICK h : /\ hold' = [hold EXCEPT ![r] = h]
               /\ ttl[r] > 0 /\ To[f] # r => Len(h) = 1
               /\ ~(ttl[r] > 0 /\ To[f] # r) => h = <<>>
  <2>1. /\ ttl[r] > 0 /\ To[f] # r =>
              hold' = [hold EXCEPT ![r] = <<[p EXCEPT !.ttl = p.ttl - 1]>>]
        /\ ~(ttl[r] > 0 /\ To[f] # r) => hold' = [hold EXCEPT ![r] = <<>>]
    BY DEF Handle
  <2>2. PICK y : y = [p EXCEPT !.ttl = p.ttl - 1]
    OBVIOUS
  <2>3. Len(<<y>>) = 1
    OBVIOUS
  <2> QED BY <2>1, <2>2, <2>3
<1>3. hold'[r] = h /\ \A s \in Router : s # r => hold'[s] = hold[s]
  BY <1>1, <1>2 DEF Holding
<1>4. ASSUME NEW s \in X \ {To[f]}
      PROVE  \E n : Listed(f, s, n, ttl[s])' /\ Tried(f, s, n, ttl, g)'
  <2>1. Done(s, ttl[s], g[s])' = Done(s, ttl[s], got[s])
    <3>1. CASE s = r
      <4>1. got[r] \in Nat /\ Len(<<>>) = 0
        BY <1>1 DEF Counted
      <4>2. CASE ttl[r] > 0
        <5>1. Len(h) = 1 /\ (got[r] + 1) - 1 = got[r] - 0
          BY <1>2, <3>1, <4>1, <4>2
        <5> QED BY <1>3, <3>1, <4>1, <4>2, <5>1 DEF Done
      <4>3. CASE ~(ttl[r] > 0)
        BY <3>1, <4>3 DEF Done
      <4> QED BY <4>2, <4>3
    <3>2. CASE s # r
      BY <1>1, <1>3, <3>2 DEF Done
    <3> QED BY <3>1, <3>2
  <2> QED BY <1>1, <2>1, TrailKept
<1> QED BY <1>4 DEF Trailed

LEMMA TrailStays ==
  ASSUME NEW f \in Files, NEW X, NEW ttl, NEW got, Trailed(f, X, ttl, got), X \subseteq Router,
         UNCHANGED <<sent, job, hold, stats>>
  PROVE  Trailed(f, X, ttl, got)'
<1>1. \A r : SameEntry(r, f)
  BY DEF SameEntry, stats
<1>2. ASSUME NEW r \in X \ {To[f]}
      PROVE  \E n : Listed(f, r, n, ttl[r])' /\ Tried(f, r, n, ttl, got)'
  <2>1. Done(r, ttl[r], got[r])' = Done(r, ttl[r], got[r])
    BY DEF Done
  <2> QED BY <1>1, <2>1, TrailKept
<1>3. Filed(f, Given(f, ttl, got), ttl[To[f]])'
  <2>1. PICK n : n = Given(f, ttl, got)
    OBVIOUS
  <2>2. Filed(f, n, ttl[To[f]])'
    BY <1>1, <2>1, FiledStays DEF Trailed
  <2> QED BY <2>1, <2>2 DEF Given
<1> QED BY <1>2, <1>3 DEF Trailed

\* SENDFILE.
LEMMA TrailBegins ==
  ASSUME NEW f \in Files, NEW X, NEW ttl, NEW got, X \subseteq Router, To[f] \in X, Blank(f)',
         \A r \in X : got[r] = 0 /\ hold'[r] = <<>>
  PROVE  Trailed(f, X, ttl, got)'
<1>1. /\ 0 \in 0 .. Count[f] /\ ~(0 > 0) /\ ~(0 > 1) /\ 0 - 0 = 0 /\ Len(<<>>) = 0
      /\ \A e : Initial(e, 0) = <<>>
  BY NumbersAreWords DEF Initial
<1>2. ASSUME NEW r \in X \ {To[f]}
      PROVE  Listed(f, r, 0, ttl[r])' /\ Tried(f, r, 0, ttl, got)'
  <2>1. r \in Router /\ got[r] = 0 /\ hold'[r] = <<>>
    OBVIOUS
  <2>2. Listed(f, r, 0, ttl[r])'
    BY <1>1, <2>1 DEF Listed, Blank
  <2>3. Done(r, ttl[r], got[r])' = 0
    BY <1>1, <2>1 DEF Done
  <2> QED BY <2>2, <2>3 DEF Tried
<1>3. Given(f, ttl, got) = 0
  BY DEF Given
<1>4. Filed(f, 0, ttl[To[f]])'
  BY <1>1 DEF Filed, Blank
<1> QED BY <1>2, <1>3, <1>4 DEF Trailed

-----------------------------------------------------------------------------
(***************************************************************************)
(* The invariant of a single transfer.                                     *)
(***************************************************************************)

Stuck(f, next, X) ==
    Trap(next, From[f], To[f], X) /\ Trapped(f, X) /\ Received(f, 0)

Moving(f, next, X, ttl, got, put) ==
    /\ Way(next, From[f], To[f], TTL[f], X, ttl) /\ Carried(f, next, X, ttl, got, put)
    /\ Received(f, Given(f, ttl, got)) /\ Trailed(f, X, ttl, got)

Underway(f) ==
    \E next : /\ Leads(f, next)
              /\ \/ \E X : Stuck(f, next, X)
                 \/ \E X, ttl, got, put : Moving(f, next, X, ttl, got, put)

ChannelInv ==
    /\ \A f, g \in started : f = g
    /\ \A f \in Files \ started : Received(f, 0) /\ Blank(f)
    /\ started = {} => \A r \in Router :
          hold[r] = <<>> /\ \A h \in Router : conns[r][h] = <<>> /\ sock[r][h] = "0"
    /\ \A f \in started : Underway(f)

LEMMA SequenceLength ==
  ASSUME NEW f \in Files
  PROVE  Len(Sequence(f)) = Count[f] /\ [g \in Files |-> Sequence(g)][f] = Sequence(f)
<1>1. Count[f] \in Nat
  BY Constants
<1>2. Sequence(f) = [i \in 1 .. Count[f] |-> Sequence(f)[i]]
  BY DEF Sequence
<1>3. PICK s : s = Sequence(f)
  OBVIOUS
<1>4. s = [i \in 1 .. Count[f] |-> s[i]]
  BY <1>2, <1>3
<1>5. Len(s) = Count[f]
  BY <1>1, <1>4
<1> QED BY <1>3, <1>5

LEMMA StillUnderway ==
  ASSUME ChannelInv, UNCHANGED started, NEW f \in started, Underway(f)',
         \A g \in Files \ started : Received(g, 0)' /\ Blank(g)'
  PROVE  ChannelInv'
<1>1. \A g \in started : g = f
  BY DEF ChannelInv
<1>2. \A g \in started' : Underway(g)'
  <2> SUFFICES ASSUME NEW g \in started' PROVE Underway(g)'
    OBVIOUS
  <2>1. g = f
    BY <1>1
  <2> QED BY <2>1
<1>3. started' # {} /\ \A g, x \in started' : g = x
  BY <1>1
<1> QED BY <1>2, <1>3 DEF ChannelInv

LEMMA ChannelSendNext ==
  ASSUME DataInv, ChannelInv, NEW f \in Files, SendNext(f)
  PROVE  /\ ChannelInv' /\ [Channel!Next]_(Channel!vars)
         /\ DiesOfID0 => DiesOfID0'
<1> DEFINE r == From[f]
           h == route[r][To[f]]
           i == sent[f] + 1
           p == [file |-> f, seq |-> Sequence(f)[i], ttl |-> TTL[f], fin |-> Final(f, i)]
<1>1. /\ Linked /\ Sending /\ Noting /\ route \in Routes
      /\ r \in Router /\ To[f] \in Router /\ r # To[f]
  BY DataAssumption, Constants DEF DataInv
<1>2. h \in Router
  BY <1>1, DataAssumption
<1>3. /\ f \in started /\ sent[f] < Count[f] /\ sent[f] \in Nat /\ Count[f] \in Nat
      /\ r \notin down
  BY <1>1, Constants DEF SendNext, Sending
<1>4. p \in Alive /\ p.file = f
  BY <1>1, NextPacket
<1>5. /\ NoteSent(r, p)
      /\ \/ /\ Transmit(r, h, p) \/ Break(r, h, p)
            /\ sent' = [sent EXCEPT ![f] = sent[f] + 1]
         \/ NoSocket(r, h) /\ UNCHANGED sent
      /\ UNCHANGED <<started, hold, file, route>>
  BY DEF SendNext
<1> HIDE DEF p, h
<1>6. \A g \in Files : \A n : Received(g, n) => Received(g, n)'
  BY <1>1, <1>4, <1>5, ReceivedNoted
<1>7. PICK next : /\ Leads(f, next)
                  /\ \/ \E X : Stuck(f, next, X)
                     \/ \E X, ttl, got, put : Moving(f, next, X, ttl, got, put)
  BY <1>3, Zenon DEF ChannelInv, Underway
<1>8. Leads(f, next)' /\ next[r] = h
  BY <1>1, <1>5, <1>7 DEF Leads, h
<1>9. Underway(f)'
  <2>1. ASSUME NEW X, Stuck(f, next, X) PROVE Underway(f)'
    <3>1. r \in X /\ h \in X
      BY <1>8, <2>1 DEF Stuck, Trap
    <3>2. \A s \in Router : hold'[s] # <<>> => hold'[s] = hold[s]
      BY <1>5
    <3>3. Transmit(r, h, p) \/ Break(r, h, p) \/ NoSocket(r, h)
      BY <1>5
    <3>4. Trapped(f, X)'
      BY <1>1, <1>2, <1>3, <1>4, <2>1, <3>1, <3>2, <3>3, TrappedSends DEF Stuck
    <3>5. Stuck(f, next, X)'
      BY <1>6, <2>1, <3>4 DEF Stuck
    <3> QED BY <1>8, <3>5, Zenon DEF Underway
  <2>2. ASSUME NEW X, NEW ttl, NEW got, NEW put, Moving(f, next, X, ttl, got, put)
        PROVE  Underway(f)'
    <3>1. /\ Way(next, From[f], To[f], TTL[f], X, ttl)
          /\ Carried(f, next, X, ttl, got, put)
          /\ Received(f, Given(f, ttl, got)) /\ Trailed(f, X, ttl, got)
      BY <2>2 DEF Moving
    <3>2. PICK g, q : /\ \A s \in X : s # r => g[s] = got[s]
                      /\ Carried(f, next, X, ttl, g, q)'
      BY <1>7, <3>1, CarriedSend
    <3>3. Trailed(f, X, ttl, g)'
      BY <3>1, <3>2, TrailSend
    <3>4. Received(f, Given(f, ttl, g))'
      <4>1. To[f] \in X
        BY <3>1 DEF Way
      <4>2. Given(f, ttl, g) = Given(f, ttl, got)
        BY <1>1, <3>2, <4>1 DEF Given
      <4> QED BY <1>6, <3>1, <4>2
    <3>5. Moving(f, next, X, ttl, g, q)'
      BY <3>1, <3>2, <3>3, <3>4 DEF Moving
    <3> QED BY <1>8, <3>5, Zenon DEF Underway
  <2> QED BY <1>7, <2>1, <2>2
<1>10. ChannelInv'
  <2>1. \A g \in Files \ started : Received(g, 0)' /\ Blank(g)'
    BY <1>1, <1>3, <1>4, <1>5, <1>6, BlankNoted DEF ChannelInv
  <2> QED BY <1>3, <1>5, <1>9, <2>1, StillUnderway
<1>11. [Channel!Next]_(Channel!vars)
  <2>1. CASE sent' = [sent EXCEPT ![f] = sent[f] + 1]
    <3>1. Channel!Send(f)
      BY <1>3, <1>5, <2>1, SequenceLength DEF Channel!Send, file
    <3> QED BY <3>1 DEF Channel!Next
  <2>2. CASE UNCHANGED sent
    BY <1>5, <2>2 DEF Channel!vars, file
  <2> QED BY <1>5, <2>1, <2>2
<1>12. DiesOfID0 => DiesOfID0'
  <2>1. crashes' = crashes /\ (down = {} => down' = {})
    BY <1>5 DEF Transmit, Break, NoSocket, faults
  <2> QED BY <1>5, <2>1 DEF DiesOfID0
<1> QED BY <1>10, <1>11, <1>12

LEMMA ChannelForward ==
  ASSUME DataInv, ChannelInv, NEW r \in Router, Forward(r)
  PROVE  /\ ChannelInv' /\ [Channel!Next]_(Channel!vars)
         /\ DiesOfID0 => DiesOfID0'
<1> DEFINE p == hold[r][1]
           h == route[r][To[p.file]]
<1>1. Linked /\ Sending /\ Holding /\ Noting /\ route \in Routes
  BY DEF DataInv
<1>2. p \in Alive /\ hold[r] # <<>> /\ To[p.file] # r
  BY <1>1, EmptySeq DEF Holding, Forward
<1>3. h \in Router /\ To[p.file] \in Router
  <2>1. To[p.file] \in Router
    BY <1>2, AlivePacket, Constants
  <2> QED BY <1>1, <2>1, DataAssumption
<1>4. /\ r \notin down /\ NoteSent(r, p)
      /\ Transmit(r, h, p) \/ Break(r, h, p) \/ NoSocket(r, h)
      /\ hold' = [hold EXCEPT ![r] = <<>>]
      /\ UNCHANGED <<started, sent, file, route>>
  BY DEF Forward
<1>5. PICK f : f \in started /\ f \in Files
  BY <1>1, <1>2 DEF ChannelInv, Sending
<1>6. \A g \in Files : \A n : Received(g, n) => Received(g, n)'
  BY <1>1, <1>2, <1>4, ReceivedNoted
<1>7. PICK next : /\ Leads(f, next)
                  /\ \/ \E X : Stuck(f, next, X)
                     \/ \E X, ttl, got, put : Moving(f, next, X, ttl, got, put)
  BY <1>5, Zenon DEF ChannelInv, Underway
<1>8. Leads(f, next)' /\ (p.file = f => next[r] = h)
  BY <1>4, <1>7 DEF Leads
<1>9. Underway(f)'
  <2>1. ASSUME NEW X, Stuck(f, next, X) PROVE Underway(f)'
    <3>1. p.file = f /\ r \in X
      BY <1>2, <2>1 DEF Stuck, Trapped
    <3>2. h \in X
      BY <1>8, <2>1, <3>1 DEF Stuck, Trap
    <3>3. \A s \in Router : hold'[s] # <<>> => hold'[s] = hold[s]
      BY <1>1, <1>4 DEF Holding
    <3> HIDE DEF p, h
    <3>4. Trapped(f, X)'
      BY <1>2, <1>3, <1>4, <1>5, <2>1, <3>1, <3>2, <3>3, TrappedSends DEF Stuck
    <3>5. Stuck(f, next, X)'
      BY <1>5, <1>6, <2>1, <3>4 DEF Stuck
    <3> QED BY <1>8, <3>5, Zenon DEF Underway
  <2>2. ASSUME NEW X, NEW ttl, NEW got, NEW put, Moving(f, next, X, ttl, got, put)
        PROVE  Underway(f)'
    <3>1. PICK q : Carried(f, next, X, ttl, got, q)'
      BY <1>5, <1>7, <2>2, CarriedForward DEF Moving
    <3>2. Trailed(f, X, ttl, got)'
      BY <1>5, <2>2, TrailForward DEF Moving
    <3>3. Received(f, Given(f, ttl, got))'
      <4>1. Received(f, Given(f, ttl, got))
        BY <2>2 DEF Moving
      <4> QED BY <1>5, <1>6, <4>1 DEF Given
    <3>4. Moving(f, next, X, ttl, got, q)'
      BY <2>2, <3>1, <3>2, <3>3 DEF Moving
    <3> QED BY <1>8, <3>4, Zenon DEF Underway
  <2> QED BY <1>7, <2>1, <2>2
<1>10. ChannelInv'
  <2>1. p.file = f
    <3>1. ASSUME NEW X, Stuck(f, next, X) PROVE p.file = f
      BY <1>2, <3>1 DEF Stuck, Trapped
    <3>2. ASSUME NEW X, NEW ttl, NEW got, NEW put, Moving(f, next, X, ttl, got, put)
          PROVE  p.file = f
      BY <1>5, <1>7, <3>2, CarriedForward DEF Moving
    <3> QED BY <1>7, <3>1, <3>2
  <2> HIDE DEF p
  <2>2. \A g \in Files \ started : Received(g, 0)' /\ Blank(g)'
    BY <1>1, <1>4, <1>5, <1>6, <2>1, BlankNoted DEF ChannelInv
  <2> QED BY <1>4, <1>5, <1>9, <2>2, StillUnderway
<1>11. [Channel!Next]_(Channel!vars)
  BY <1>4 DEF Channel!vars, file
<1>12. DiesOfID0 => DiesOfID0'
  <2>1. crashes' = crashes /\ (down = {} => down' = {})
    BY <1>4 DEF Transmit, Break, NoSocket, faults
  <2> QED BY <1>4, <2>1 DEF DiesOfID0
<1> QED BY <1>10, <1>11, <1>12

LEMMA ChannelReceive ==
  ASSUME DataInv, ChannelInv, NEW s \in Router, NEW r \in Router,
         NEW c \in 1 .. Len(conns[s][r]), Accept(s, r, c) \/ Read(s, r, c)
  PROVE  /\ ChannelInv' /\ [Channel!Next]_(Channel!vars)
         /\ DiesOfID0 => DiesOfID0'
<1> DEFINE p == Head(conns[s][r][c].buf)
           y == [p EXCEPT !.ttl = p.ttl - 1]
<1>1. Linked /\ Sending /\ Holding /\ Noting /\ Writing
  BY DEF DataInv
<1>2. conns[s][r][c].buf # <<>> /\ Handle(r, p) /\ hold[r] = <<>>
  <2>1. Lines(conns[s][r])
    BY <1>1, SameLink DEF Link
  <2>2. Sound(conns[s][r][c])
    BY <2>1 DEF Lines
  <2> QED BY <2>2 DEF Accept, Read, Idle, Sound
<1>3. PICK fd \in {"backlog", "watched", "cleared"} :
        Takes(s, r, c, fd)
  <2>1. CASE Accept(s, r, c)
    <3> WITNESS "watched" \in {"backlog", "watched", "cleared"}
    <3> QED BY <2>1 DEF Accept, Takes
  <2>2. CASE Read(s, r, c)
    <3>1. PICK x \in {"cleared", "watched"} : x = IF p.fin THEN "cleared" ELSE "watched"
      OBVIOUS
    <3> WITNESS x \in {"backlog", "watched", "cleared"}
    <3> QED BY <2>2, <3>1 DEF Read, Takes
  <2> QED BY <2>1, <2>2
<1>4. conns[s][r] # <<>>
  <2> SUFFICES ASSUME conns[s][r] = <<>> PROVE FALSE
    OBVIOUS
  <2>1. Len(conns[s][r]) = 0
    OBVIOUS
  <2> QED BY <2>1
<1>5. PICK f : f \in started /\ f \in Files
  BY <1>1, <1>4 DEF ChannelInv, Sending
<1>6. UNCHANGED <<started, sent, route, crashes>>
  BY <1>2 DEF Handle, faults
<1>7. p \in Alive
  <2>1. conns[s][r][c] \in Conn
    BY <1>1, ElementOfSeq DEF Linked
  <2>2. conns[s][r][c].buf \in Seq(Alive)
    BY <2>1 DEF Conn
  <2> QED BY <1>2, <2>2, HeadTailProperties
<1>8. down \subseteq down'
  <2> HIDE DEF p
  <2> QED BY <1>1, <1>2, <1>7, HandleKeeps
<1>9. PICK next : /\ Leads(f, next)
                  /\ \/ \E X : Stuck(f, next, X)
                     \/ \E X, ttl, got, put : Moving(f, next, X, ttl, got, put)
  BY <1>5, Zenon DEF ChannelInv, Underway
<1>10. Leads(f, next)'
  BY <1>6, <1>9 DEF Leads
<1>11. y.file = p.file /\ y.seq = p.seq /\ y.fin = p.fin
  BY <1>7 DEF Alive, Packet
\* Nothing is written.
<1>12. ASSUME UNCHANGED <<stats, file, down>>
       PROVE  /\ \A g \in Files : \A n : Received(g, n) => Received(g, n)'
              /\ \A g \in Files \ started : Received(g, 0)' /\ Blank(g)'
              /\ UNCHANGED Channel!vars /\ (DiesOfID0 => DiesOfID0')
  <2>1. UNCHANGED <<known, first, open, written, sent, started, crashes>>
    BY <1>6, <1>12 DEF stats, file
  <2>2. \A g \in Files : \A n : Received(g, n) => Received(g, n)'
    BY <2>1, ReceivedStays
  <2>3. \A g \in Files \ started : Received(g, 0)' /\ Blank(g)'
    BY <1>12, <2>2 DEF ChannelInv, Blank, stats
  <2> QED BY <1>12, <2>1, <2>2, <2>3 DEF Channel!vars, DiesOfID0
<1>13. ASSUME NEW X, Stuck(f, next, X)
       PROVE  /\ ChannelInv' /\ [Channel!Next]_(Channel!vars)
              /\ DiesOfID0 => DiesOfID0'
  <2>1. r \in X /\ p.file = f /\ Trapped(f, X)'
    BY <1>2, <1>3, <1>5, <1>13, TrappedTaken DEF Stuck
  <2>2. UNCHANGED <<stats, file, down>>
    <3>1. To[p.file] # r
      BY <1>13, <2>1 DEF Stuck, Trap
    <3> QED BY <1>2, <3>1 DEF Handle
  <2>3. Stuck(f, next, X)'
    BY <1>5, <1>12, <1>13, <2>1, <2>2 DEF Stuck
  <2>4. Underway(f)'
    BY <1>10, <2>3, Zenon DEF Underway
  <2> QED BY <1>5, <1>6, <1>12, <2>2, <2>4, StillUnderway
<1>14. ASSUME NEW X, NEW ttl, NEW got, NEW put, Moving(f, next, X, ttl, got, put)
       PROVE  /\ ChannelInv' /\ [Channel!Next]_(Channel!vars)
              /\ DiesOfID0 => DiesOfID0'
  <2> DEFINE m == Given(f, ttl, got)
  <2>1. /\ Way(next, From[f], To[f], TTL[f], X, ttl)
        /\ Carried(f, next, X, ttl, got, put) /\ Received(f, m)
        /\ Trailed(f, X, ttl, got)
    BY <1>14 DEF Moving
  <2>2. /\ r \in X /\ got[r] \in Nat /\ got[r] < sent[f] /\ got[r] < Count[f]
        /\ p = Piece(f, got[r] + 1, ttl[r] + 1)
        /\ \E g : /\ g[r] = got[r] + 1 /\ \A x \in X : x # r => g[x] = got[x]
                  /\ Carried(f, next, X, ttl, g, put)'
    BY <1>2, <1>3, <1>5, <1>8, <2>1, CarriedTaken
  <2>3. PICK g : /\ g[r] = got[r] + 1 /\ \A x \in X : x # r => g[x] = got[x]
                 /\ Carried(f, next, X, ttl, g, put)'
    BY <2>2
  <2>4. To[f] \in X /\ ttl[r] \in Int
    BY <2>1, <2>2 DEF Way
  <2>5. /\ p.file = f /\ p.seq = Sequence(f)[got[r] + 1] /\ p.fin = Final(f, got[r] + 1)
        /\ p.ttl - 1 = ttl[r]
    <3>1. (ttl[r] + 1) - 1 = ttl[r]
      BY <2>4
    <3> HIDE DEF p
    <3> QED BY <2>2, <3>1 DEF Piece
  <2>6. ASSUME Received(f, Given(f, ttl, g))', Filed(f, Given(f, ttl, g), ttl[To[f]])',
               \A x \in X : x # To[f] => SameEntry(x, f),
               \A x \in Files \ started : Received(x, 0)' /\ Blank(x)'
        PROVE  ChannelInv'
    <3> HIDE DEF p
    <3>1. Trailed(f, X, ttl, g)'
      BY <1>2, <1>5, <2>1, <2>2, <2>3, <2>5, <2>6, TrailTaken
    <3>2. Moving(f, next, X, ttl, g, put)'
      BY <2>1, <2>3, <2>6, <3>1 DEF Moving
    <3>3. Underway(f)'
      BY <1>10, <3>2, Zenon DEF Underway
    <3> QED BY <1>5, <1>6, <2>6, <3>3, StillUnderway
  <2>7. CASE ~(ttl[r] > 0 /\ To[f] = r)
    <3>1. UNCHANGED <<stats, file, down>>
      BY <1>2, <2>5, <2>7 DEF Handle
    <3>2. Given(f, ttl, g) = m
      BY <2>3, <2>4, <2>7 DEF Given
    <3>3. \A x \in Router : SameEntry(x, f)
      BY <3>1 DEF SameEntry, stats
    <3>4. PICK n : n = m
      OBVIOUS
    <3>5. Filed(f, n, ttl[To[f]])'
      <4>1. To[f] \in Router
        BY <1>5, Constants
      <4> QED BY <2>1, <3>3, <3>4, <4>1, FiledStays DEF Trailed
    <3>6. Filed(f, Given(f, ttl, g), ttl[To[f]])'
      BY <3>2, <3>4, <3>5
    <3>7. Received(f, Given(f, ttl, g))'
      BY <1>5, <1>12, <2>1, <3>1, <3>2, <3>4
    <3>8. ChannelInv'
      BY <1>12, <2>1, <2>6, <3>1, <3>3, <3>6, <3>7 DEF Way
    <3> QED BY <1>12, <3>1, <3>8
  <2>8. CASE ttl[r] > 0 /\ To[f] = r
    <3>1. Save(To[f], y) /\ y.file = f /\ y.seq = Sequence(f)[got[r] + 1]
          /\ y.fin = Final(f, got[r] + 1)
      BY <1>2, <1>11, <2>5, <2>8 DEF Handle
    <3> HIDE DEF y, p
    <3>2. CASE f = 0
      <4>1. m = 0 /\ Given(f, ttl, g) = 0
        BY <3>2 DEF Given
      <4>2. UNCHANGED <<stats, file>>
        BY <1>1, <1>5, <2>1, <3>1, <3>2, <4>1, NotReceived
      <4>3. \A x \in Files : \A n : Received(x, n) => Received(x, n)'
        BY <4>2, ReceivedStays DEF stats, file
      <4>4. \A x \in Router : SameEntry(x, f)
        BY <4>2 DEF SameEntry, stats
      <4>5. Received(f, 0)' /\ Filed(f, 0, ttl[To[f]])'
        BY <1>5, <2>1, <2>8, <4>1, <4>3, <4>4, FiledStays DEF Trailed
      <4>6. \A x \in Files \ started : Received(x, 0)' /\ Blank(x)'
        BY <4>2, <4>3 DEF ChannelInv, Blank, stats
      <4>7. ChannelInv'
        BY <2>1, <2>6, <4>1, <4>4, <4>5, <4>6 DEF Way
      <4>8. DiesOfID0'
        BY <1>5, <1>6, <3>2 DEF DiesOfID0
      <4>9. UNCHANGED Channel!vars
        BY <1>6, <4>2 DEF file, Channel!vars
      <4> QED BY <4>7, <4>8, <4>9
    <3>3. CASE f # 0
      <4>0. PICK n : n = got[r]
        OBVIOUS
      <4>1. m = n /\ n \in Nat /\ n < Count[f] /\ n + 1 <= sent[f]
        <5>1. n \in Nat /\ sent[f] \in Nat
          BY <1>1, <1>5, <2>2, <4>0 DEF Sending
        <5> QED BY <2>2, <2>8, <3>3, <4>0, <5>1 DEF Given
      <4>2. Received(f, n)
        BY <2>1, <4>1
      <4> HIDE DEF m
      <4>3. /\ y.file = f /\ y.seq = Sequence(f)[n + 1] /\ y.fin = Final(f, n + 1)
            /\ Save(To[f], y)
        BY <3>1, <4>0
      <4>4. /\ UNCHANGED down
            /\ written' = [written EXCEPT ![f] = Append(@, Sequence(f)[n + 1])]
            /\ open' = [open EXCEPT ![f] = n + 1 < Count[f]]
            /\ Len(written[f]) = n
            /\ Received(f, n + 1)'
            /\ \A x \in Files : x # f /\ Received(x, 0) => Received(x, 0)'
        BY <1>1, <1>5, <3>3, <4>1, <4>2, <4>3, ReceivedNext
      <4>5. Given(f, ttl, g) = n + 1
        BY <2>3, <2>8, <3>3, <4>0 DEF Given
      <4>6. \A x \in Router, z \in Files : ~(x = r /\ z = f) => SameEntry(x, z)
        BY <1>1, <1>5, <2>8, <4>3, SaveElsewhere
      <4>7. Filed(f, n + 1, ttl[To[f]])'
        <5>1. Filed(f, n, ttl[To[f]])
          BY <2>1, <4>1 DEF Trailed, m
        <5>2. y.ttl = ttl[To[f]]
          BY <1>7, <2>5, <2>8 DEF y, Alive, Packet
        <5> QED BY <1>1, <1>5, <3>3, <4>1, <4>2, <4>3, <5>1, <5>2, FiledNext
      <4>8. ASSUME NEW x \in Files \ started PROVE Received(x, 0)' /\ Blank(x)'
        <5>1. x # f /\ Received(x, 0) /\ Blank(x)
          BY <1>5 DEF ChannelInv
        <5>2. \A z \in Router : SameEntry(z, x)
          BY <4>6, <5>1
        <5>3. Blank(x)'
          BY <5>1, <5>2 DEF Blank, SameEntry
        <5> QED BY <4>4, <5>1, <5>3
      <4>9. \A x \in X : x # To[f] => SameEntry(x, f)
        BY <1>5, <2>1, <2>8, <4>6 DEF Way
      <4>10. Received(f, Given(f, ttl, g))' /\ Filed(f, Given(f, ttl, g), ttl[To[f]])'
        BY <4>4, <4>5, <4>7
      <4>11. ChannelInv'
        BY <2>6, <4>8, <4>9, <4>10
      <4>12. Channel!Deliver(f)
        BY <1>5, <1>6, <4>1, <4>4, SequenceLength DEF Channel!Deliver
      <4>13. DiesOfID0 => DiesOfID0'
        BY <1>6, <4>4 DEF DiesOfID0
      <4> QED BY <1>5, <4>11, <4>12, <4>13 DEF Channel!Next
    <3> QED BY <3>2, <3>3
  <2> QED BY <2>7, <2>8
<1> QED BY <1>9, <1>13, <1>14

\* Nothing of it moves.
LEMMA ChannelRests ==
  ASSUME DataInv, ChannelInv, down \subseteq down',
         UNCHANGED <<started, sent, job, hold, sock, stats, file, route>>,
         \A s, r \in Router :
            /\ Len(conns'[s][r]) = Len(conns[s][r])
            /\ conns'[s][r] = <<>> <=> conns[s][r] = <<>>
            /\ conns[s][r] # <<>> => conns'[s][r][1].buf = conns[s][r][1].buf
            /\ \A f \in Files :
                  conns[s][r] \in Seq(OfFile(f)) => conns'[s][r] \in Seq(OfFile(f))
  PROVE  ChannelInv' /\ UNCHANGED Channel!vars
<1>1. \A f \in Files : \A n : Received(f, n) => Received(f, n)'
  <2>1. UNCHANGED <<known, first, open, written>>
    BY DEF stats, file
  <2> QED BY <2>1, ReceivedStays
<1>2. UNCHANGED Channel!vars
  BY DEF Channel!vars, file
<1>3. \A f \in Files \ started : Received(f, 0)' /\ Blank(f)'
  BY <1>1 DEF ChannelInv, Blank, stats
<1>4. CASE started = {}
  <2>1. \A r \in Router : hold[r] = <<>>
                          /\ \A h \in Router : conns[r][h] = <<>> /\ sock[r][h] = "0"
    BY <1>4 DEF ChannelInv
  <2>2. \A r \in Router : hold'[r] = <<>>
                          /\ \A h \in Router : conns'[r][h] = <<>> /\ sock'[r][h] = "0"
    BY <2>1
  <2>3. started' = {}
    BY <1>4
  <2>4. \A f \in Files \ started' : Received(f, 0)' /\ Blank(f)'
    BY <1>3
  <2>5. ChannelInv'
    BY <2>2, <2>3, <2>4 DEF ChannelInv
  <2> QED BY <1>2, <2>5
<1>5. ASSUME NEW f \in started PROVE Underway(f)'
  <2>1. PICK next : /\ Leads(f, next)
                    /\ \/ \E X : Stuck(f, next, X)
                       \/ \E X, ttl, got, put : Moving(f, next, X, ttl, got, put)
    BY Zenon DEF ChannelInv, Underway
  <2>2. Leads(f, next)' /\ f \in Files
    BY <2>1 DEF Leads, DataInv, Sending
  <2>3. ASSUME NEW X, Stuck(f, next, X) PROVE Underway(f)'
    <3>1. Trapped(f, X)'
      BY <2>2, <2>3 DEF Stuck, Trapped
    <3>2. Stuck(f, next, X)'
      BY <1>1, <2>2, <2>3, <3>1 DEF Stuck
    <3> QED BY <2>2, <3>2, Zenon DEF Underway
  <2>4. ASSUME NEW X, NEW ttl, NEW got, NEW put, Moving(f, next, X, ttl, got, put)
        PROVE  Underway(f)'
    <3>1. Carried(f, next, X, ttl, got, put)'
      BY <2>1, <2>2, <2>4, CarriedStays DEF Moving
    <3>2. Trailed(f, X, ttl, got)'
      BY <2>2, <2>4, TrailStays DEF Moving, Way
    <3>3. Received(f, Given(f, ttl, got))'
      <4>1. Received(f, Given(f, ttl, got))
        BY <2>4 DEF Moving
      <4> QED BY <1>1, <2>2, <4>1 DEF Given
    <3>4. Moving(f, next, X, ttl, got, put)'
      BY <2>4, <3>1, <3>2, <3>3 DEF Moving
    <3> QED BY <2>2, <3>4, Zenon DEF Underway
  <2> QED BY <2>1, <2>3, <2>4
<1>6. ASSUME NEW f \in started PROVE ChannelInv'
  BY <1>3, <1>5, StillUnderway
<1> QED BY <1>2, <1>4, <1>6

LEMMA ChannelReadEnd ==
  ASSUME DataInv, ChannelInv, NEW s \in Router, NEW r \in Router,
         NEW c \in 1 .. Len(conns[s][r]), ReadEnd(s, r, c)
  PROVE  ChannelInv' /\ UNCHANGED Channel!vars /\ (DiesOfID0 => DiesOfID0')
<1> DEFINE line == conns[s][r]
           conn == [buf |-> <<>>, fd |-> "cleared"]
           q == [line EXCEPT ![c] = conn]
<1>1. /\ Linked /\ line \in Seq(Conn) /\ line[c] = [buf |-> <<>>, fd |-> "watched"]
      /\ UNCHANGED <<started, sent, job, hold, sock, stats, file, down, route, crashes>>
  BY SameLink DEF ReadEnd, DataInv, faults
<1>2. conns' = [conns EXCEPT ![s][r] = q]
  <2>1. conns' = [conns EXCEPT ![s][r][c] = [line[c] EXCEPT !.fd = "cleared"]]
    BY DEF ReadEnd
  <2>2. [line[c] EXCEPT !.fd = "cleared"] = conn
    BY <1>1
  <2> QED BY <2>1, <2>2
<1>3. conn.buf = <<>>
  OBVIOUS
<1>4. ASSUME NEW f \in Files, line \in Seq(OfFile(f)) PROVE q \in Seq(OfFile(f))
  <2>1. conn \in OfFile(f)
    <3>1. \A S : <<>> \in Seq(S)
      BY EmptySeq
    <3> QED BY <3>1 DEF OfFile
  <2> HIDE DEF conn
  <2> QED BY <1>4, <2>1, ExceptSeq
<1> HIDE DEF conn
<1>5. /\ Len(q) = Len(line) /\ q # <<>> /\ line # <<>>
      /\ q[1].buf = line[1].buf
  <2>1. Len(q) = Len(line) /\ Len(line) \in Nat /\ 1 \in 1 .. Len(line)
    BY <1>1
  <2>2. \A t : Len(t) \in Nat /\ 1 \in 1 .. Len(t) => t # <<>>
    <3>1. ~(1 \in 1 .. Len(<<>>))
      BY EmptySeq
    <3> QED BY <3>1
  <2>3. q[1].buf = line[1].buf
    <3>1. CASE c = 1
      <4>1. q[1] = conn /\ line[1].buf = <<>>
        BY <1>1, <2>1, <3>1
      <4> QED BY <1>3, <4>1
    <3>2. CASE c # 1
      BY <1>1, <2>1, <3>2
    <3> QED BY <3>1, <3>2
  <2> QED BY <2>1, <2>2, <2>3
<1> HIDE DEF q
<1>6. conns'[s][r] = q
      /\ \A x, t \in Router : ~(x = s /\ t = r) => conns'[x][t] = conns[x][t]
  BY <1>1, <1>2 DEF Linked
<1>7. ASSUME NEW x \in Router, NEW t \in Router
      PROVE  /\ Len(conns'[x][t]) = Len(conns[x][t])
             /\ conns'[x][t] = <<>> <=> conns[x][t] = <<>>
             /\ conns[x][t] # <<>> => conns'[x][t][1].buf = conns[x][t][1].buf
             /\ \A f \in Files :
                   conns[x][t] \in Seq(OfFile(f)) => conns'[x][t] \in Seq(OfFile(f))
  <2>1. CASE x = s /\ t = r
    BY <1>4, <1>5, <1>6, <2>1
  <2>2. CASE ~(x = s /\ t = r)
    BY <1>6, <2>2
  <2> QED BY <2>1, <2>2
<1>8. ChannelInv' /\ UNCHANGED Channel!vars
  BY <1>1, <1>7, ChannelRests
<1> QED BY <1>1, <1>8 DEF DiesOfID0

\* SENDFILE: from here the routes lead to the destination, or never do.
LEMMA ChannelSendFile ==
  ASSUME MaxTransfers = 1, DataInv, ChannelInv, NEW f \in Files, SendFile(f)
  PROVE  ChannelInv' /\ UNCHANGED Channel!vars /\ (DiesOfID0 => DiesOfID0')
<1>1. Linked /\ Sending /\ Holding /\ route \in Routes
  BY DEF DataInv
<1>2. /\ f \notin started /\ started' = started \cup {f}
      /\ Cardinality(started) < 1
      /\ UNCHANGED <<sent, hold, sock, conns, known, first, seqs, open, written, down,
                     route, crashes>>
  BY DEF SendFile, stats, file, faults
<1>3. started = {}
  <2>1. IsFiniteSet(started)
    <3>1. Files \subseteq 0 .. 255
      BY DataAssumption DEF Byte
    <3>2. IsFiniteSet(0 .. 255)
      <4>1. PICK n \in Int : n = 255
        OBVIOUS
      <4>2. IsFiniteSet(0 .. n)
        BY FS_Interval
      <4> QED BY <4>1, <4>2
    <3>3. started \subseteq 0 .. 255
      BY <1>1, <3>1 DEF Sending
    <3> QED BY <3>2, <3>3, FS_Subset
  <2>2. Cardinality(started) = 0
    BY <1>2, <2>1, FS_CardinalityType
  <2> QED BY <2>1, <2>2, FS_EmptySet
<1>4. \A r \in Router : hold[r] = <<>>
                        /\ \A h \in Router : conns[r][h] = <<>> /\ sock[r][h] = "0"
  BY <1>3 DEF ChannelInv
<1>5. \A g \in Files : Received(g, 0) /\ Received(g, 0)' /\ Blank(g)'
  <2>1. \A g \in Files : Received(g, 0) /\ Blank(g)
    BY <1>3 DEF ChannelInv
  <2>2. \A g \in Files : Blank(g)'
    BY <1>2, <2>1 DEF Blank
  <2> QED BY <1>2, <2>1, <2>2, ReceivedStays
<1>6. /\ From[f] \in Router /\ To[f] \in Router /\ From[f] # To[f]
      /\ TTL[f] \in Nat /\ Count[f] \in Nat /\ sent[f] = 0
  <2>1. \A n \in Byte : n \in Nat
    BY DEF Byte
  <2> QED BY <1>1, <1>2, <2>1, DataAssumption, Constants DEF Sending
<1>7. PICK next : /\ next \in [Router -> Router]
                  /\ \A r \in Router : next[r] = route[r][To[f]]
  <2>1. \A r \in Router : route[r][To[f]] \in Router
    BY <1>1, <1>6, DataAssumption
  <2> WITNESS [r \in Router |-> route[r][To[f]]]
  <2> QED BY <2>1
<1>8. Leads(f, next)'
  BY <1>2, <1>7 DEF Leads
<1>9. Underway(f)'
  <2>1. ASSUME NEW X, Trap(next, From[f], To[f], X) PROVE Underway(f)'
    <3>1. Trapped(f, X)'
      <4>1. \A S : <<>> \in Seq(S)
        BY EmptySeq
      <4> QED BY <1>2, <1>4, <4>1 DEF Trapped
    <3>2. Stuck(f, next, X)'
      BY <1>5, <2>1, <3>1 DEF Stuck
    <3> QED BY <1>8, <3>2, Zenon DEF Underway
  <2>2. ASSUME NEW X, NEW ttl, Way(next, From[f], To[f], TTL[f], X, ttl)
        PROVE  Underway(f)'
    <3>1. PICK none : none \in [X -> Nat] /\ \A r \in X : none[r] = 0
      <4> WITNESS [r \in X |-> 0]
      <4> QED OBVIOUS
    <3>2. /\ X \subseteq Router /\ From[f] \in X /\ To[f] \in X
          /\ \A r \in X : r # To[f] => next[r] \in X
      BY <2>2 DEF Way
    <3>3. Counted(f, X, none, none)'
      BY <1>2, <1>6, <3>1, <3>2 DEF Counted
    <3>4. Hands(f, X, ttl, none)' /\ OnlyHere(f, next, X)'
      BY <1>2, <1>4 DEF Hands, OnlyHere
    <3>5. ASSUME NEW r \in X, r # To[f]
          PROVE  Flow(f, r, next[r], Done(r, ttl[r], none[r]), none[r], none[next[r]],
                      ttl[r])'
      <4>1. r \in Router /\ next[r] \in Router /\ none[r] = 0 /\ none[next[r]] = 0
        BY <3>1, <3>2, <3>5
      <4>2. Done(r, ttl[r], none[r])' = 0
        <5>1. Len(hold'[r]) = 0 /\ 0 - 0 = 0
          <6>1. hold'[r] = <<>>
            BY <1>2, <1>4, <4>1
          <6> QED BY <6>1
        <5> QED BY <4>1, <5>1 DEF Done
      <4>3. conns'[r][next[r]] = <<>> /\ sock'[r][next[r]] = "0"
        BY <1>2, <1>4, <4>1
      <4>4. 0 \in 0 .. Count[f] /\ 0 \in 0 .. 0 /\ ~(0 > 0)
        BY <1>6
      <4>5. Flow(f, r, next[r], 0, 0, 0, ttl[r])'
        BY <4>3, <4>4 DEF Flow
      <4> QED BY <4>1, <4>2, <4>5 DEF Flow
    <3>6. Flows(f, next, X, ttl, none, none)'
      BY <3>5 DEF Flows
    <3>7. Carried(f, next, X, ttl, none, none)'
      BY <3>3, <3>4, <3>6 DEF Carried
    <3>8. Given(f, ttl, none) = 0
      BY <3>1, <3>2 DEF Given
    <3>9. Trailed(f, X, ttl, none)'
      <4>1. \A r \in X : none[r] = 0 /\ hold'[r] = <<>>
        BY <1>2, <1>4, <3>1, <3>2
      <4> QED BY <1>5, <3>2, <4>1, TrailBegins
    <3>10. Moving(f, next, X, ttl, none, none)'
      BY <1>5, <2>2, <3>7, <3>8, <3>9 DEF Moving
    <3> QED BY <1>8, <3>10, Zenon DEF Underway
  <2>3. (\E X : Trap(next, From[f], To[f], X))
          \/ (\E X, ttl : Way(next, From[f], To[f], TTL[f], X, ttl))
    BY <1>6, <1>7, TrailToTrapOrWay
  <2> QED BY <2>1, <2>2, <2>3
<1>10. started' = {f}
  BY <1>2, <1>3
<1>11. \A g \in started' : Underway(g)'
  <2> SUFFICES ASSUME NEW g \in started' PROVE Underway(g)'
    OBVIOUS
  <2>1. g = f
    BY <1>10
  <2> QED BY <1>9, <2>1
<1>12. ChannelInv'
  BY <1>5, <1>10, <1>11 DEF ChannelInv
<1>13. UNCHANGED Channel!vars /\ (DiesOfID0 => DiesOfID0')
  BY <1>2 DEF Channel!vars, DiesOfID0
<1> QED BY <1>12, <1>13

LEMMA ChannelStep ==
  ASSUME MaxTransfers = 1, MaxMoves = 0, DataInv, ChannelInv, [Next]_vars
  PROVE  /\ ChannelInv' /\ [Channel!Next]_(Channel!vars)
         /\ DiesOfID0 => DiesOfID0'
<1> DEFINE Goal == /\ ChannelInv' /\ [Channel!Next]_(Channel!vars)
                   /\ DiesOfID0 => DiesOfID0'
<1>1. ASSUME NEW f \in Files, SendFile(f) \/ SendNext(f) PROVE Goal
  BY <1>1, ChannelSendFile, ChannelSendNext
<1>2. ASSUME NEW r \in Router, Receive(r) PROVE Goal
  <2>1. PICK s \in Router : \E c \in 1 .. Len(conns[s][r]) :
            Accept(s, r, c) \/ Read(s, r, c) \/ ReadEnd(s, r, c)
    BY <1>2 DEF Receive
  <2>2. PICK c \in 1 .. Len(conns[s][r]) :
            Accept(s, r, c) \/ Read(s, r, c) \/ ReadEnd(s, r, c)
    BY <2>1
  <2> QED BY <2>2, ChannelReceive, ChannelReadEnd
<1>3. ASSUME NEW r \in Router, Crash(r) PROVE Goal
  <2>1. down \subseteq down' /\ crashes' # 0
        /\ UNCHANGED <<started, sent, job, hold, sock, conns, stats, file, route>>
    BY <1>3 DEF Crash, DataInv, Bounded
  <2>2. ChannelInv' /\ UNCHANGED Channel!vars
    BY <2>1, ChannelRests
  <2> QED BY <2>1, <2>2 DEF DiesOfID0
<1>4. ASSUME NEW r \in Router, Reroute(r) PROVE Goal
  <2>1. moves \in 0 .. 0 /\ moves < 0
    BY <1>4 DEF Reroute, DataInv, Bounded
  <2> QED BY <2>1
<1>5. CASE UNCHANGED vars
  <2>1. down \subseteq down'
        /\ UNCHANGED <<started, sent, job, hold, sock, conns, stats, file, route, down,
                       crashes>>
    BY <1>5 DEF vars, faults
  <2>2. ChannelInv' /\ UNCHANGED Channel!vars
    BY <2>1, ChannelRests
  <2> QED BY <2>1, <2>2 DEF DiesOfID0
<1> HIDE DEF Goal
<1>6. Goal
  BY <1>1, <1>2, <1>3, <1>4, <1>5, ChannelForward DEF Next, Goal
<1> QED BY <1>6 DEF Goal

LEMMA InitChannel == Init => ChannelInv /\ Channel!Init /\ DiesOfID0
<1> SUFFICES ASSUME Init PROVE ChannelInv /\ Channel!Init /\ DiesOfID0
  OBVIOUS
<1>1. ASSUME NEW f \in Files PROVE Received(f, 0)
  <2>1. To[f] \in Router /\ Count[f] \in Nat
    BY Constants
  <2>2. Begun(f, 0) = <<>>
    BY DEF Begun
  <2>3. 0 \in 0 .. Count[f] /\ ~(0 < 0)
    BY <2>1
  <2>4. f \in known[To[f]] <=> f = 0
    BY <2>1 DEF Init
  <2>5. written[f] = <<>> /\ open[f] = FALSE /\ first[To[f]][f] = 0
    BY <2>1 DEF Init
  <2> QED BY <2>2, <2>3, <2>4, <2>5 DEF Received
<1>2. ChannelInv
  <2>1. \A f \in Files : Blank(f)
    BY DEF Init, Blank
  <2> QED BY <1>1, <2>1 DEF Init, ChannelInv
<1>3. Channel!Init /\ DiesOfID0
  BY DEF Init, Channel!Init, DiesOfID0
<1> QED BY <1>2, <1>3

-----------------------------------------------------------------------------
(***************************************************************************)
(* The statistics of the routers on the way.                               *)
(***************************************************************************)

\* A router on the way answers with the numbers as they are.
LEMMA NotedOnTheWay ==
  ASSUME NEW f \in Files, NEW r, r # To[f], NEW n, NEW ttl, Listed(f, r, n, ttl)
  PROVE  Noted(r, f) = Initial(Sequence(f), n)
<1>1. PICK q : q = seqs[r][f]
  OBVIOUS
<1>2. n \in 0 .. Count[f] /\ q = Initial(Swapped(f), n)
  BY <1>1 DEF Listed
<1>3. Noted(r, f) = [i \in DOMAIN q |-> Htons(q[i])]
  BY <1>1 DEF Noted, SendfileStats
<1> QED BY <1>2, <1>3, SwappedBack

\* So does the destination, once they are swapped again.
LEMMA NotedThere ==
  ASSUME Noting, NEW f \in Files
  PROVE  Noted(To[f], f) = seqs[To[f]][f]
<1>1. PICK q : q = seqs[To[f]][f]
  OBVIOUS
<1>2. q \in Seq(Word)
  BY <1>1, Constants DEF Noting
<1>3. PICK t : t = [i \in DOMAIN q |-> Htons(q[i])]
  OBVIOUS
<1>4. PICK u : u = [i \in DOMAIN q |-> Htons(t[i])]
  OBVIOUS
<1>5. Noted(To[f], f) = u
  BY <1>1, <1>3, <1>4 DEF Noted, SendfileStats
<1>6. u = q
  BY <1>2, <1>3, <1>4, SwappedTwice
<1> QED BY <1>1, <1>5, <1>6

\* f comes by no routers but those of a set that its next hops do not leave.
LEMMA PassesOnly ==
  ASSUME NEW f \in Files, NEW X, X \subseteq Router, From[f] \in X,
         \A s \in X : s # To[f] => Hop(f, s) \in X
  PROVE  Passes(f) \subseteq X
BY DEF Passes

\* r hands f on to h.
LEMMA NextAgrees ==
  ASSUME DataInv, NEW f \in Files, NEW next, NEW X, NEW ttl, NEW got, NEW put,
         Moving(f, next, X, ttl, got, put), NEW r \in X, r # To[f], NEW h, h = next[r]
  PROVE  /\ \/ IsPrefix(Noted(h, f), Noted(r, f))
            \/ /\ FirstSeq[f] = 0 /\ h = To[f]
               /\ IsPrefix(<<0>> \o Noted(h, f), Noted(r, f))
         /\ Noted(h, f) # <<>> /\ f # 0 => ttls[h][f] = ttls[r][f] - 1
<1>1. /\ Sending /\ Noting /\ Counted(f, X, got, put) /\ Flows(f, next, X, ttl, got, put)
      /\ Trailed(f, X, ttl, got)
  BY DEF DataInv, Moving, Carried
<1>2. /\ h \in X /\ h # From[f] /\ ttl[h] = ttl[r] - 1 /\ X \subseteq Router /\ To[f] \in X
      /\ ttl[r] \in Int
  BY DEF Moving, Way
<1>3. PICK n : Listed(f, r, n, ttl[r]) /\ Tried(f, r, n, ttl, got)
  BY <1>1, Zenon DEF Trailed
<1>4. /\ n \in Nat /\ n <= Count[f] /\ Count[f] \in Nat /\ got[h] \in Nat /\ got[r] \in Nat
      /\ sent[f] \in Nat /\ got[r] <= sent[f]
  BY <1>1, <1>2, <1>3, Constants DEF Listed, Counted, Sending
<1>5. got[h] <= n
  <2>1. PICK d : d = Done(r, ttl[r], got[r])
    OBVIOUS
  <2>2. Flow(f, r, h, d, put[r], got[h], ttl[r])
    BY <1>1, <2>1 DEF Flows
  <2>3. d \in Nat /\ got[h] <= d
    BY <1>4, <2>2 DEF Flow
  <2>4. d <= sent[f]
    <3>1. Len(hold[r]) \in Nat
      BY <1>2 DEF DataInv, Holding
    <3> QED BY <1>4, <2>1, <3>1 DEF Done
  <2> QED BY <1>3, <1>4, <2>1, <2>3, <2>4 DEF Tried
<1>6. Noted(r, f) = Initial(Sequence(f), n)
  BY <1>3, NotedOnTheWay
<1>7. \A k \in 1 .. n : Sequence(f)[k] \in Word
  BY <1>4, NumbersAreWords
<1>8. Initial(Sequence(f), 0) = <<>>
  BY DEF Initial
<1>9. CASE h = To[f]
  <2>1. PICK m : m = Given(f, ttl, got)
    OBVIOUS
  <2>2. Filed(f, m, ttl[h]) /\ Noted(h, f) = seqs[h][f]
    BY <1>1, <1>9, <2>1, NotedThere DEF Trailed
  <2>3. m \in Nat /\ m <= n
    BY <1>4, <1>5, <1>9, <2>1 DEF Given
  <2>4. CASE FirstSeq[f] = 0 /\ m > 1
    <3>1. Noted(h, f) = Initial(Rest(f), m - 1)
      BY <1>9, <2>2, <2>4 DEF Filed
    <3>2. <<0>> \o Noted(h, f) = Initial(Sequence(f), m)
      <4>1. m <= Count[f]
        BY <1>4, <2>3
      <4>2. <<0>> \o Initial(Rest(f), m - 1) = Initial(Sequence(f), m)
        BY <2>3, <2>4, <4>1, FirstPutBack
      <4> QED BY <3>1, <4>2
    <3>3. IsPrefix(<<0>> \o Noted(h, f), Noted(r, f))
      BY <1>4, <1>6, <1>7, <2>3, <3>2, InitialPrefix
    <3>4. f # 0 => ttls[h][f] = ttl[h] /\ ttls[r][f] = ttl[r]
      BY <1>3, <1>4, <1>9, <2>2, <2>3, <2>4 DEF Filed, Listed
    <3> QED BY <1>2, <1>9, <2>4, <3>3, <3>4
  <2>5. CASE ~(FirstSeq[f] = 0 /\ m > 1)
    <3>1. Noted(h, f) = Initial(Sequence(f), m)
      BY <1>9, <2>2, <2>5 DEF Filed
    <3>2. IsPrefix(Noted(h, f), Noted(r, f))
      BY <1>4, <1>6, <1>7, <2>3, <3>1, InitialPrefix
    <3>3. Noted(h, f) # <<>> => m > 0 /\ n > 0
      BY <1>4, <1>8, <2>3, <3>1
    <3>4. m > 0 /\ n > 0 /\ f # 0 => ttls[h][f] = ttl[h] /\ ttls[r][f] = ttl[r]
      BY <1>3, <1>9, <2>2 DEF Filed, Listed
    <3> QED BY <1>2, <3>2, <3>3, <3>4
  <2> QED BY <2>4, <2>5
<1>10. CASE h # To[f]
  <2>1. PICK m : Listed(f, h, m, ttl[h]) /\ Tried(f, h, m, ttl, got)
    BY <1>1, <1>2, <1>10, Zenon DEF Trailed
  <2>2. m \in Nat /\ m <= n
    <3>1. Len(hold[h]) \in Nat
      BY <1>2 DEF DataInv, Holding
    <3>2. m = Done(h, ttl[h], got[h]) /\ m \in 0 .. Count[f]
      BY <1>2, <2>1 DEF Tried, Listed
    <3> QED BY <1>4, <1>5, <3>1, <3>2 DEF Done
  <2>3. Noted(h, f) = Initial(Sequence(f), m)
    BY <1>10, <2>1, NotedOnTheWay
  <2>4. IsPrefix(Noted(h, f), Noted(r, f))
    BY <1>4, <1>6, <1>7, <2>2, <2>3, InitialPrefix
  <2>5. Noted(h, f) # <<>> => m > 0 /\ n > 0
    BY <1>4, <1>8, <2>2, <2>3
  <2>6. m > 0 /\ n > 0 /\ f # 0 => ttls[h][f] = ttl[h] /\ ttls[r][f] = ttl[r]
    BY <1>3, <2>1 DEF Listed
  <2> QED BY <1>2, <2>4, <2>5, <2>6
<1> QED BY <1>9, <1>10

LEMMA TrailsFollow ==
  ASSUME DataInv, ChannelInv
  PROVE  TrailsAgree
<1> SUFFICES ASSUME NEW f \in Files, OnItsWay(f), NEW r \in Passes(f) \ {To[f]}
             PROVE  LET next == Hop(f, r)
                    IN  /\ \/ IsPrefix(Noted(next, f), Noted(r, f))
                           \/ /\ FirstSeq[f] = 0 /\ next = To[f]
                              /\ IsPrefix(<<0>> \o Noted(next, f), Noted(r, f))
                        /\ Noted(next, f) # <<>> /\ f # 0 =>
                              ttls[next][f] = ttls[r][f] - 1
  BY DEF TrailsAgree
<1>1. r \in Router /\ To[f] \in Router /\ From[f] \in Router
  BY Constants DEF Passes
<1>2. PICK h : h = Hop(f, r) /\ h \in Router
  BY <1>1, DataAssumption DEF Hop, DataInv
<1>3. CASE f \notin started
  <2>1. \A s \in Router : Noted(s, f) = <<>>
    <3>1. ASSUME NEW s \in Router PROVE Noted(s, f) = <<>>
      <4>1. seqs[s][f] = <<>>
        BY <1>3 DEF ChannelInv, Blank
      <4> QED BY <4>1 DEF Noted, SendfileStats
    <3> QED BY <3>1
  <2>2. IsPrefix(<<>>, <<>>)
    BY DEF IsPrefix
  <2> QED BY <1>1, <1>2, <2>1, <2>2
<1>4. CASE f \in started
  <2>1. PICK next : /\ Leads(f, next)
                    /\ \/ \E X : Stuck(f, next, X)
                       \/ \E X, ttl, got, put : Moving(f, next, X, ttl, got, put)
    BY <1>4, Zenon DEF ChannelInv, Underway
  <2>2. \A s \in Router : Hop(f, s) = next[s]
    BY <2>1 DEF Leads, Hop
  <2>3. ASSUME NEW X, Stuck(f, next, X) PROVE FALSE
    <3>1. /\ X \subseteq Router /\ From[f] \in X /\ To[f] \notin X
          /\ \A s \in X : next[s] \in X
      BY <2>3 DEF Stuck, Trap
    <3>2. Passes(f) \subseteq X
      BY <2>2, <3>1, PassesOnly
    <3> QED BY <3>1, <3>2 DEF OnItsWay
  <2>4. PICK X, ttl, got, put : Moving(f, next, X, ttl, got, put)
    BY <2>1, <2>3
  <2>5. /\ X \subseteq Router /\ From[f] \in X
        /\ \A s \in X : s # To[f] => next[s] \in X
    BY <2>4 DEF Moving, Way
  <2>6. Passes(f) \subseteq X
    BY <2>2, <2>5, PassesOnly
  <2>7. r \in X /\ r # To[f] /\ h = next[r]
    BY <1>1, <1>2, <2>2, <2>6
  <2> QED BY <1>2, <2>4, <2>7, NextAgrees
<1> QED BY <1>3, <1>4

-----------------------------------------------------------------------------
(***************************************************************************)
(* The theorems.                                                           *)
(***************************************************************************)

\* A file arrives packet by packet, in order, none twice and none left out, through any
\* routers and routes, with any length, TTL and buffers, however often connect fails and
\* whichever routers crash.
THEOREM FileIsChannel ==
  ASSUME MaxTransfers = 1, MaxMoves = 0
  PROVE  Spec => IsChannel
<1>1. DataInv /\ ChannelInv /\ [Next]_vars => ChannelInv' /\ [Channel!Next]_(Channel!vars)
  BY ChannelStep
<1> QED BY <1>1, InitData, NextKeeps, InitChannel, PTL DEF Spec, IsChannel, Channel!Spec

\* Of a single transfer no router dies without CRASH, unless its ID is 0.
THEOREM OnlyID0Kills ==
  ASSUME MaxTransfers = 1, MaxMoves = 0
  PROVE  Spec => []DiesOfID0
<1>1. DataInv /\ ChannelInv /\ [Next]_vars => ChannelInv' /\ (DiesOfID0 => DiesOfID0')
  BY ChannelStep
<1> QED BY <1>1, InitData, NextKeeps, InitChannel, PTL DEF Spec
\* What SENDFILE-STATS answers at the routers on the way of a single file agrees, through
\* any routers, with any length and TTL, whatever fails: each router has noted a beginning
\* of what the one before it has, and a TTL of one less.
THEOREM StatisticsAgree ==
  ASSUME MaxTransfers = 1, MaxMoves = 0
  PROVE  Spec => []TrailsAgree
<1>1. DataInv /\ ChannelInv /\ [Next]_vars => ChannelInv'
  BY ChannelStep
<1>2. DataInv /\ ChannelInv => TrailsAgree
  BY TrailsFollow
<1> QED BY <1>1, <1>2, InitData, NextKeeps, InitChannel, PTL DEF Spec
=============================================================================
