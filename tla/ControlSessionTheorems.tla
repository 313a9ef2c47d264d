----------------------- MODULE ControlSessionTheorems -----------------------
(***************************************************************************)
(* For any controllers, commands and lengths: a router takes each command  *)
(* as it was written, answers it in its turn (it implements Dialogue), and *)
(* is stopped by controllers for the named reasons only.                   *)
(*                                                                         *)
(* The invariant is about the units of a connection that are not yet part  *)
(* of a command the router has performed: those recvALL has, those that    *)
(* have arrived and those the controller has still to send.  Together they *)
(* are the commands not taken yet, one behind the other.                   *)
(***************************************************************************)
EXTENDS ControlSession, SequenceTheorems, TLAPS

-----------------------------------------------------------------------------
(***************************************************************************)
(* Sequences of units that are commands, one behind the other.             *)
(***************************************************************************)

Size(k) == HeaderUnits + PayloadUnits[k]
Unit == AnyCommand \X Nat

\* The units of k are those behind place at; a place that is not positive stands
\* for a unit that has gone before.
Lies(units, at, k) ==
    \A i \in 1 .. Size(k) : at + i > 0 => units[at + i] = <<k, i>>

\* at[m] is the place where command m ends and the next one begins; some units of
\* the first command have passed.
Places(units, passed, cmds) ==
    {at \in [0 .. Len(cmds) -> Int] :
        /\ at[0] = -passed
        /\ at[Len(cmds)] = Len(units)
        /\ \A m \in 1 .. Len(cmds) :
            /\ at[m] = at[m - 1] + Size(cmds[m])
            /\ at[m] <= Len(units)
            /\ Lies(units, at[m - 1], cmds[m])}

Framed(units, passed, cmds) == Places(units, passed, cmds) # {}

LEMMA SizeIsPositive ==
  ASSUME NEW k \in AnyCommand
  PROVE  /\ Size(k) \in Nat /\ Size(k) >= HeaderUnits /\ Size(k) >= 1
         /\ PayloadUnits[k] \in Nat /\ HeaderUnits \in Nat
         /\ Size(k) = HeaderUnits + PayloadUnits[k]
BY SessionAssumption DEF Size

LEMMA UnitsOfCommand ==
  ASSUME NEW k \in AnyCommand
  PROVE  /\ Units(k) \in Seq(Unit) /\ Len(Units(k)) = Size(k)
         /\ \A i \in 1 .. Size(k) : Units(k)[i] = <<k, i>>
<1>1. Units(k) = [i \in 1 .. Size(k) |-> <<k, i>>]
  BY DEF Units, Size
<1>2. \A i \in 1 .. Size(k) : <<k, i>> \in Unit
  BY SizeIsPositive DEF Unit
<1>3. Size(k) \in Nat
  BY SizeIsPositive
<1>4. Units(k) \in [1 .. Size(k) -> Unit]
  BY <1>1, <1>2
<1> QED BY <1>1, <1>3, <1>4

LEMMA FramedEmpty == Framed(<<>>, 0, <<>>)
<1> DEFINE at == [m \in 0 .. 0 |-> 0]
<1>1. at \in Places(<<>>, 0, <<>>)
  BY DEF Places
<1> QED BY <1>1 DEF Framed

LEMMA FramedAppend ==
  ASSUME NEW units \in Seq(Unit), NEW passed \in Nat,
         NEW cmds \in Seq(AnyCommand), NEW k \in AnyCommand,
         Framed(units, passed, cmds)
  PROVE  Framed(units \o Units(k), passed, Append(cmds, k))
<1> DEFINE n == Len(cmds)
           longer == units \o Units(k)
           more == Append(cmds, k)
<1>1. PICK at \in [0 .. n -> Int] : at \in Places(units, passed, cmds)
  BY DEF Framed, Places
<1>2. /\ n \in Nat /\ Len(units) \in Nat
      /\ longer \in Seq(Unit) /\ Len(longer) = Len(units) + Size(k)
      /\ \A i \in 1 .. Len(units) : longer[i] = units[i]
      /\ \A i \in 1 .. Size(k) : longer[Len(units) + i] = <<k, i>>
  <2>1. /\ n \in Nat /\ Len(units) \in Nat /\ Size(k) \in Nat
        /\ Units(k) \in Seq(Unit) /\ Len(Units(k)) = Size(k)
    BY UnitsOfCommand, SizeIsPositive
  <2>2. /\ longer \in Seq(Unit) /\ Len(longer) = Len(units) + Size(k)
        /\ \A i \in 1 .. Len(units) + Size(k) : longer[i] =
              IF i <= Len(units) THEN units[i] ELSE Units(k)[i - Len(units)]
    BY <2>1, ConcatProperties
  <2> HIDE DEF longer, n
  <2>3. \A i \in 1 .. Len(units) : longer[i] = units[i]
    BY <2>1, <2>2
  <2>4. ASSUME NEW i \in 1 .. Size(k) PROVE longer[Len(units) + i] = <<k, i>>
    <3>1. longer[Len(units) + i] = Units(k)[(Len(units) + i) - Len(units)]
      BY <2>1, <2>2
    <3>2. (Len(units) + i) - Len(units) = i
      BY <2>1
    <3> QED BY <3>1, <3>2, UnitsOfCommand
  <2> QED BY <2>1, <2>2, <2>3, <2>4
<1>3. /\ Len(more) = n + 1 /\ more[n + 1] = k
      /\ \A m \in 1 .. n : more[m] = cmds[m] /\ cmds[m] \in AnyCommand
  BY <1>2
<1> DEFINE to == [m \in 0 .. n + 1 |-> IF m <= n THEN at[m] ELSE Len(longer)]
<1>4. /\ to \in [0 .. n + 1 -> Int]
      /\ to[0] = -passed /\ to[n + 1] = Len(longer)
      /\ \A m \in 0 .. n : to[m] = at[m] /\ m \in 0 .. n + 1 /\ at[m] \in Int
  <2>1. Len(longer) \in Int /\ n \in Nat
    BY <1>2
  <2>2. at[0] = -passed
    BY <1>1 DEF Places
  <2> HIDE DEF n, longer
  <2> QED BY <1>1, <2>1, <2>2
<1>5. ASSUME NEW m \in 1 .. n + 1
      PROVE  /\ to[m] = to[m - 1] + Size(more[m])
             /\ to[m] <= Len(longer)
             /\ Lies(longer, to[m - 1], more[m])
  <2>1. CASE m = n + 1
    <3>1. to[m - 1] = Len(units)
      BY <1>1, <1>2, <1>4, <2>1 DEF Places
    <3>2. Lies(longer, to[m - 1], more[m])
      BY <1>2, <1>3, <2>1, <3>1 DEF Lies
    <3> QED BY <1>2, <1>3, <1>4, <2>1, <3>1, <3>2, SizeIsPositive
  <2>2. CASE m \in 1 .. n
    <3>1. m - 1 \in 0 .. n /\ m \in 0 .. n
      BY <1>2, <2>2
    <3>2. /\ at[m] = at[m - 1] + Size(cmds[m]) /\ at[m] <= Len(units)
          /\ Lies(units, at[m - 1], cmds[m])
      BY <1>1, <2>2 DEF Places
    <3>3. more[m] = cmds[m] /\ Size(cmds[m]) \in Nat
      BY <1>3, <2>2, SizeIsPositive
    <3>4. Lies(longer, at[m - 1], cmds[m])
      <4> SUFFICES ASSUME NEW i \in 1 .. Size(cmds[m]), at[m - 1] + i > 0
                   PROVE  longer[at[m - 1] + i] = <<cmds[m], i>>
        BY DEF Lies
      <4>1. at[m - 1] + i \in 1 .. Len(units)
        <5>1. at[m - 1] \in Int /\ Len(units) \in Nat /\ Size(cmds[m]) \in Nat
          BY <1>2, <1>4, <3>1, <3>3
        <5> HIDE DEF n, to, longer, more
        <5> QED BY <3>2, <5>1
      <4> QED BY <1>2, <3>2, <4>1 DEF Lies
    <3>5. to[m] = at[m] /\ to[m - 1] = at[m - 1] /\ at[m] \in Int
      BY <1>4, <3>1
    <3> HIDE DEF to, longer, more
    <3>6. to[m] <= Len(longer)
      BY <1>2, <3>2, <3>5, SizeIsPositive
    <3> QED BY <3>2, <3>3, <3>4, <3>5, <3>6
  <2> QED BY <1>2, <2>1, <2>2
<1>6. to \in Places(longer, passed, more)
  <2> HIDE DEF to, longer, more, n
  <2> QED BY <1>3, <1>4, <1>5 DEF Places
<1> QED BY <1>6 DEF Framed

LEMMA FramedFirst ==
  ASSUME NEW units \in Seq(Unit), NEW passed \in Nat,
         NEW cmds \in Seq(AnyCommand), Framed(units, passed, cmds)
  PROVE  /\ units # <<>> => cmds # <<>>
         /\ cmds # <<>> =>
              /\ passed + Len(units) >= Size(cmds[1])
              /\ \A i \in 1 .. Size(cmds[1]) :
                    i > passed => units[i - passed] = <<cmds[1], i>>
<1>1. PICK at \in [0 .. Len(cmds) -> Int] : at \in Places(units, passed, cmds)
  BY DEF Framed, Places
<1>2. Len(units) \in Nat /\ Len(cmds) \in Nat /\ at[0] = -passed
  BY <1>1 DEF Places
<1>3. units # <<>> => cmds # <<>>
  <2>1. cmds = <<>> => Len(cmds) = 0
    OBVIOUS
  <2>2. at[Len(cmds)] = Len(units)
    BY <1>1 DEF Places
  <2>3. Len(units) = 0 => units = <<>>
    BY EmptySeq
  <2> QED BY <1>2, <2>1, <2>2, <2>3
<1>4. ASSUME cmds # <<>>
      PROVE  /\ passed + Len(units) >= Size(cmds[1])
             /\ \A i \in 1 .. Size(cmds[1]) :
                   i > passed => units[i - passed] = <<cmds[1], i>>
  <2>1. 1 \in 1 .. Len(cmds) /\ cmds[1] \in AnyCommand
    BY <1>2, <1>4, EmptySeq
  <2>2. Size(cmds[1]) \in Nat
    BY <2>1, SizeIsPositive
  <2>3. 1 - 1 = 0
    OBVIOUS
  <2>4. /\ at[1] = at[0] + Size(cmds[1]) /\ at[1] <= Len(units)
        /\ Lies(units, at[0], cmds[1])
    BY <1>1, <2>1, <2>3 DEF Places
  <2>5. passed + Len(units) >= Size(cmds[1])
    BY <1>2, <2>2, <2>4
  <2>6. ASSUME NEW i \in 1 .. Size(cmds[1]), i > passed
        PROVE  units[i - passed] = <<cmds[1], i>>
    <3>1. at[0] + i > 0 /\ at[0] + i = i - passed
      BY <1>2, <2>2, <2>6
    <3> QED BY <2>4, <2>6, <3>1 DEF Lies
  <2> QED BY <2>5, <2>6
<1> QED BY <1>3, <1>4

\* The first h units have passed, too.
LEMMA FramedPass ==
  ASSUME NEW units \in Seq(Unit), NEW passed \in Nat,
         NEW cmds \in Seq(AnyCommand), Framed(units, passed, cmds),
         NEW h \in 0 .. Len(units)
  PROVE  Framed(SubSeq(units, h + 1, Len(units)), passed + h, cmds)
<1> DEFINE n == Len(cmds)
           shorter == SubSeq(units, h + 1, Len(units))
<1>1. PICK at \in [0 .. n -> Int] : at \in Places(units, passed, cmds)
  BY DEF Framed, Places
<1>2. /\ n \in Nat /\ Len(units) \in Nat /\ h \in Nat /\ h <= Len(units)
      /\ at[0] = -passed /\ at[n] = Len(units) /\ at[n] \in Int
  BY <1>1 DEF Places
<1>3. /\ Len(shorter) = Len(units) - h
      /\ \A i \in 1 .. Len(units) - h : shorter[i] = units[h + i]
  <2>1. \A i \in h + 1 .. Len(units) : units[i] \in Unit
    BY <1>2
  <2>2. /\ Len(shorter) = IF h + 1 <= Len(units) THEN Len(units) - (h + 1) + 1 ELSE 0
        /\ \A i \in 1 .. Len(units) - (h + 1) + 1 : shorter[i] = units[(h + 1) + i - 1]
    BY <1>2, <2>1, SubSeqProperties
  <2> HIDE DEF shorter
  <2>3. Len(shorter) = Len(units) - h
    BY <1>2, <2>2
  <2>4. ASSUME NEW i \in 1 .. Len(units) - h PROVE shorter[i] = units[h + i]
    <3>1. i \in 1 .. Len(units) - (h + 1) + 1 /\ (h + 1) + i - 1 = h + i
      BY <1>2
    <3> QED BY <2>2, <3>1
  <2> QED BY <2>3, <2>4
<1> DEFINE to == [m \in 0 .. n |-> at[m] - h]
<1>4. /\ to \in [0 .. n -> Int]
      /\ \A m \in 0 .. n : to[m] = at[m] - h /\ at[m] \in Int
  BY <1>1, <1>2
<1> HIDE DEF to, shorter
<1>5. to[0] = -(passed + h) /\ to[n] = Len(shorter)
  <2>1. 0 \in 0 .. n /\ n \in 0 .. n
    BY <1>2
  <2>2. to[0] = at[0] - h /\ to[n] = at[n] - h
    BY <1>4, <2>1
  <2> HIDE DEF n
  <2>3. (-passed) - h = -(passed + h)
    BY <1>2
  <2> QED BY <1>2, <1>3, <2>2, <2>3
<1>6. ASSUME NEW m \in 1 .. n
      PROVE  /\ to[m] = to[m - 1] + Size(cmds[m])
             /\ to[m] <= Len(shorter)
             /\ Lies(shorter, to[m - 1], cmds[m])
  <2>1. m - 1 \in 0 .. n /\ m \in 0 .. n
    BY <1>2
  <2>2. /\ at[m] = at[m - 1] + Size(cmds[m]) /\ at[m] <= Len(units)
        /\ Lies(units, at[m - 1], cmds[m])
    BY <1>1 DEF Places
  <2>3. cmds[m] \in AnyCommand /\ Size(cmds[m]) \in Nat
    BY <1>2, SizeIsPositive
  <2>4. /\ to[m] = at[m] - h /\ to[m - 1] = at[m - 1] - h
        /\ at[m] \in Int /\ at[m - 1] \in Int
    BY <1>4, <2>1
  <2> HIDE DEF n
  <2>5. to[m] = to[m - 1] + Size(cmds[m]) /\ to[m] <= Len(shorter)
    BY <1>2, <1>3, <2>2, <2>3, <2>4
  <2>6. ASSUME NEW i \in 1 .. Size(cmds[m]), to[m - 1] + i > 0
        PROVE  shorter[to[m - 1] + i] = <<cmds[m], i>>
    <3>1. /\ to[m - 1] + i \in 1 .. Len(units) - h
          /\ h + (to[m - 1] + i) = at[m - 1] + i /\ at[m - 1] + i > 0
      <4>1. /\ i \in Nat /\ i <= Size(cmds[m]) /\ to[m - 1] + i > 0
            /\ at[m - 1] + Size(cmds[m]) <= Len(units)
        BY <2>2, <2>3, <2>6
      <4>2. \A a \in Int : \A z, l \in Nat :
               i <= z /\ (a - h) + i > 0 /\ a + z <= l =>
                 /\ (a - h) + i \in 1 .. l - h
                 /\ h + ((a - h) + i) = a + i /\ a + i > 0
        BY <1>2, <4>1
      <4> QED BY <1>2, <2>3, <2>4, <4>1, <4>2
    <3> QED BY <1>3, <2>2, <2>6, <3>1 DEF Lies
  <2> QED BY <2>5, <2>6 DEF Lies
<1>7. to \in Places(shorter, passed + h, cmds)
  BY <1>4, <1>5, <1>6 DEF Places
<1> QED BY <1>7 DEF Framed, shorter

\* The first command has passed as a whole.
LEMMA FramedNext ==
  ASSUME NEW units \in Seq(Unit), NEW cmds \in Seq(AnyCommand), cmds # <<>>,
         Framed(units, Size(cmds[1]), cmds)
  PROVE  Framed(units, 0, Tail(cmds))
<1> DEFINE n == Len(cmds)
           others == Tail(cmds)
<1>1. PICK at \in [0 .. n -> Int] : at \in Places(units, Size(cmds[1]), cmds)
  BY DEF Framed, Places
<1>2. /\ n \in Nat /\ n >= 1 /\ Len(units) \in Nat
      /\ at[0] = -Size(cmds[1]) /\ at[n] = Len(units)
  BY <1>1, EmptySeq DEF Places
<1>3. /\ Len(others) = n - 1
      /\ \A m \in 1 .. n - 1 : others[m] = cmds[m + 1]
  BY HeadTailProperties
<1> DEFINE to == [m \in 0 .. n - 1 |-> at[m + 1]]
<1>4. /\ to \in [0 .. n - 1 -> Int]
      /\ \A m \in 0 .. n - 1 : to[m] = at[m + 1]
  BY <1>1, <1>2
<1> HIDE DEF to, others
<1>5. \A m \in 1 .. n :
        /\ at[m] = at[m - 1] + Size(cmds[m]) /\ at[m] <= Len(units)
        /\ Lies(units, at[m - 1], cmds[m])
  BY <1>1 DEF Places
<1>6. to[0] = -0 /\ to[n - 1] = Len(units)
  <2>1. cmds[1] \in AnyCommand /\ Size(cmds[1]) \in Nat
    BY <1>2, SizeIsPositive
  <2>2. 1 \in 1 .. n /\ 1 - 1 = 0 /\ 0 + 1 = 1 /\ (n - 1) + 1 = n
        /\ 0 \in 0 .. n - 1 /\ n - 1 \in 0 .. n - 1
    BY <1>2
  <2>3. at[1] = at[0] + Size(cmds[1])
    BY <1>5, <2>2
  <2> HIDE DEF n
  <2>4. to[0] = at[1] /\ to[n - 1] = at[n]
    BY <1>4, <2>2
  <2> QED BY <1>2, <2>1, <2>3, <2>4
<1>7. ASSUME NEW m \in 1 .. n - 1
      PROVE  /\ to[m] = to[m - 1] + Size(others[m])
             /\ to[m] <= Len(units)
             /\ Lies(units, to[m - 1], others[m])
  <2>1. /\ m + 1 \in 1 .. n /\ m \in 0 .. n - 1 /\ m - 1 \in 0 .. n - 1
        /\ (m + 1) - 1 = m /\ (m - 1) + 1 = m
    BY <1>2
  <2> HIDE DEF n
  <2> QED BY <1>3, <1>4, <1>5, <2>1
<1>8. to \in Places(units, 0, others)
  BY <1>3, <1>4, <1>6, <1>7 DEF Places
<1> QED BY <1>8 DEF Framed, others

-----------------------------------------------------------------------------
(***************************************************************************)
(* Sequences.                                                              *)
(***************************************************************************)

LEMMA RestOfConcat ==
  ASSUME NEW S, NEW s \in Seq(S), NEW t \in Seq(S)
  PROVE  SubSeq(s \o t, Len(s) + 1, Len(s \o t)) = t
<1> DEFINE u == SubSeq(s \o t, Len(s) + 1, Len(s \o t))
<1>1. /\ Len(s) \in Nat /\ Len(t) \in Nat
      /\ s \o t \in Seq(S) /\ Len(s \o t) = Len(s) + Len(t)
  BY ConcatProperties
<1>2. CASE Len(t) = 0
  <2>1. t = <<>>
    BY <1>2, EmptySeq
  <2>2. u = <<>>
    BY <1>1, <1>2, SubSeqEmpty
  <2> QED BY <2>1, <2>2
<1>3. CASE Len(t) > 0
  <2>1. /\ Len(s) + 1 \in Len(s) + 1 .. Len(s) + Len(t)
        /\ Len(s) + Len(t) \in Len(s) + 1 .. Len(s) + Len(t)
        /\ (Len(s) + 1) - Len(s) = 1 /\ (Len(s) + Len(t)) - Len(s) = Len(t)
    BY <1>1, <1>3
  <2>2. u = SubSeq(t, 1, Len(t))
    BY <1>1, <2>1, SubSeqOfConcat2
  <2> QED BY <2>2, SubSeqFull
<1> QED BY <1>1, <1>2, <1>3

LEMMA CutInTwo ==
  ASSUME NEW S, NEW s \in Seq(S), NEW n \in 0 .. Len(s)
  PROVE  /\ SubSeq(s, 1, n) \in Seq(S) /\ Len(SubSeq(s, 1, n)) = n
         /\ SubSeq(s, n + 1, Len(s)) \in Seq(S)
         /\ Len(SubSeq(s, n + 1, Len(s))) = Len(s) - n
         /\ SubSeq(s, 1, n) \o SubSeq(s, n + 1, Len(s)) = s
<1>1. Len(s) \in Nat /\ n \in Nat /\ n <= Len(s)
  OBVIOUS
<1>2. /\ 1 \in 1 .. Len(s) + 1 /\ n \in 1 - 1 .. Len(s) /\ Len(s) \in n .. Len(s)
  BY <1>1
<1>3. SubSeq(s, 1, n) \o SubSeq(s, n + 1, Len(s)) = SubSeq(s, 1, Len(s))
  BY <1>2, ConcatAdjacentSubSeq
<1>4. \A i \in 1 .. n : s[i] \in S
  BY <1>1
<1>5. SubSeq(s, 1, n) \in Seq(S) /\ Len(SubSeq(s, 1, n)) = n
  BY <1>1, <1>4, SubSeqProperties
<1>6. \A i \in n + 1 .. Len(s) : s[i] \in S
  BY <1>1
<1>7. /\ SubSeq(s, n + 1, Len(s)) \in Seq(S)
      /\ Len(SubSeq(s, n + 1, Len(s))) = Len(s) - n
  BY <1>1, <1>6, SubSeqProperties
<1> QED BY <1>3, <1>5, <1>7, SubSeqFull

\* The first element of t goes to the end of s.
LEMMA MoveOne ==
  ASSUME NEW S, NEW s \in Seq(S), NEW t \in Seq(S), t # <<>>
  PROVE  /\ Append(s, Head(t)) \in Seq(S) /\ Tail(t) \in Seq(S)
         /\ Append(s, Head(t)) \o Tail(t) = s \o t
<1>1. Head(t) \in S /\ Tail(t) \in Seq(S) /\ <<Head(t)>> \in Seq(S)
  BY HeadTailProperties
<1>2. Append(s, Head(t)) = s \o <<Head(t)>> /\ Append(s, Head(t)) \in Seq(S)
  BY <1>1, AppendIsConcat, AppendProperties
<1>3. Len(t) \in Nat /\ Len(t) >= 1
  BY EmptySeq
<1>4. /\ 1 \in 1 .. Len(t) /\ Len(t) \in 1 .. Len(t) /\ 1 + 1 = 2
  BY <1>3
<1>5. t = <<t[1]>> \o SubSeq(t, 2, Len(t))
  BY <1>4, SubSeqRecursiveFirst, SubSeqFull
<1>6. t = <<Head(t)>> \o Tail(t)
  BY <1>5, TailIsSubSeq
<1>7. (s \o <<Head(t)>>) \o Tail(t) = s \o (<<Head(t)>> \o Tail(t))
  BY <1>1, ConcatAssociative
<1> QED BY <1>1, <1>2, <1>6, <1>7, Zenon

\* What is asked and not yet taken, when something more is.
LEMMA AppendedLater ==
  ASSUME NEW S, NEW s \in Seq(S), NEW k \in S, NEW n \in 0 .. Len(s)
  PROVE  SubSeq(Append(s, k), n + 1, Len(Append(s, k)))
            = Append(SubSeq(s, n + 1, Len(s)), k)
<1> DEFINE a == SubSeq(s, 1, n)
           b == SubSeq(s, n + 1, Len(s))
<1>1. a \in Seq(S) /\ Len(a) = n /\ b \in Seq(S) /\ a \o b = s
  BY CutInTwo
<1>2. Append(b, k) \in Seq(S) /\ Append(b, k) = b \o <<k>>
  BY <1>1, AppendProperties, AppendIsConcat
<1>3. Append(s, k) = s \o <<k>> /\ <<k>> \in Seq(S)
  BY AppendIsConcat
<1> HIDE DEF a, b
<1>4. Append(s, k) = a \o Append(b, k)
  <2>1. (a \o b) \o <<k>> = a \o (b \o <<k>>)
    BY <1>1, <1>3, ConcatAssociative
  <2> QED BY <1>1, <1>2, <1>3, <2>1
<1>5. SubSeq(a \o Append(b, k), Len(a) + 1, Len(a \o Append(b, k))) = Append(b, k)
  BY <1>1, <1>2, RestOfConcat
<1> QED BY <1>1, <1>4, <1>5 DEF b

-----------------------------------------------------------------------------
(***************************************************************************)
(* The invariant.                                                          *)
(***************************************************************************)

Got(c) == IF reader.conn = {c} THEN reader.got ELSE <<>>
Passed(c) == IF reader.conn = {c} /\ reader.command # {} THEN HeaderUnits ELSE 0

\* The units of c that no command has been made of yet, and the commands they are.
Pending(c) == Got(c) \o (stream[c] \o rest[c])
Waiting(c) == SubSeq(asked[c], taken[c] + 1, Len(asked[c]))

Answers == [to : Ctl, code : AnyCommand]

Shape ==
    /\ up \in {"on", "exited", "hung", "dead"} /\ keepsNext \in BOOLEAN
    /\ peer \in [Ctl -> {"none", "here", "fin", "reset", "finreset"}]
    /\ fd \in [Ctl -> {"none", "backlog", "watched", "closed"}]
    /\ asked \in [Ctl -> Seq(Command)] /\ taken \in [Ctl -> Nat]
    /\ answers \in [Ctl -> Seq(Answers)]
    /\ stream \in [Ctl -> Seq(Unit)] /\ rest \in [Ctl -> Seq(Unit)]
    /\ \A c \in Ctl :
        /\ taken[c] <= Len(asked[c]) /\ Len(answers[c]) <= taken[c]
        /\ peer[c] = "none" => fd[c] = "none"
    /\ listed \subseteq {c \in Ctl : fd[c] = "watched"}

\* The header that is read has a payload of its own, or is the whole command.
HeaderIsAll(got) == Len(got) = HeaderUnits => PayloadUnits[CodeOf(got)] = 0

Reading(c) ==
    /\ reader.conn = {c}
    /\ reader \in [conn : SUBSET Ctl, command : SUBSET AnyCommand, got : Seq(Unit)]
    /\ \/ /\ reader.command = {}
          /\ Len(reader.got) <= HeaderUnits /\ HeaderIsAll(reader.got)
       \/ \E k \in AnyCommand :
             /\ reader.command = {k} /\ PayloadUnits[k] > 0
             /\ Len(reader.got) <= PayloadUnits[k]

ReaderOK == reader = NoReader \/ \E c \in listed : Reading(c)

Orderly(c) ==
    /\ Framed(Pending(c), Passed(c), Waiting(c))
    /\ reader.conn = {c} /\ reader.command # {} =>
         Waiting(c) # <<>> /\ reader.command = {Waiting(c)[1]}

InOrder == up = "on" => \A c \in Ctl : fd[c] # "closed" => Orderly(c)

Inv == Shape /\ ReaderOK /\ InOrder

LEMMA Types ==
  ASSUME Shape, ReaderOK, NEW c \in Ctl
  PROVE  /\ Got(c) \in Seq(Unit) /\ stream[c] \o rest[c] \in Seq(Unit)
         /\ Pending(c) \in Seq(Unit)
         /\ Passed(c) \in Nat /\ Waiting(c) \in Seq(AnyCommand)
         /\ taken[c] \in 0 .. Len(asked[c]) /\ asked[c] \in Seq(AnyCommand)
         /\ Len(Waiting(c)) = Len(asked[c]) - taken[c]
<1>1. stream[c] \in Seq(Unit) /\ rest[c] \in Seq(Unit)
      /\ asked[c] \in Seq(Command) /\ taken[c] \in Nat /\ taken[c] <= Len(asked[c])
  BY DEF Shape
<1>2. asked[c] \in Seq(AnyCommand)
  BY <1>1, SessionAssumption, SeqMonotonic
<1>3. taken[c] \in 0 .. Len(asked[c])
  BY <1>1
<1>4. Waiting(c) \in Seq(AnyCommand) /\ Len(Waiting(c)) = Len(asked[c]) - taken[c]
  BY <1>2, <1>3, CutInTwo DEF Waiting
<1>5. Got(c) \in Seq(Unit)
  <2>1. NoReader.got = <<>>
    BY DEF NoReader
  <2>2. <<>> \in Seq(Unit)
    BY EmptySeq
  <2> QED BY <2>1, <2>2 DEF Got, ReaderOK, Reading
<1>6. stream[c] \o rest[c] \in Seq(Unit)
  BY <1>1, ConcatProperties
<1>7. Pending(c) \in Seq(Unit)
  BY <1>5, <1>6, ConcatProperties DEF Pending
<1>8. Passed(c) \in Nat
  BY SessionAssumption DEF Passed
<1> QED BY <1>2, <1>3, <1>4, <1>5, <1>6, <1>7, <1>8

\* A connection of which nothing changes stays in order.
LEMMA SameOrder ==
  ASSUME NEW c \in Ctl, Orderly(c),
         stream'[c] \o rest'[c] = stream[c] \o rest[c],
         asked'[c] = asked[c], taken'[c] = taken[c],
         \/ reader' = reader
         \/ c \notin {d \in Ctl : reader.conn = {d} \/ reader'.conn = {d}}
  PROVE  Orderly(c)'
<1>1. Waiting(c)' = Waiting(c)
  BY DEF Waiting
<1>2. Got(c)' = Got(c) /\ Passed(c)' = Passed(c)
  BY DEF Got, Passed
<1>3. Pending(c)' = Pending(c)
  BY <1>2 DEF Pending
<1> QED BY <1>1, <1>2, <1>3 DEF Orderly

LEMMA InitInv == Init => Inv
<1> SUFFICES ASSUME Init PROVE Inv
  OBVIOUS
<1>1. Shape
  <2>1. <<>> \in Seq(Command) /\ <<>> \in Seq(Answers) /\ <<>> \in Seq(Unit)
    BY EmptySeq
  <2> QED BY <2>1 DEF Init, Shape
<1>2. ReaderOK
  BY DEF Init, ReaderOK
<1>3. ASSUME NEW c \in Ctl PROVE Orderly(c)
  <2>1. reader.conn = {} /\ asked[c] = <<>> /\ taken[c] = 0
        /\ stream[c] = <<>> /\ rest[c] = <<>>
    BY DEF Init, NoReader
  <2>2. Waiting(c) = <<>>
    BY <2>1, SubSeqEmpty DEF Waiting
  <2>3. Got(c) = <<>> /\ Passed(c) = 0
    BY <2>1 DEF Got, Passed
  <2>4. Pending(c) = <<>>
    BY <2>1, <2>3 DEF Pending
  <2> QED BY <2>1, <2>2, <2>3, <2>4, FramedEmpty DEF Orderly
<1> QED BY <1>1, <1>2, <1>3 DEF Inv, InOrder

\* The reader stays as it is when its variable and the list do.
LEMMA SameReader ==
  ASSUME ReaderOK, UNCHANGED reader, listed \subseteq listed'
  PROVE  ReaderOK'
BY DEF ReaderOK, Reading

LEMMA ConnectKept == \A c \in Ctl : Inv /\ Connect(c) => Inv'
<1> SUFFICES ASSUME NEW c \in Ctl, Inv, Connect(c) PROVE Inv'
  OBVIOUS
<1> USE DEF Connect, process, done
<1>1. Shape'
  BY DEF Inv, Shape
<1>2. ReaderOK'
  BY SameReader DEF Inv
<1>3. InOrder'
  <2> SUFFICES ASSUME up' = "on", NEW d \in Ctl, fd'[d] # "closed" PROVE Orderly(d)'
    BY DEF InOrder
  <2>1. fd[d] # "closed"
    BY DEF Inv, Shape
  <2>2. Orderly(d)
    BY <2>1 DEF Inv, InOrder
  <2> QED BY <2>2, SameOrder
<1> QED BY <1>1, <1>2, <1>3 DEF Inv

LEMMA HangUpKept == \A c \in Ctl : Inv /\ HangUp(c) => Inv'
<1> SUFFICES ASSUME NEW c \in Ctl, Inv, HangUp(c) PROVE Inv'
  OBVIOUS
<1> USE DEF HangUp, process, done
<1>1. Shape'
  BY DEF Inv, Shape
<1>2. ReaderOK'
  BY SameReader DEF Inv
<1>3. InOrder'
  BY SameOrder DEF Inv, InOrder
<1> QED BY <1>1, <1>2, <1>3 DEF Inv

LEMMA AcceptKept == \A c \in Ctl : Inv /\ Accept(c) => Inv'
<1> SUFFICES ASSUME NEW c \in Ctl, Inv, Accept(c) PROVE Inv'
  OBVIOUS
<1> USE DEF Accept, process, done, controller
<1>1. Shape'
  BY DEF Inv, Shape
<1>2. ReaderOK'
  BY SameReader DEF Inv
<1>3. InOrder'
  <2> SUFFICES ASSUME up' = "on", NEW d \in Ctl, fd'[d] # "closed" PROVE Orderly(d)'
    BY DEF InOrder
  <2>1. fd[d] # "closed"
    BY DEF Inv, Shape
  <2>2. Orderly(d)
    BY <2>1 DEF Inv, InOrder
  <2> QED BY <2>2, SameOrder
<1> QED BY <1>1, <1>2, <1>3 DEF Inv

LEMMA StrayKept == \A c \in Ctl : Inv /\ (Stray(c) \/ RecvForEver(c)) => Inv'
<1> SUFFICES ASSUME NEW c \in Ctl, Inv, Stray(c) \/ RecvForEver(c) PROVE Inv'
  OBVIOUS
<1> USE DEF Stray, RecvForEver, controller, done
<1>1. Shape'
  BY DEF Inv, Shape
<1>2. ReaderOK'
  BY SameReader DEF Inv
<1> QED BY <1>1, <1>2 DEF Inv, InOrder

LEMMA ArriveKept == \A c \in Ctl : Inv /\ Arrive(c) => Inv'
<1> SUFFICES ASSUME NEW c \in Ctl, Inv, Arrive(c) PROVE Inv'
  OBVIOUS
<1>1. /\ stream[c] \in Seq(Unit) /\ rest[c] \in Seq(Unit) /\ rest[c] # <<>>
      /\ stream \in [Ctl -> Seq(Unit)] /\ rest \in [Ctl -> Seq(Unit)]
  BY DEF Inv, Shape, Arrive
<1>2. /\ Append(stream[c], Head(rest[c])) \in Seq(Unit) /\ Tail(rest[c]) \in Seq(Unit)
      /\ Append(stream[c], Head(rest[c])) \o Tail(rest[c]) = stream[c] \o rest[c]
  BY <1>1, MoveOne
<1>3. /\ UNCHANGED <<process, peer, asked, fd, listed, reader, done>>
      /\ stream' = [stream EXCEPT ![c] = Append(stream[c], Head(rest[c]))]
      /\ rest' = [rest EXCEPT ![c] = Tail(rest[c])]
  BY DEF Arrive
<1>4. Shape'
  BY <1>1, <1>2, <1>3 DEF Inv, Shape, process, done
<1>5. ReaderOK'
  BY <1>3, SameReader DEF Inv
<1>6. \A d \in Ctl : stream'[d] \o rest'[d] = stream[d] \o rest[d]
  BY <1>1, <1>2, <1>3
<1>7. InOrder'
  BY <1>3, <1>6, SameOrder DEF Inv, InOrder, process, done
<1> QED BY <1>4, <1>5, <1>7 DEF Inv

LEMMA AskKept == \A c \in Ctl, k \in Command : Inv /\ Ask(c, k) => Inv'
<1> SUFFICES ASSUME NEW c \in Ctl, NEW k \in Command, Inv, Ask(c, k) PROVE Inv'
  OBVIOUS
<1>1. k \in AnyCommand /\ Units(k) \in Seq(Unit)
  BY SessionAssumption, UnitsOfCommand
<1>2. /\ UNCHANGED <<process, peer, stream, fd, listed, reader, done>>
      /\ rest[c] = <<>>
      /\ asked' = [asked EXCEPT ![c] = Append(asked[c], k)]
      /\ rest' = [rest EXCEPT ![c] = Units(k)]
  BY DEF Ask
<1>3. /\ asked \in [Ctl -> Seq(Command)] /\ rest \in [Ctl -> Seq(Unit)]
      /\ asked[c] \in Seq(Command)
      /\ Append(asked[c], k) \in Seq(Command)
      /\ Len(Append(asked[c], k)) = Len(asked[c]) + 1
      /\ taken[c] \in Nat /\ Len(asked[c]) \in Nat
  BY AppendProperties DEF Inv, Shape
<1>4. Shape'
  <2>1. asked' \in [Ctl -> Seq(Command)] /\ rest' \in [Ctl -> Seq(Unit)]
    BY <1>1, <1>2, <1>3
  <2>2. \A d \in Ctl : taken[d] <= Len(asked[d]) /\ taken[d] \in Nat
    BY DEF Inv, Shape
  <2>3. \A d \in Ctl : taken[d] <= Len(asked'[d])
    BY <1>2, <1>3, <2>2
  <2> QED BY <1>2, <2>1, <2>3 DEF Inv, Shape, process, done
<1>5. ReaderOK'
  BY <1>2, SameReader DEF Inv
<1>6. ASSUME Orderly(c) PROVE Orderly(c)'
  <2>1. /\ Pending(c) \in Seq(Unit) /\ Passed(c) \in Nat /\ Got(c) \in Seq(Unit)
        /\ Waiting(c) \in Seq(AnyCommand) /\ stream[c] \in Seq(Unit)
        /\ taken[c] \in 0 .. Len(asked[c]) /\ asked[c] \in Seq(AnyCommand)
    BY Types DEF Inv, Shape
  <2>2. Waiting(c)' = Append(Waiting(c), k)
    BY <1>1, <1>2, <1>3, <2>1, AppendedLater DEF Waiting, done
  <2>3. Pending(c) = Got(c) \o stream[c]
    BY <1>2, <2>1, ConcatEmptySeq DEF Pending
  <2>4. Pending(c)' = Got(c) \o (stream[c] \o Units(k))
    BY <1>2, <1>3 DEF Pending, Got
  <2>5. (Got(c) \o stream[c]) \o Units(k) = Got(c) \o (stream[c] \o Units(k))
    <3>1. \A a, b, d \in Seq(Unit) : (a \o b) \o d = a \o (b \o d)
      BY ConcatAssociative
    <3> QED BY <1>1, <2>1, <3>1, Zenon
  <2>6. Pending(c)' = Pending(c) \o Units(k) /\ Passed(c)' = Passed(c)
    BY <1>2, <2>3, <2>4, <2>5 DEF Passed
  <2>7. Framed(Pending(c), Passed(c), Waiting(c))' 
    BY <1>1, <1>6, <2>1, <2>2, <2>6, FramedAppend DEF Orderly
  <2>8. Waiting(c) # <<>> =>
          Append(Waiting(c), k) # <<>> /\ Append(Waiting(c), k)[1] = Waiting(c)[1]
    BY <1>1, <2>1, AppendProperties, EmptySeq
  <2> QED BY <1>2, <1>6, <2>2, <2>7, <2>8 DEF Orderly
<1>7. ASSUME NEW d \in Ctl, d # c, Orderly(d) PROVE Orderly(d)'
  <2>1. rest'[d] = rest[d] /\ asked'[d] = asked[d]
    BY <1>2, <1>3, <1>7
  <2> QED BY <1>2, <1>7, <2>1, SameOrder DEF done
<1>8. InOrder'
  BY <1>2, <1>6, <1>7 DEF Inv, InOrder, process
<1> QED BY <1>4, <1>5, <1>8 DEF Inv

LEMMA BeginKept == \A c \in Ctl : Inv /\ Begin(c) => Inv'
<1> SUFFICES ASSUME NEW c \in Ctl, Inv, Begin(c) PROVE Inv'
  OBVIOUS
<1>1. /\ UNCHANGED <<process, controller, stream, fd, listed, done>>
      /\ c \in listed /\ up = "on" /\ reader = NoReader
      /\ reader' = [conn |-> {c}, command |-> {}, got |-> <<>>]
  BY DEF Begin, Idle, NoReader
<1>2. Shape'
  BY <1>1 DEF Inv, Shape, process, controller, done
<1>3. ReaderOK'
  <2>1. <<>> \in Seq(Unit) /\ Len(<<>>) = 0 /\ HeaderUnits \in Nat /\ HeaderUnits # 0
    BY EmptySeq, SessionAssumption
  <2>2. HeaderIsAll(<<>>)
    BY <2>1 DEF HeaderIsAll
  <2>3. Reading(c)'
    BY <1>1, <2>1, <2>2 DEF Reading
  <2> QED BY <1>1, <2>3 DEF ReaderOK
<1>4. ASSUME NEW d \in Ctl, Orderly(d) PROVE Orderly(d)'
  <2>1. Got(d)' = Got(d) /\ Passed(d)' = Passed(d)
    BY <1>1 DEF Got, Passed, NoReader
  <2>2. Pending(d)' = Pending(d) /\ Waiting(d)' = Waiting(d)
    BY <1>1, <2>1 DEF Pending, Waiting, controller, done
  <2>3. reader'.command = {}
    BY <1>1
  <2> QED BY <1>4, <2>1, <2>2, <2>3 DEF Orderly
<1>5. InOrder'
  BY <1>1, <1>4 DEF Inv, InOrder, process
<1> QED BY <1>2, <1>3, <1>5 DEF Inv

LEMMA RemoveKept == \A c \in Ctl : Inv /\ Remove(c) => Inv'
<1> SUFFICES ASSUME NEW c \in Ctl, Inv, Remove(c) PROVE Inv'
  OBVIOUS
<1>1. /\ UNCHANGED <<keepsNext, controller, stream, done>>
      /\ up = "on" /\ up' \in {"on", "hung", "dead"}
      /\ fd' = [fd EXCEPT ![c] = "closed"] /\ listed' = {}
      /\ reader' = NoReader /\ reader.conn = {c}
  BY DEF Remove, FreeEntries, NoMessage, AtEnd
<1>2. Shape'
  <2>1. \A d \in Ctl : peer[d] = "none" => fd'[d] = "none"
    <3>1. c \in listed
      BY <1>1 DEF Inv, ReaderOK, Reading, NoReader
    <3>2. fd[c] = "watched"
      BY <3>1 DEF Inv, Shape
    <3> QED BY <1>1, <3>2 DEF Inv, Shape
  <2>2. fd' \in [Ctl -> {"none", "backlog", "watched", "closed"}]
    BY <1>1 DEF Inv, Shape
  <2> QED BY <1>1, <2>1, <2>2 DEF Inv, Shape, controller, done
<1>3. ReaderOK'
  BY <1>1 DEF ReaderOK
<1>4. ASSUME NEW d \in Ctl, fd'[d] # "closed", Orderly(d) PROVE Orderly(d)'
  <2>1. d # c /\ reader'.conn = {}
    BY <1>1, <1>4 DEF Inv, Shape, NoReader
  <2> QED BY <1>1, <1>4, <2>1, SameOrder DEF controller, done
<1>5. \A d \in Ctl : fd'[d] # "closed" => fd[d] # "closed"
  BY <1>1 DEF Inv, Shape
<1>6. InOrder'
  BY <1>1, <1>4, <1>5 DEF Inv, InOrder
<1> QED BY <1>2, <1>3, <1>6 DEF Inv

LEMMA ConcatUnits ==
  \A s, t \in Seq(Unit) :
     /\ s \o t \in Seq(Unit) /\ Len(s \o t) = Len(s) + Len(t)
     /\ Len(s) \in Nat /\ Len(t) \in Nat
BY ConcatProperties

LEMMA ConcatInAnyWay ==
  \A s, t, u \in Seq(Unit) : (s \o t) \o u = s \o (t \o u)
BY ConcatAssociative

LEMMA CodeIsKnown == \A got : CodeOf(got) \in AnyCommand
BY DEF CodeOf, AnyCommand, Known

\* The code is read from where the header has it.
LEMMA CodeIsFirst ==
  ASSUME NEW got \in Seq(Unit), NEW q \in Seq(Unit), Len(got) >= 1,
         NEW cmds \in Seq(AnyCommand), Framed(got \o q, 0, cmds)
  PROVE  cmds # <<>> /\ CodeOf(got) = cmds[1]
<1> DEFINE units == got \o q
<1>1. /\ units \in Seq(Unit) /\ Len(units) >= 1
      /\ units[1] = got[1]
  <2>1. /\ Len(got) \in Nat /\ Len(q) \in Nat /\ got \o q \in Seq(Unit)
        /\ Len(got \o q) = Len(got) + Len(q)
        /\ \A i \in 1 .. Len(got) + Len(q) :
              (got \o q)[i] = IF i <= Len(got) THEN got[i] ELSE q[i - Len(got)]
    BY ConcatProperties
  <2>2. 1 \in 1 .. Len(got) + Len(q) /\ 1 <= Len(got) /\ Len(got \o q) >= 1
    BY <2>1
  <2> QED BY <2>1, <2>2
<1> HIDE DEF units
<1>2. /\ cmds # <<>>
      /\ \A i \in 1 .. Size(cmds[1]) : i > 0 => units[i - 0] = <<cmds[1], i>>
  <2>1. units # <<>> /\ Framed(units, 0, cmds)
    BY <1>1, EmptySeq DEF units
  <2> QED BY <1>1, <2>1, FramedFirst
<1>3. cmds[1] \in AnyCommand
  BY <1>2, EmptySeq
<1>4. 1 \in 1 .. Size(cmds[1]) /\ 1 > 0 /\ 1 - 0 = 1
  BY <1>3, SizeIsPositive
<1>5. got[1] = <<cmds[1], 1>>
  <2>1. units[1 - 0] = <<cmds[1], 1>>
    BY <1>2, <1>4
  <2> QED BY <1>1, <1>4, <2>1
<1> QED BY <1>2, <1>3, <1>5 DEF CodeOf

LEMMA MinOfTwo ==
  ASSUME NEW a \in Int, NEW b \in Int
  PROVE  Min({a, b}) \in {a, b} /\ Min({a, b}) <= a /\ Min({a, b}) <= b
<1>1. \E x \in {a, b} : \A y \in {a, b} : x <= y
  <2>1. a <= b \/ b <= a
    OBVIOUS
  <2> QED BY <2>1
<1> QED BY <1>1 DEF Min

\* Who reads is known, and in order.
LEMMA WhoReads ==
  ASSUME Inv, NEW c \in Ctl, reader.conn = {c}
  PROVE  /\ Reading(c) /\ c \in listed /\ fd[c] = "watched"
         /\ Got(c) = reader.got /\ reader.got \in Seq(Unit)
         /\ up = "on" => Orderly(c)
         /\ \/ reader.command = {} /\ Wanted = HeaderUnits /\ Passed(c) = 0
            \/ \E k \in AnyCommand :
                  /\ reader.command = {k} /\ PayloadUnits[k] > 0
                  /\ Wanted = PayloadUnits[k] /\ Passed(c) = HeaderUnits
<1>1. reader # NoReader
  BY DEF NoReader
<1>2. PICK d \in listed : Reading(d)
  BY <1>1 DEF Inv, ReaderOK
<1>3. d = c
  BY <1>2 DEF Reading
<1>4. fd[c] = "watched"
  BY <1>2, <1>3 DEF Inv, Shape
<1>5. up = "on" => Orderly(c)
  BY <1>4 DEF Inv, InOrder
<1>6. \/ reader.command = {} /\ Wanted = HeaderUnits /\ Passed(c) = 0
      \/ \E k \in AnyCommand :
            /\ reader.command = {k} /\ PayloadUnits[k] > 0
            /\ Wanted = PayloadUnits[k] /\ Passed(c) = HeaderUnits
  <2>1. CASE reader.command = {}
    BY <2>1 DEF Wanted, Passed
  <2>2. CASE reader.command # {}
    <3>1. PICK k \in AnyCommand : reader.command = {k} /\ PayloadUnits[k] > 0
      BY <1>2, <2>2 DEF Reading
    <3>2. (CHOOSE x \in {k} : TRUE) = k
      OBVIOUS
    <3>3. Wanted = PayloadUnits[k]
      BY <3>1, <3>2 DEF Wanted
    <3> QED BY <2>2, <3>1, <3>3 DEF Passed
  <2> QED BY <2>1, <2>2
<1> QED BY <1>2, <1>3, <1>4, <1>5, <1>6 DEF Got, Reading

LEMMA ReceiveKept == \A c \in Ctl : Inv /\ Receive(c) => Inv'
<1> SUFFICES ASSUME NEW c \in Ctl, Inv, Receive(c) PROVE Inv'
  OBVIOUS
<1> DEFINE n == Min({Wanted - Len(reader.got), Len(stream[c])})
           some == SubSeq(stream[c], 1, n)
           more == SubSeq(stream[c], n + 1, Len(stream[c]))
           got == reader.got \o some
<1>1. /\ UNCHANGED <<process, controller, fd, listed, done>>
      /\ up = "on" /\ reader.conn = {c} /\ n > 0
      /\ reader' = Parsed(got)
      /\ stream' = [stream EXCEPT ![c] = more]
  BY DEF Receive
<1>2. /\ Reading(c) /\ c \in listed /\ Orderly(c)
      /\ Got(c) = reader.got /\ reader.got \in Seq(Unit)
      /\ Wanted \in Nat
  BY <1>1, WhoReads, SessionAssumption
<1>3. /\ Len(reader.got) \in Nat /\ stream[c] \in Seq(Unit) /\ rest[c] \in Seq(Unit)
      /\ Len(stream[c]) \in Nat /\ stream \in [Ctl -> Seq(Unit)]
  BY <1>2 DEF Inv, Shape
<1>4. n \in 0 .. Len(stream[c]) /\ Len(reader.got) + n <= Wanted /\ n \in Nat
  <2>1. Wanted - Len(reader.got) \in Int
    BY <1>2, <1>3
  <2>2. /\ n \in {Wanted - Len(reader.got), Len(stream[c])}
        /\ n <= Wanted - Len(reader.got) /\ n <= Len(stream[c])
    <3>1. \A a, b \in Int :
            Min({a, b}) \in {a, b} /\ Min({a, b}) <= a /\ Min({a, b}) <= b
      BY MinOfTwo
    <3>2. Len(stream[c]) \in Int
      BY <1>3
    <3> QED BY <2>1, <3>1, <3>2, Zenon
  <2> HIDE DEF n
  <2> QED BY <1>1, <1>2, <1>3, <2>1, <2>2
<1>5. /\ some \in Seq(Unit) /\ Len(some) = n /\ more \in Seq(Unit)
      /\ some \o more = stream[c]
  BY <1>3, <1>4, CutInTwo
<1> HIDE DEF n, some, more
<1>6. /\ got \in Seq(Unit) /\ Len(got) = Len(reader.got) + n /\ Len(got) >= 1
  <2>1. got \in Seq(Unit) /\ Len(got) = Len(reader.got) + Len(some)
    BY <1>2, <1>5, ConcatUnits, Zenon
  <2> HIDE DEF got
  <2> QED BY <1>1, <1>3, <1>4, <1>5, <2>1
<1>7. got \o (more \o rest[c]) = Pending(c)
  <2>1. /\ reader.got \in Seq(Unit) /\ some \in Seq(Unit)
        /\ more \in Seq(Unit) /\ rest[c] \in Seq(Unit)
    BY <1>2, <1>3, <1>5, Zenon
  <2>2. more \o rest[c] \in Seq(Unit)
    BY <2>1, ConcatUnits, Zenon
  <2>3. (reader.got \o some) \o (more \o rest[c])
           = reader.got \o (some \o (more \o rest[c]))
    BY <2>1, <2>2, ConcatInAnyWay, Zenon
  <2>4. (some \o more) \o rest[c] = some \o (more \o rest[c])
    BY <2>1, ConcatInAnyWay, Zenon
  <2> QED BY <1>2, <1>5, <2>3, <2>4 DEF Pending
<1> HIDE DEF got
<1>8. Shape'
  BY <1>1, <1>3, <1>5 DEF Inv, Shape, process, controller, done
<1>9. stream'[c] = more /\ rest'[c] = rest[c] /\ Waiting(c)' = Waiting(c)
  BY <1>1, <1>3 DEF controller, done, Waiting
<1>10. more \o rest[c] \in Seq(Unit) /\ Waiting(c) \in Seq(AnyCommand)
  BY <1>3, <1>5, ConcatProperties, Types DEF Inv
<1>11. ASSUME Reading(c)', Orderly(c)', reader'.conn = {c} PROVE ReaderOK' /\ InOrder'
  <2>1. ReaderOK'
    BY <1>1, <1>2, <1>11 DEF ReaderOK
  <2>2. ASSUME NEW d \in Ctl, d # c, Orderly(d) PROVE Orderly(d)'
    <3>1. stream'[d] = stream[d] /\ rest'[d] = rest[d]
          /\ asked'[d] = asked[d] /\ taken'[d] = taken[d]
      BY <1>1, <1>3, <2>2 DEF controller, done
    <3> QED BY <1>1, <1>11, <2>2, <3>1, SameOrder
  <2>3. InOrder'
    BY <1>1, <1>11, <2>2 DEF Inv, InOrder, process
  <2> QED BY <2>1, <2>3
<1>12. CASE /\ reader.command = {} /\ Len(got) = HeaderUnits
            /\ PayloadUnits[CodeOf(got)] > 0
  <2>1. /\ reader' = [reader EXCEPT !.command = {CodeOf(got)}, !.got = <<>>]
        /\ CodeOf(got) \in AnyCommand /\ <<>> \in Seq(Unit) /\ Len(<<>>) = 0
    BY <1>1, <1>12, CodeIsKnown, EmptySeq DEF Parsed
  <2>2. /\ reader'.conn = {c} /\ reader'.command = {CodeOf(got)} /\ reader'.got = <<>>
        /\ reader' \in [conn : SUBSET Ctl, command : SUBSET AnyCommand, got : Seq(Unit)]
    BY <1>1, <1>2, <2>1 DEF Reading
  <2>3. Reading(c)'
    BY <1>12, <2>1, <2>2, SessionAssumption DEF Reading
  <2>4. Framed(got \o (more \o rest[c]), 0, Waiting(c))
    BY <1>2, <1>7, <1>12 DEF Orderly, Passed
  <2>5. Waiting(c) # <<>> /\ CodeOf(got) = Waiting(c)[1]
    BY <1>6, <1>10, <2>4, CodeIsFirst
  <2>6. SubSeq(got \o (more \o rest[c]), Len(got) + 1, Len(got \o (more \o rest[c])))
           = more \o rest[c]
    BY <1>6, <1>10, RestOfConcat
  <2>7. /\ got \o (more \o rest[c]) \in Seq(Unit)
        /\ HeaderUnits \in 0 .. Len(got \o (more \o rest[c]))
        /\ 0 + HeaderUnits = HeaderUnits
    <3>1. /\ got \o (more \o rest[c]) \in Seq(Unit)
          /\ Len(got \o (more \o rest[c])) = Len(got) + Len(more \o rest[c])
          /\ Len(more \o rest[c]) \in Nat
      BY <1>6, <1>10, ConcatUnits, Zenon
    <3> HIDE DEF got
    <3> QED BY <1>12, <3>1, SessionAssumption
  <2>8. Framed(more \o rest[c], HeaderUnits, Waiting(c))
    BY <1>10, <1>12, <2>4, <2>6, <2>7, FramedPass
  <2>9. Pending(c)' = more \o rest[c] /\ Passed(c)' = HeaderUnits
    <3>1. Got(c)' = <<>> /\ Passed(c)' = HeaderUnits
      BY <2>2 DEF Got, Passed
    <3> QED BY <1>9, <1>10, <3>1, ConcatEmptySeq DEF Pending
  <2>10. Orderly(c)'
    BY <1>9, <2>2, <2>5, <2>8, <2>9 DEF Orderly
  <2> QED BY <1>8, <1>11, <2>2, <2>3, <2>10 DEF Inv
<1>13. CASE ~(/\ reader.command = {} /\ Len(got) = HeaderUnits
              /\ PayloadUnits[CodeOf(got)] > 0)
  <2>1. reader' = [reader EXCEPT !.got = got]
    BY <1>1, <1>13 DEF Parsed
  <2>2. /\ reader'.conn = {c} /\ reader'.command = reader.command /\ reader'.got = got
        /\ reader' \in [conn : SUBSET Ctl, command : SUBSET AnyCommand, got : Seq(Unit)]
    BY <1>1, <1>2, <1>6, <2>1 DEF Reading
  <2>3. Len(got) <= Wanted
    BY <1>4, <1>6
  <2>4. reader.command = {} => HeaderIsAll(got)
    BY <1>13, CodeIsKnown, SessionAssumption DEF HeaderIsAll
  <2>5. Reading(c)'
    BY <1>1, <2>2, <2>3, <2>4, WhoReads DEF Reading
  <2>6. Pending(c)' = Pending(c) /\ Passed(c)' = Passed(c)
    <3>1. Got(c)' = got /\ Passed(c)' = Passed(c)
      BY <1>1, <2>2 DEF Got, Passed
    <3> QED BY <1>7, <1>9, <3>1 DEF Pending
  <2>7. Orderly(c)'
    BY <1>1, <1>2, <1>9, <2>2, <2>6 DEF Orderly
  <2> QED BY <1>8, <1>11, <2>2, <2>5, <2>7 DEF Inv
<1> QED BY <1>12, <1>13

\* The command that has been read to its end is the first that was not taken.
LEMMA ReadInTurn ==
  ASSUME Inv, NEW c \in Ctl, up = "on", reader.conn = {c}, Complete
  PROVE  /\ Waiting(c) # <<>> /\ Read = {Waiting(c)[1]}
         /\ Waiting(c)[1] = asked[c][taken[c] + 1] /\ taken[c] + 1 <= Len(asked[c])
         /\ Waiting(c)[1] \in Command /\ Waiting(c)[1] \in AnyCommand
         /\ Framed(stream[c] \o rest[c], 0, Tail(Waiting(c)))
<1> DEFINE q == stream[c] \o rest[c]
           W == Waiting(c)
<1>1. /\ Orderly(c) /\ Reading(c) /\ Got(c) = reader.got /\ reader.got \in Seq(Unit)
      /\ q \in Seq(Unit) /\ W \in Seq(AnyCommand)
      /\ Len(reader.got) = Wanted /\ Len(reader.got) \in Nat
  BY WhoReads, Types DEF Inv, Complete
<1>2. /\ taken[c] \in 0 .. Len(asked[c]) /\ asked[c] \in Seq(AnyCommand)
      /\ Len(W) = Len(asked[c]) - taken[c] /\ Len(asked[c]) \in Nat
      /\ asked[c] \in Seq(Command)
  BY Types DEF Inv, Shape
<1>3. /\ W # <<>> /\ Read = {W[1]}
      /\ Passed(c) + Len(reader.got) = Size(W[1])
  <2>1. CASE reader.command = {}
    <3>1. Len(reader.got) = HeaderUnits /\ Passed(c) = 0 /\ Len(reader.got) >= 1
      BY <1>1, <2>1, SessionAssumption DEF Wanted, Passed
    <3>2. Framed(reader.got \o q, 0, W)
      BY <1>1, <3>1 DEF Orderly, Pending
    <3> HIDE DEF q, W
    <3>3. W # <<>> /\ CodeOf(reader.got) = W[1]
      BY <1>1, <3>1, <3>2, CodeIsFirst
    <3>4. PayloadUnits[W[1]] = 0
      BY <1>1, <2>1, <3>1, <3>3 DEF Reading, HeaderIsAll
    <3>5. Size(W[1]) = HeaderUnits
      BY <3>4, SessionAssumption DEF Size
    <3> QED BY <2>1, <3>1, <3>3, <3>5, SessionAssumption DEF Read
  <2>2. CASE reader.command # {}
    <3>1. W # <<>> /\ reader.command = {W[1]}
      BY <1>1, <2>2 DEF Orderly
    <3>2. (CHOOSE k \in {W[1]} : TRUE) = W[1]
      OBVIOUS
    <3> HIDE DEF q, W
    <3>3. Wanted = PayloadUnits[W[1]] /\ Passed(c) = HeaderUnits
      BY <2>2, <3>1, <3>2 DEF Wanted, Passed
    <3> QED BY <1>1, <2>2, <3>1, <3>3 DEF Read, Size
  <2> QED BY <2>1, <2>2
<1>4. /\ 1 \in 1 .. Len(W) /\ W[1] \in AnyCommand
      /\ W[1] = asked[c][taken[c] + 1] /\ taken[c] + 1 \in 1 .. Len(asked[c])
  <2>1. Len(W) \in Nat /\ Len(W) >= 1
    BY <1>1, <1>3, EmptySeq
  <2>2. /\ taken[c] + 1 \in 1 .. Len(asked[c])
        /\ Len(asked[c]) \in taken[c] + 1 .. Len(asked[c])
    <3> HIDE DEF W
    <3> QED BY <1>2, <2>1
  <2>3. Head(W) = asked[c][taken[c] + 1]
    BY <1>2, <2>2, HeadTailOfSubSeq DEF Waiting
  <2> QED BY <1>1, <2>1, <2>2, <2>3
<1>5. Framed(q, 0, Tail(W))
  <2> DEFINE units == reader.got \o q
             h == Len(reader.got)
  <2>1. Framed(units, Passed(c), W) /\ units \in Seq(Unit)
    BY <1>1, ConcatUnits DEF Orderly, Pending
  <2>2. SubSeq(units, h + 1, Len(units)) = q
    BY <1>1, RestOfConcat
  <2>3. h \in 0 .. Len(units) /\ Passed(c) \in Nat
    <3>1. Len(units) = h + Len(q) /\ Len(q) \in Nat
      BY <1>1, ConcatUnits, Zenon
    <3>2. Passed(c) \in Nat
      BY Types DEF Inv
    <3> HIDE DEF units, q
    <3> QED BY <1>1, <3>1, <3>2
  <2> HIDE DEF units, q, W, h
  <2>4. Framed(q, Passed(c) + h, W)
    BY <1>1, <2>1, <2>2, <2>3, FramedPass
  <2>5. Passed(c) + h = Size(W[1])
    BY <1>3 DEF h
  <2> QED BY <1>1, <1>3, <2>4, <2>5, FramedNext
<1> QED BY <1>2, <1>3, <1>4, <1>5

LEMMA TriageEnds ==
  ASSUME NEW c \in Ctl, NEW k \in AnyCommand, Triage(c, k)
  PROVE  \/ /\ up' = "dead" /\ UNCHANGED <<peer, taken, answers>>
            /\ peer[c] \in {"reset", "finreset"}
         \/ /\ up' \in {"on", "exited", up}
            /\ taken' = [taken EXCEPT ![c] = taken[c] + 1]
            /\ \/ answers' = [answers EXCEPT ![c] = Append(answers[c], AnswerHeader(c, k))]
               \/ k \in Silent /\ answers' = answers
            /\ \/ peer' = peer
               \/ peer[c] = "fin" /\ peer' = [peer EXCEPT ![c] = "finreset"]
BY DEF Triage, Respond, done

LEMMA PerformKept == \A c \in Ctl : Inv /\ Perform(c) => Inv'
<1> SUFFICES ASSUME NEW c \in Ctl, Inv, Perform(c) PROVE Inv'
  OBVIOUS
<1> DEFINE k == Waiting(c)[1]
<1>1. /\ UNCHANGED <<keepsNext, asked, rest, stream, listed, fd>>
      /\ up = "on" /\ reader.conn = {c} /\ Complete /\ reader' = NoReader
  BY DEF Perform, Stay
<1>2. /\ Waiting(c) # <<>> /\ Read = {k} /\ k \in Command /\ k \in AnyCommand
      /\ taken[c] + 1 <= Len(asked[c])
      /\ Framed(stream[c] \o rest[c], 0, Tail(Waiting(c)))
  BY <1>1, ReadInTurn
<1>3. Triage(c, k)
  BY <1>2 DEF Perform
<1> HIDE DEF k
<1>4. ReaderOK'
  BY <1>1 DEF ReaderOK
<1>5. CASE up' = "dead" /\ UNCHANGED <<peer, taken, answers>>
  <2>1. Shape'
    BY <1>1, <1>5 DEF Inv, Shape
  <2> QED BY <1>4, <1>5, <2>1 DEF Inv, InOrder
<1>6. CASE /\ up' \in {"on", "exited", up}
           /\ taken' = [taken EXCEPT ![c] = taken[c] + 1]
           /\ \/ answers' = [answers EXCEPT ![c] = Append(answers[c], AnswerHeader(c, k))]
              \/ k \in Silent /\ answers' = answers
           /\ \/ peer' = peer
              \/ peer[c] = "fin" /\ peer' = [peer EXCEPT ![c] = "finreset"]
  <2>1. AnswerHeader(c, k) \in Answers
    BY <1>2 DEF AnswerHeader, Answers
  <2>2. /\ answers[c] \in Seq(Answers) /\ taken[c] \in Nat /\ Len(answers[c]) <= taken[c]
        /\ taken \in [Ctl -> Nat] /\ answers \in [Ctl -> Seq(Answers)]
    BY DEF Inv, Shape
  <2>3. /\ Append(answers[c], AnswerHeader(c, k)) \in Seq(Answers)
        /\ Len(Append(answers[c], AnswerHeader(c, k))) = Len(answers[c]) + 1
        /\ Len(answers[c]) \in Nat
    BY <2>1, <2>2, AppendProperties
  <2>4. taken' \in [Ctl -> Nat] /\ answers' \in [Ctl -> Seq(Answers)]
    <3>1. taken[c] + 1 \in Nat
      BY <2>2
    <3>2. taken' \in [Ctl -> Nat]
      BY <1>6, <2>2, <3>1
    <3>3. answers' \in [Ctl -> Seq(Answers)]
      <4>1. CASE answers' = answers
        BY <2>2, <4>1
      <4>2. CASE answers' = [answers EXCEPT ![c] = Append(answers[c], AnswerHeader(c, k))]
        BY <2>2, <2>3, <4>2
      <4> QED BY <1>6, <4>1, <4>2
    <3> QED BY <3>2, <3>3
  <2>5. ASSUME NEW d \in Ctl
        PROVE  taken'[d] <= Len(asked[d]) /\ Len(answers'[d]) <= taken'[d]
    <3>1. CASE d = c
      BY <1>2, <1>6, <2>2, <2>3, <3>1
    <3>2. CASE d # c
      BY <1>6, <2>2, <3>2 DEF Inv, Shape
    <3> QED BY <3>1, <3>2
  <2>6. Shape'
    BY <1>1, <1>6, <2>4, <2>5 DEF Inv, Shape
  <2>7. Orderly(c)'
    <3>1. reader'.conn = {} /\ reader'.got = <<>>
      BY <1>1 DEF NoReader
    <3>2. Got(c)' = <<>> /\ Passed(c)' = 0
      BY <3>1 DEF Got, Passed
    <3>3. Pending(c)' = stream[c] \o rest[c]
      BY <1>1, <3>2, Types, ConcatEmptySeq DEF Pending, Inv
    <3>4. Waiting(c)' = Tail(Waiting(c))
      <4>1. /\ taken[c] \in Nat /\ taken'[c] = taken[c] + 1
            /\ asked[c] \in Seq(AnyCommand) /\ Len(asked[c]) \in Nat
        BY <1>6, <2>2, Types DEF Inv
      <4>2. /\ taken[c] + 1 \in 1 .. Len(asked[c])
            /\ Len(asked[c]) \in taken[c] + 1 .. Len(asked[c])
        BY <1>2, <4>1
      <4>3. Tail(Waiting(c)) = SubSeq(asked[c], (taken[c] + 1) + 1, Len(asked[c]))
        BY <4>1, <4>2, HeadTailOfSubSeq DEF Waiting
      <4> QED BY <1>1, <4>1, <4>3 DEF Waiting
    <3> QED BY <1>2, <3>1, <3>2, <3>3, <3>4 DEF Orderly
  <2>8. ASSUME NEW d \in Ctl, d # c, Orderly(d) PROVE Orderly(d)'
    <3>1. taken'[d] = taken[d]
      BY <1>6, <2>2, <2>8
    <3>2. reader.conn # {d} /\ reader'.conn # {d}
      BY <1>1, <2>8 DEF NoReader
    <3> QED BY <1>1, <2>8, <3>1, <3>2, SameOrder
  <2>9. InOrder'
    BY <1>1, <2>7, <2>8 DEF Inv, InOrder
  <2> QED BY <1>4, <2>6, <2>9 DEF Inv
<1> QED BY <1>2, <1>3, <1>5, <1>6, TriageEnds

LEMMA InvKept == Inv /\ [Next]_vars => Inv'
<1>1. ASSUME Inv, UNCHANGED vars PROVE Inv'
  <2>1. Shape' /\ ReaderOK'
    BY <1>1, SameReader DEF Inv, Shape, vars, process, controller, done
  <2>2. InOrder'
    BY <1>1, SameOrder DEF Inv, InOrder, vars, process, controller, done
  <2> QED BY <2>1, <2>2 DEF Inv
<1>2. ASSUME Inv, Next PROVE Inv'
  <2>1. PICK c \in Ctl :
          \/ Connect(c) \/ Arrive(c) \/ HangUp(c) \/ \E k \in Command : Ask(c, k)
          \/ Serve(c) \/ Stray(c)
    BY <1>2, Zenon DEF Next
  <2>2. CASE Connect(c) \/ Arrive(c) \/ HangUp(c) \/ Stray(c)
    BY <1>2, <2>2, ConnectKept, ArriveKept, HangUpKept, StrayKept, Zenon
  <2>3. CASE \E k \in Command : Ask(c, k)
    BY <1>2, <2>3, AskKept, Zenon
  <2>4. CASE Serve(c)
    BY <1>2, <2>4, AcceptKept, BeginKept, ReceiveKept, StrayKept, RemoveKept,
       PerformKept, Zenon DEF Serve
  <2> QED BY <2>1, <2>2, <2>3, <2>4
<1> QED BY <1>1, <1>2

\* Whatever the controllers send, in whatever pieces it arrives, the router has
\* performed a prefix of the commands of each connection, and what main_loop and
\* recvALL have not made a command of yet are the units of the others.
THEOREM UnitsAreTheCommandsLeft == Spec => []Inv
<1> QED BY InitInv, InvKept, PTL DEF Spec

\* The lists, descriptors and counters of control_handler.c fit together: recvALL
\* reads from a descriptor that has an entry, and never more than it is asked for.
THEOREM SessionsTyped == Spec => []TypeOK
<1>1. Inv => TypeOK
  <2> SUFFICES ASSUME Inv PROVE TypeOK
    OBVIOUS
  <2>1. ASSUME NEW c \in Ctl
        PROVE  /\ asked[c] \in Seq(Command) /\ taken[c] \in 0 .. Len(asked[c])
               /\ Len(answers[c]) <= taken[c]
    BY Types DEF Inv, Shape
  <2>2. reader.conn \subseteq listed /\ (reader.conn # {} => Len(reader.got) <= Wanted)
    <3>1. CASE reader = NoReader
      BY <3>1 DEF NoReader
    <3>2. ASSUME NEW c \in listed, Reading(c)
          PROVE reader.conn \subseteq listed /\ Len(reader.got) <= Wanted
      <4>1. c \in Ctl /\ reader.conn = {c}
        BY <3>2 DEF Inv, Shape, Reading
      <4>2. CASE reader.command = {}
        BY <3>2, <4>1, <4>2 DEF Wanted, Reading
      <4>3. CASE reader.command # {}
        BY <3>2, <4>1, <4>3, WhoReads DEF Reading
      <4> QED BY <4>1, <4>2, <4>3
    <3> QED BY <3>1, <3>2 DEF Inv, ReaderOK
  <2> QED BY <2>1, <2>2 DEF Inv, Shape, TypeOK
<1> QED BY <1>1, UnitsAreTheCommandsLeft, PTL

-----------------------------------------------------------------------------
(***************************************************************************)
(* The sessions are dialogues.                                             *)
(***************************************************************************)

LEMMA PerformTakes == \A c \in Ctl : Inv /\ Perform(c) => [Promise!Next]_(Promise!vars)
<1> SUFFICES ASSUME NEW c \in Ctl, Inv, Perform(c) PROVE [Promise!Next]_(Promise!vars)
  OBVIOUS
<1> DEFINE k == Waiting(c)[1]
<1>1. /\ asked' = asked /\ up = "on" /\ reader.conn = {c} /\ Complete
      /\ \E x \in Read : Triage(c, x)
  BY DEF Perform
<1>2. /\ Read = {k} /\ k \in AnyCommand /\ k = asked[c][taken[c] + 1]
      /\ taken[c] + 1 <= Len(asked[c])
  BY <1>1, ReadInTurn
<1>3. Triage(c, k)
  BY <1>1, <1>2
<1> HIDE DEF k
<1>4. CASE UNCHANGED <<peer, taken, answers>>
  BY <1>1, <1>4 DEF Promise!vars
<1>5. CASE /\ taken' = [taken EXCEPT ![c] = taken[c] + 1]
           /\ \/ answers' = [answers EXCEPT ![c] = Append(answers[c], AnswerHeader(c, k))]
              \/ k \in Silent /\ answers' = answers
  <2>1. taken \in [Ctl -> Nat] /\ taken[c] \in Nat /\ Len(asked[c]) \in Nat
    <3>1. taken \in [Ctl -> Nat] /\ asked[c] \in Seq(Command)
      BY DEF Inv, Shape
    <3> QED BY <3>1
  <2>2. taken[c] < Len(asked[c]) /\ taken'[c] = taken[c] + 1
    BY <1>2, <1>5, <2>1
  <2>3. asked[c][taken'[c]] = k /\ Promise!Answer(c, k) = AnswerHeader(c, k)
    BY <1>2, <2>2 DEF AnswerHeader, Promise!Answer
  <2>4. Promise!Take(c)
    BY <1>1, <1>5, <2>2, <2>3 DEF Promise!Take
  <2> QED BY <2>4 DEF Promise!Next
<1> QED BY <1>2, <1>3, <1>4, <1>5, TriageEnds

\* However the bytes of commands arrive and whatever other controllers do, the
\* commands of a connection are performed in the order they were sent, each as it
\* was written, and answered with their own code on it: control_recv_hook never
\* takes the bytes of a payload, or of the next command, for a header.
THEOREM SessionsAreDialogues == Spec => IsDialogue
<1>1. Init => Promise!Init
  BY DEF Init, Promise!Init
<1>2. Inv /\ [Next]_vars => [Promise!Next]_(Promise!vars)
  <2>1. ASSUME UNCHANGED vars PROVE UNCHANGED Promise!vars
    BY <2>1 DEF vars, controller, done, Promise!vars
  <2>2. ASSUME Inv, Next PROVE [Promise!Next]_(Promise!vars)
    <3>1. PICK c \in Ctl :
            \/ Connect(c) \/ Arrive(c) \/ HangUp(c) \/ \E k \in Command : Ask(c, k)
            \/ Serve(c) \/ Stray(c)
      BY <2>2, Zenon DEF Next
    <3>2. CASE \/ Connect(c) \/ Arrive(c) \/ HangUp(c) \/ Stray(c) \/ Accept(c)
               \/ Begin(c) \/ Receive(c) \/ RecvForEver(c) \/ Remove(c)
      BY <3>2 DEF Connect, Arrive, HangUp, Stray, Accept, Begin, Receive,
                  RecvForEver, Remove, controller, done, Promise!vars
    <3>3. CASE \E k \in Command : Ask(c, k)
      BY <3>3 DEF Ask, done, Promise!Ask, Promise!Next
    <3>4. CASE Perform(c)
      BY <2>2, <3>4, PerformTakes, Zenon
    <3> QED BY <3>1, <3>2, <3>3, <3>4 DEF Serve
  <2> QED BY <2>1, <2>2
<1> QED BY <1>1, <1>2, UnitsAreTheCommandsLeft, PTL DEF Spec, IsDialogue, Promise!Spec

-----------------------------------------------------------------------------
(***************************************************************************)
(* What stops a router.                                                    *)
(***************************************************************************)

Reason == ~keepsNext \/ Forgotten # {} \/ \E c \in Ctl : LeftEarly(c)

\* recvALL waits for ever only for the rest of a command, or for a reset.
LEMMA EndlessIsEarly ==
  ASSUME Inv, NEW c \in Ctl, RecvForEver(c)
  PROVE  LeftEarly(c)
<1>1. /\ reader.conn = {c} /\ up = "on" /\ stream[c] = <<>> /\ Ended(c) /\ ~Complete
      /\ reader.got # <<>> \/ peer[c] = "reset"
  BY DEF RecvForEver, AtEnd, NoMessage
<1>2. CASE peer[c] = "reset"
  BY <1>1, <1>2 DEF LeftEarly
<1>3. ASSUME reader.got # <<>>, rest[c] = <<>> PROVE FALSE
  <2>1. /\ Orderly(c) /\ Reading(c) /\ Got(c) = reader.got /\ reader.got \in Seq(Unit)
        /\ Waiting(c) \in Seq(AnyCommand) /\ Passed(c) \in Nat /\ Len(reader.got) \in Nat
    BY <1>1, WhoReads, Types DEF Inv
  <2>2. Pending(c) = reader.got
    BY <1>1, <1>3, <2>1, ConcatEmptySeq DEF Pending
  <2>3. Framed(reader.got, Passed(c), Waiting(c))
    BY <2>1, <2>2 DEF Orderly
  <2>4. Waiting(c) # <<>> /\ Passed(c) + Len(reader.got) >= Size(Waiting(c)[1])
    BY <1>3, <2>1, <2>3, FramedFirst
  <2>5. Waiting(c)[1] \in AnyCommand
    BY <2>1, <2>4, EmptySeq
  <2>6. Len(reader.got) # Wanted
    BY <1>1 DEF Complete
  <2>7. CASE reader.command = {}
    BY <2>1, <2>4, <2>5, <2>6, <2>7, SizeIsPositive DEF Reading, Wanted, Passed
  <2>8. CASE reader.command # {}
    <3>1. /\ reader.command = {Waiting(c)[1]} /\ Passed(c) = HeaderUnits
          /\ Wanted = PayloadUnits[Waiting(c)[1]]
      BY <1>1, <2>1, <2>8, WhoReads DEF Orderly
    <3>2. Len(reader.got) <= PayloadUnits[Waiting(c)[1]]
      BY <2>1, <2>8, <3>1 DEF Reading
    <3> QED BY <2>1, <2>4, <2>5, <2>6, <3>1, <3>2, SizeIsPositive
  <2> QED BY <2>7, <2>8
<1> QED BY <1>1, <1>2, <1>3 DEF LeftEarly

\* What a controller does takes no reason away.
LEMMA ReasonStays ==
  ASSUME Inv, Reason, NEW c \in Ctl,
         Connect(c) \/ Arrive(c) \/ HangUp(c) \/ \E k \in Command : Ask(c, k)
  PROVE  Reason'
<1>1. UNCHANGED <<process, listed>> /\ peer[c] \in {"none", "here"}
  BY DEF Connect, Arrive, HangUp, Ask
<1>2. Forgotten' = Forgotten
  <2>1. CASE Connect(c)
    BY <2>1 DEF Connect, Inv, Shape, Forgotten
  <2>2. CASE Arrive(c) \/ HangUp(c) \/ \E k \in Command : Ask(c, k)
    BY <2>2 DEF Arrive, HangUp, Ask, Forgotten
  <2> QED BY <2>1, <2>2
<1>3. ASSUME NEW d \in Ctl, LeftEarly(d) PROVE LeftEarly(d)'
  <2>1. d # c
    BY <1>1, <1>3 DEF LeftEarly, Ended
  <2>2. peer'[d] = peer[d] /\ rest'[d] = rest[d]
    BY <2>1 DEF Connect, Arrive, HangUp, Ask, Inv, Shape
  <2> QED BY <1>3, <2>2 DEF LeftEarly, Ended
<1> QED BY <1>1, <1>2, <1>3 DEF Reason, process

\* A step of the router that stops it has a reason.
LEMMA StopHasReason ==
  ASSUME Inv, NEW c \in Ctl, Serve(c) \/ Stray(c), up' \in {"hung", "dead"}
  PROVE  Reason'
<1>1. CASE Accept(c) \/ Begin(c) \/ Receive(c)
  BY <1>1 DEF Accept, Begin, Receive, Idle, process
<1>2. CASE Stray(c)
  <2>1. c \in Forgotten /\ Forgotten' = Forgotten
    BY <1>2 DEF Stray, Ready, Forgotten
  <2> QED BY <2>1 DEF Reason
<1>3. CASE RecvForEver(c)
  <2>1. LeftEarly(c)
    BY <1>3, EndlessIsEarly
  <2>2. LeftEarly(c)'
    BY <1>3, <2>1 DEF RecvForEver, controller, LeftEarly, Ended
  <2> QED BY <2>2 DEF Reason
<1>4. CASE Remove(c)
  <2>1. /\ Forgotten # {} \/ ~keepsNext
        /\ keepsNext' = keepsNext /\ listed' = {} /\ fd' = [fd EXCEPT ![c] = "closed"]
        /\ reader.conn = {c}
    BY <1>4 DEF Remove, FreeEntries, NoMessage, AtEnd
  <2>2. c \in listed
    BY <2>1, WhoReads
  <2>3. ASSUME NEW d \in Forgotten PROVE d \in Forgotten'
    <3>1. d \in Ctl /\ fd[d] = "watched" /\ d # c
      BY <2>2 DEF Forgotten
    <3>2. fd'[d] = "watched"
      BY <2>1, <3>1 DEF Inv, Shape
    <3> QED BY <2>1, <3>1, <3>2 DEF Forgotten
  <2> QED BY <2>1, <2>3 DEF Reason
<1>5. CASE Perform(c)
  <2>1. /\ up = "on" /\ reader.conn = {c} /\ Complete /\ rest' = rest
        /\ \E k \in Read : Triage(c, k)
    BY <1>5 DEF Perform
  <2>2. Read = {Waiting(c)[1]} /\ Waiting(c)[1] \in AnyCommand
    BY <2>1, ReadInTurn
  <2>3. peer' = peer /\ peer[c] \in {"reset", "finreset"}
    BY <2>1, <2>2, TriageEnds
  <2>4. LeftEarly(c)'
    BY <2>3 DEF LeftEarly, Ended
  <2> QED BY <2>4 DEF Reason
<1> QED BY <1>1, <1>2, <1>3, <1>4, <1>5 DEF Serve

\* Controllers stop a router only by hanging up with a command half sent or an
\* answer unread (recvALL goes on for ever, sendALL raises SIGPIPE), or by being
\* connected while remove_control_conn removes another; everything that comes in
\* whole, in any pieces and any order, leaves it running.
THEOREM RouterStopsForAReason == Spec => []StopsForAReason
<1>1. Init => StopsForAReason
  BY DEF Init, StopsForAReason
<1>2. Inv /\ StopsForAReason /\ [Next]_vars => StopsForAReason'
  <2> SUFFICES ASSUME Inv, StopsForAReason, [Next]_vars, up' \in {"hung", "dead"}
               PROVE  Reason'
    BY DEF StopsForAReason, Reason
  <2>1. CASE UNCHANGED vars
    BY <2>1 DEF vars, process, controller, StopsForAReason, Reason, Forgotten,
                LeftEarly, Ended
  <2>2. CASE Next
    <3>1. PICK c \in Ctl :
            \/ Connect(c) \/ Arrive(c) \/ HangUp(c) \/ \E k \in Command : Ask(c, k)
            \/ Serve(c) \/ Stray(c)
      BY <2>2, Zenon DEF Next
    <3>2. CASE Connect(c) \/ Arrive(c) \/ HangUp(c) \/ \E k \in Command : Ask(c, k)
      <4>1. up' = up
        BY <3>2 DEF Connect, Arrive, HangUp, Ask, process
      <4>2. Reason
        BY <4>1 DEF StopsForAReason, Reason
      <4> QED BY <3>2, <4>2, ReasonStays
    <3>3. CASE Serve(c) \/ Stray(c)
      BY <3>3, StopHasReason
    <3> QED BY <3>1, <3>2, <3>3
  <2> QED BY <2>1, <2>2
<1> QED BY <1>1, <1>2, UnitsAreTheCommandsLeft, PTL DEF Spec
=============================================================================
