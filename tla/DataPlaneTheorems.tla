------------------------- MODULE DataPlaneTheorems --------------------------
(***************************************************************************)
(* The data plane for any routers, routes, files, and buffers, any number  *)
(* of transfers at once, failing connects, crashes and changing routes:    *)
(* the types of the variables, that no descriptor is cleared from master   *)
(* before its connection has been read to the end, that the statistics of  *)
(* one router agree, and, by counting the places where packets are, that   *)
(* none is repeated, and none lost while nothing fails.                    *)
(***************************************************************************)
EXTENDS DataPlane, SequenceTheorems, FiniteSetTheorems, TLAPS

-----------------------------------------------------------------------------
(***************************************************************************)
(* The invariant.                                                          *)
(***************************************************************************)

\* The packets that travel: each is one of its file.
Alive == {p \in Packet : p.ttl > 0 /\ \E i \in 1 .. Count[p.file] : p.seq = Sequence(p.file)[i]}
Conn == [buf : Seq(Alive), fd : {"backlog", "watched", "cleared"}]

\* The files that are being sent have packets left.
Sending ==
    /\ started \subseteq Files
    /\ sent \in [Files -> Nat]
    /\ \A f \in Files : sent[f] <= Count[f] /\ (f \notin started => sent[f] = 0)
    /\ job \in [Router -> SUBSET Files]
    /\ \A r \in Router : \A f \in job[r] :
          r = From[f] /\ f \in started /\ sent[f] < Count[f] /\ TTL[f] > 0

Holding ==
    /\ hold \in [Router -> Seq(Alive)]
    /\ \A r \in Router :
          Len(hold[r]) <= 1 /\ (hold[r] # <<>> => To[hold[r][1].file] # r)

\* On no connection is anything behind a packet with FIN, and one that is cleared is
\* empty.
Sound(conn) ==
    /\ Len(conn.buf) <= Capacity
    /\ conn.fd = "backlog" => conn.buf # <<>>
    /\ conn.fd = "cleared" => conn.buf = <<>>
    /\ \A k \in 1 .. Len(conn.buf) : conn.buf[k].fin => k = Len(conn.buf)

\* What a router still sends on: no packet with FIN is on it, or was.
Unfinished(conn) ==
    /\ conn.fd # "cleared"
    /\ \A k \in 1 .. Len(conn.buf) : ~conn.buf[k].fin

Goes(q) == q # <<>> /\ Unfinished(q[Len(q)])

Lines(q) == \A c \in 1 .. Len(q) : Sound(q[c])

Link(s, r) ==
    /\ Lines(conns[s][r])
    /\ sock[s][r] = "open" /\ s \notin down /\ r \notin down => Goes(conns[s][r])

Linked ==
    /\ sock \in [Router -> [Router -> {"0", "open", "-1"}]]
    /\ conns \in [Router -> [Router -> Seq(Conn)]]
    /\ down \subseteq Router
    /\ \A s, r \in Router : Link(s, r)

Bounded ==
    /\ failures \in 0 .. MaxFailures /\ crashes \in 0 .. MaxCrashes
    /\ moves \in 0 .. MaxMoves

Latest == [seq : Word, fin : BOOLEAN]

Noting ==
    /\ known \in [Router -> SUBSET Files]
    /\ first \in [Router -> [Files -> Word]] /\ ttls \in [Router -> [Files -> Byte]]
    /\ seqs \in [Router -> [Files -> Seq(Word)]]
    /\ latest \in [Router -> Seq(Latest)]
    /\ \A r \in Router : Len(latest[r]) <= 2

Writing ==
    /\ open \in [Files -> BOOLEAN] /\ written \in [Files -> Seq(Word)]

DataInv ==
    /\ Sending /\ Holding /\ Linked /\ Noting /\ Writing /\ Bounded
    /\ route \in Routes

LEMMA Constants ==
  /\ \A f \in Files : /\ From[f] \in Router /\ To[f] \in Router
                       /\ Count[f] \in Nat /\ TTL[f] \in Byte /\ FirstSeq[f] \in Word
  /\ Capacity \in Nat /\ Capacity >= 1
  /\ MaxFailures \in Nat /\ MaxCrashes \in Nat /\ MaxMoves \in Nat
<1>1. /\ From \in [Files -> Router] /\ To \in [Files -> Router]
      /\ Count \in [Files -> Nat] /\ TTL \in [Files -> Byte]
      /\ FirstSeq \in [Files -> Word]
  BY DataAssumption
<1>2. /\ Capacity \in Nat \ {0} /\ MaxFailures \in Nat /\ MaxCrashes \in Nat
      /\ MaxMoves \in Nat
  BY DataAssumption
<1>3. Capacity \in Nat /\ Capacity >= 1
  BY <1>2
<1> QED BY <1>1, <1>2, <1>3

LEMMA InitData == Init => DataInv
<1> SUFFICES ASSUME Init PROVE DataInv
  OBVIOUS
<1> USE DEF Init
<1>1. \A S : <<>> \in Seq(S) /\ Len(<<>>) = 0
  BY EmptySeq
<1>2. Sending
  <2>1. \A f \in Files : Count[f] \in Nat /\ 0 <= Count[f]
    BY Constants
  <2>2. \A f \in Files : sent[f] = 0 /\ \A r \in Router : job[r] = {}
    OBVIOUS
  <2> QED BY <2>1, <2>2 DEF Sending
<1>3. Holding
  BY <1>1 DEF Holding
<1>4. Linked
  <2>1. \A r, h \in Router : sock[r][h] = "0" /\ conns[r][h] = <<>>
    OBVIOUS
  <2>2. \A r, h \in Router : Link(r, h)
    BY <1>1, <2>1 DEF Link, Lines
  <2> QED BY <1>1, <2>1, <2>2 DEF Linked
<1>5. Noting /\ Writing
  BY <1>1 DEF Noting, Writing, Word, Byte
<1>6. Bounded
  BY Constants DEF Bounded
<1>7. route \in Routes
  OBVIOUS
<1> HIDE DEF Init
<1> QED BY <1>2, <1>3, <1>4, <1>5, <1>6, <1>7 DEF DataInv

-----------------------------------------------------------------------------
(***************************************************************************)
(* What is noted of a packet.                                              *)
(***************************************************************************)

LEMMA AlivePacket ==
  ASSUME NEW p \in Alive
  PROVE  /\ p.file \in Files /\ p.seq \in Word /\ p.ttl \in Byte /\ p.fin \in BOOLEAN
         /\ p.ttl > 0
BY DEF Alive, Packet

LEMMA HtonsIsWord == \A n \in Word : Htons(n) \in Word
<1> SUFFICES ASSUME NEW n \in Word PROVE Htons(n) \in Word
  OBVIOUS
<1> DEFINE most == 65535
           high == n % 256
           low == n \div 256
<1>1. n \in Nat /\ n <= 65535
  BY DEF Word
<1>2. Word = 0 .. most /\ most \in Int
  BY DEF Word
<1>3. high \in Nat /\ high <= 255
  BY <1>1
<1>4. low \in Nat /\ low <= 255
  <2>1. low \in Nat
    BY <1>1
  <2>2. low <= 255
    BY <1>1
  <2> QED BY <2>1, <2>2
<1>5. Htons(n) = (256 * high) + low
  BY DEF Htons
<1> HIDE DEF high, low
<1>6. (256 * high) + low \in Nat /\ (256 * high) + low <= most
  BY <1>3, <1>4
<1> HIDE DEF most
<1> QED BY <1>2, <1>5, <1>6

LEMMA RememberTyped ==
  ASSUME NEW r \in Router, NEW seq \in Word, NEW fin \in BOOLEAN,
         latest \in [Router -> Seq(Latest)], \A s \in Router : Len(latest[s]) <= 2,
         Remember(r, seq, fin)
  PROVE  /\ latest' \in [Router -> Seq(Latest)]
         /\ \A s \in Router : Len(latest'[s]) <= 2
<1> DEFINE p == [seq |-> seq, fin |-> fin]
<1>1. p \in Latest
  BY DEF Latest
<1> HIDE DEF p
<1>2. CASE latest[r] = <<>>
  <2>1. latest' = [latest EXCEPT ![r] = <<p>>]
    BY <1>2 DEF Remember, p
  <2> QED BY <1>1, <2>1
<1>3. CASE latest[r] # <<>>
  <2>1. latest' = [latest EXCEPT ![r] = <<p, latest[r][1]>>]
    BY <1>3 DEF Remember, p
  <2>2. latest[r][1] \in Latest
    BY <1>3, EmptySeq
  <2> QED BY <1>1, <2>1, <2>2
<1> QED BY <1>2, <1>3

LEMMA NoteSentTyped ==
  ASSUME NEW r \in Router, NEW p \in Alive, Noting, NoteSent(r, p)
  PROVE  Noting'
<1> DEFINE f == p.file
<1>1. f \in Files /\ p.seq \in Word /\ p.ttl \in Byte /\ p.fin \in BOOLEAN
  BY AlivePacket
<1>2. known' \in [Router -> SUBSET Files]
  BY <1>1 DEF Noting, NoteSent
<1>3. first' \in [Router -> [Files -> Word]] /\ ttls' \in [Router -> [Files -> Byte]]
  BY <1>1 DEF Noting, NoteSent
<1>4. seqs' \in [Router -> [Files -> Seq(Word)]]
  <2> DEFINE was == IF f \notin known[r] THEN <<>> ELSE seqs[r][f]
  <2>1. was \in Seq(Word)
    BY <1>1, EmptySeq DEF Noting
  <2>2. Append(was, Htons(p.seq)) \in Seq(Word)
    BY <1>1, <2>1, HtonsIsWord, AppendProperties
  <2>3. seqs' = [seqs EXCEPT ![r] = [seqs[r] EXCEPT ![f] = Append(was, Htons(p.seq))]]
    BY <1>1 DEF Noting, NoteSent
  <2> HIDE DEF was, f
  <2> QED BY <1>1, <2>2, <2>3 DEF Noting
<1>5. latest' \in [Router -> Seq(Latest)] /\ \A s \in Router : Len(latest'[s]) <= 2
  BY <1>1, RememberTyped DEF Noting, NoteSent
<1> QED BY <1>2, <1>3, <1>4, <1>5 DEF Noting

LEMMA SaveTyped ==
  ASSUME NEW r \in Router, NEW p \in Alive, Noting, Writing, Save(r, p),
         down \subseteq Router
  PROVE  Noting' /\ Writing' /\ down' \in {down, down \cup {r}}
<1> DEFINE f == p.file
           new == f \notin known[r]
<1>1. f \in Files /\ p.seq \in Word /\ p.ttl \in Byte /\ p.fin \in BOOLEAN
  BY AlivePacket
<1>2. CASE open[f] \/ new
  <2>1. /\ written' = [written EXCEPT ![f] =
                          Append(IF new THEN <<>> ELSE written[f], p.seq)]
        /\ open' = [open EXCEPT ![f] = ~p.fin]
        /\ first[r][f] = 0 =>
              /\ known' = [known EXCEPT ![r] = @ \cup {f}]
              /\ first' = [first EXCEPT ![r][f] = p.seq]
              /\ ttls' = [ttls EXCEPT ![r][f] = p.ttl]
              /\ seqs' = [seqs EXCEPT ![r][f] = <<p.seq>>]
        /\ first[r][f] # 0 =>
              /\ seqs' = [seqs EXCEPT ![r][f] = Append(seqs[r][f], p.seq)]
              /\ UNCHANGED <<known, first, ttls>>
        /\ \E fin \in BOOLEAN : Remember(r, p.seq, fin)
        /\ UNCHANGED down
    BY <1>2 DEF Save
  <2>2. Append(IF new THEN <<>> ELSE written[f], p.seq) \in Seq(Word)
    BY <1>1, EmptySeq, AppendProperties DEF Writing
  <2>3. Writing'
    BY <1>1, <2>1, <2>2 DEF Writing
  <2>4. /\ known' \in [Router -> SUBSET Files]
        /\ first' \in [Router -> [Files -> Word]] /\ ttls' \in [Router -> [Files -> Byte]]
        /\ seqs' \in [Router -> [Files -> Seq(Word)]]
    <3>1. seqs[r][f] \in Seq(Word) /\ <<p.seq>> \in Seq(Word)
          /\ Append(seqs[r][f], p.seq) \in Seq(Word)
      BY <1>1, AppendProperties DEF Noting
    <3> HIDE DEF f
    <3>2. CASE first[r][f] = 0
      <4>0. /\ known' = [known EXCEPT ![r] = @ \cup {f}]
            /\ first' = [first EXCEPT ![r][f] = p.seq]
            /\ ttls' = [ttls EXCEPT ![r][f] = p.ttl]
            /\ seqs' = [seqs EXCEPT ![r][f] = <<p.seq>>]
        BY <2>1, <3>2
      <4>1. known' \in [Router -> SUBSET Files]
        BY <1>1, <4>0 DEF Noting
      <4>2. first' \in [Router -> [Files -> Word]]
        BY <1>1, <4>0 DEF Noting
      <4>3. ttls' \in [Router -> [Files -> Byte]]
        BY <1>1, <4>0 DEF Noting
      <4>4. seqs' \in [Router -> [Files -> Seq(Word)]]
        BY <1>1, <4>0, <3>1 DEF Noting
      <4> QED BY <4>1, <4>2, <4>3, <4>4
    <3>3. CASE first[r][f] # 0
      <4>0. seqs' = [seqs EXCEPT ![r][f] = Append(seqs[r][f], p.seq)]
        BY <2>1, <3>3
      <4>1. seqs' \in [Router -> [Files -> Seq(Word)]]
        BY <1>1, <4>0, <3>1 DEF Noting
      <4> QED BY <2>1, <3>3, <4>1 DEF Noting
    <3> QED BY <3>2, <3>3
  <2>5. latest' \in [Router -> Seq(Latest)] /\ \A s \in Router : Len(latest'[s]) <= 2
    <3>1. PICK fin \in BOOLEAN : Remember(r, p.seq, fin)
      BY <2>1
    <3> QED BY <1>1, <3>1, RememberTyped DEF Noting
  <2> QED BY <2>1, <2>3, <2>4, <2>5 DEF Noting
<1>3. CASE ~(open[f] \/ new)
  <2>1. down' = down \cup {r} /\ UNCHANGED <<stats, file>>
    BY <1>3 DEF Save
  <2> QED BY <2>1 DEF stats, file, Noting, Writing
<1> QED BY <1>2, <1>3

-----------------------------------------------------------------------------
(***************************************************************************)
(* What happens to a connection.                                           *)
(***************************************************************************)

\* The line from s to r becomes q, and the socket of s for r becomes x.
Becomes(s, r, q, x) ==
    /\ q \in Seq(Conn) /\ conns' = [conns EXCEPT ![s][r] = q]
    /\ x \in {"0", "open", "-1"} /\ sock' = [sock EXCEPT ![s][r] = x]

\* A step that changes at most one line and its socket, and lets no dead router live.
LEMMA LinkChanged ==
  ASSUME Linked, NEW s \in Router, NEW r \in Router, NEW q, NEW x,
         Becomes(s, r, q, x),
         down \subseteq down', down' \subseteq Router, Lines(q),
         x = "open" /\ s \notin down' /\ r \notin down' => Goes(q)
  PROVE  Linked'
<1> USE DEF Becomes
<1>1. /\ sock' \in [Router -> [Router -> {"0", "open", "-1"}]]
      /\ conns' \in [Router -> [Router -> Seq(Conn)]]
  BY DEF Linked
<1>2. ASSUME NEW a \in Router, NEW b \in Router PROVE Link(a, b)'
  <2>1. CASE a = s /\ b = r
    <3>1. conns'[a][b] = q /\ sock'[a][b] = x
      BY <2>1 DEF Linked
    <3> QED BY <2>1, <3>1 DEF Link, Lines, Sound, Unfinished, Goes
  <2>2. CASE ~(a = s /\ b = r)
    <3>1. conns'[a][b] = conns[a][b] /\ sock'[a][b] = sock[a][b]
      BY <2>2 DEF Linked
    <3>2. Link(a, b)
      BY DEF Linked
    <3> QED BY <3>1, <3>2 DEF Link, Lines, Sound, Unfinished, Goes
  <2> QED BY <2>1, <2>2
<1> QED BY <1>1, <1>2 DEF Linked

LEMMA SameLink ==
  ASSUME Linked, NEW s \in Router, NEW r \in Router
  PROVE  /\ conns[s][r] \in Seq(Conn) /\ sock[s][r] \in {"0", "open", "-1"}
         /\ conns = [conns EXCEPT ![s][r] = conns[s][r]]
         /\ sock = [sock EXCEPT ![s][r] = sock[s][r]]
         /\ Link(s, r)
BY DEF Linked

\* One connection of a line is replaced.
LEMMA ConnChanged ==
  ASSUME Linked, NEW s \in Router, NEW r \in Router, NEW c \in 1 .. Len(conns[s][r]),
         NEW conn \in Conn, Sound(conn),
         conns' = [conns EXCEPT ![s][r][c] = conn], UNCHANGED sock,
         down \subseteq down', down' \subseteq Router,
         sock[s][r] = "open" /\ s \notin down /\ c = Len(conns[s][r])
           /\ Unfinished(conns[s][r][c]) => Unfinished(conn)
  PROVE  Linked'
<1> DEFINE q == [conns[s][r] EXCEPT ![c] = conn]
<1>1. conns[s][r] \in Seq(Conn) /\ sock[s][r] \in {"0", "open", "-1"} /\ Link(s, r)
  BY SameLink
<1>2. q \in Seq(Conn) /\ Len(q) = Len(conns[s][r])
  BY <1>1, ExceptSeq
<1>3. /\ q[c] = conn
      /\ \A k \in 1 .. Len(conns[s][r]) : k # c => q[k] = conns[s][r][k]
  BY <1>1
<1>4. conns' = [conns EXCEPT ![s][r] = q]
  BY DEF Linked
<1>5. Becomes(s, r, q, sock[s][r])
  BY <1>1, <1>2, <1>4, SameLink DEF Becomes
<1> HIDE DEF q
<1>6. Lines(q)
  BY <1>1, <1>2, <1>3 DEF Lines, Link
<1>7. Len(conns[s][r]) \in Nat
  BY <1>1
<1>8. sock[s][r] = "open" /\ s \notin down' /\ r \notin down' => Goes(q)
  <2> SUFFICES ASSUME sock[s][r] = "open", s \notin down', r \notin down'
               PROVE  Goes(q)
    OBVIOUS
  <2>1. Unfinished(conns[s][r][Len(conns[s][r])])
    BY <1>1 DEF Link, Goes
  <2>2. Len(q) \in 1 .. Len(q)
    BY <1>2, <1>7
  <2>3. Unfinished(q[Len(q)])
    BY <1>2, <1>3, <2>1, <2>2
  <2>4. q # <<>>
    BY <2>2, EmptySeq
  <2> QED BY <2>3, <2>4 DEF Goes
<1> QED BY <1>5, <1>6, <1>8, LinkChanged, Zenon

\* A socket that changes alone, and does not open.
LEMMA SocketChanged ==
  ASSUME Linked, NEW s \in Router, NEW r \in Router, NEW x \in {"0", "-1"},
         UNCHANGED conns, sock' = [sock EXCEPT ![s][r] = x],
         down \subseteq down', down' \subseteq Router
  PROVE  Linked'
<1>1. conns[s][r] \in Seq(Conn) /\ Lines(conns[s][r])
      /\ conns = [conns EXCEPT ![s][r] = conns[s][r]]
  BY SameLink DEF Link
<1>2. Becomes(s, r, conns[s][r], x) /\ x # "open"
  BY <1>1 DEF Becomes
<1> QED BY <1>1, <1>2, LinkChanged, Zenon

\* More routers are dead.
LEMMA DownGrows ==
  ASSUME Linked, UNCHANGED <<conns, sock>>, down \subseteq down', down' \subseteq Router
  PROVE  Linked'
<1>1. ASSUME NEW s \in Router, NEW r \in Router PROVE Link(s, r)'
  <2>1. Link(s, r)
    BY DEF Linked
  <2> QED BY <2>1 DEF Link, Lines, Sound, Unfinished, Goes
<1> QED BY <1>1 DEF Linked

-----------------------------------------------------------------------------
(***************************************************************************)
(* A packet goes out.                                                      *)
(***************************************************************************)

\* The first packet on a new connection.
LEMMA NewConn ==
  ASSUME NEW p \in Alive
  PROVE  LET conn == [buf |-> <<p>>, fd |-> "backlog"]
         IN  conn \in Conn /\ Sound(conn) /\ (~p.fin => Unfinished(conn))
<1> DEFINE conn == [buf |-> <<p>>, fd |-> "backlog"]
<1>1. <<p>> \in Seq(Alive) /\ Len(<<p>>) = 1 /\ <<p>>[1] = p /\ <<p>> # <<>>
  OBVIOUS
<1>2. conn \in Conn
  BY <1>1 DEF Conn
<1>3. conn.buf = <<p>> /\ conn.fd = "backlog"
  OBVIOUS
<1>4. Sound(conn)
  BY <1>1, <1>3, Constants DEF Sound
<1>5. ~p.fin => Unfinished(conn)
  BY <1>1, <1>3 DEF Unfinished
<1> QED BY <1>2, <1>4, <1>5

\* One more packet on a connection without FIN.
LEMMA MoreOnConn ==
  ASSUME NEW p \in Alive, NEW conn \in Conn, Sound(conn), Unfinished(conn),
         Len(conn.buf) < Capacity
  PROVE  LET more == [conn EXCEPT !.buf = Append(conn.buf, p)]
         IN  more \in Conn /\ Sound(more) /\ (~p.fin => Unfinished(more))
<1> DEFINE buf == Append(conn.buf, p)
           more == [conn EXCEPT !.buf = buf]
<1>1. conn.buf \in Seq(Alive) /\ Len(conn.buf) \in Nat
  BY DEF Conn
<1>2. /\ buf \in Seq(Alive) /\ Len(buf) = Len(conn.buf) + 1 /\ buf # <<>>
      /\ \A k \in 1 .. Len(conn.buf) : buf[k] = conn.buf[k]
      /\ buf[Len(buf)] = p
  BY <1>1, AppendProperties
<1>3. conn.fd \in {"backlog", "watched", "cleared"} /\ conn.fd # "cleared"
  BY DEF Conn, Unfinished
<1>4. more.buf = buf /\ more.fd = conn.fd
  BY DEF Conn
<1> HIDE DEF buf
<1>5. more \in Conn
  BY <1>2 DEF Conn
<1> HIDE DEF more
<1>6. \A k \in 1 .. Len(buf) : k = Len(buf) \/ ~buf[k].fin
  <2> SUFFICES ASSUME NEW k \in 1 .. Len(buf), k # Len(buf) PROVE ~buf[k].fin
    OBVIOUS
  <2>1. k \in 1 .. Len(conn.buf)
    BY <1>1, <1>2
  <2> QED BY <1>2, <2>1 DEF Unfinished
<1>7. Capacity \in Nat
  BY Constants
<1>8. Len(buf) <= Capacity
  BY <1>1, <1>2, <1>7
<1>9. Sound(more)
  BY <1>2, <1>3, <1>4, <1>6, <1>8 DEF Sound
<1>10. ~p.fin => Unfinished(more)
  BY <1>2, <1>3, <1>4, <1>6 DEF Unfinished
<1> QED BY <1>5, <1>9, <1>10 DEF more, buf

LEMMA TransmitKeeps ==
  ASSUME Linked, NEW r \in Router, NEW h \in Router, NEW p \in Alive,
         r \notin down, Transmit(r, h, p)
  PROVE  Linked'
<1> DEFINE line == conns[r][h]
           x == IF p.fin THEN "0" ELSE "open"
<1>1. line \in Seq(Conn) /\ sock[r][h] \in {"0", "open", "-1"} /\ Link(r, h)
  BY SameLink
<1>2. h \notin down /\ sock[r][h] # "-1" /\ UNCHANGED down /\ down \subseteq Router
  BY DEF Transmit, Linked
<1>3. sock' = [sock EXCEPT ![r][h] = x] /\ x \in {"0", "open", "-1"}
      /\ (x = "open" => ~p.fin)
  BY DEF Transmit, CloseAfter
<1>4. CASE sock[r][h] = "0"
  <2> DEFINE conn == [buf |-> <<p>>, fd |-> "backlog"]
             q == Append(line, conn)
  <2>1. conn \in Conn /\ Sound(conn) /\ (~p.fin => Unfinished(conn))
    BY NewConn
  <2>2. conns' = [conns EXCEPT ![r][h] = q]
    BY <1>4 DEF Transmit, Put
  <2> HIDE DEF conn
  <2>3. /\ q \in Seq(Conn) /\ Len(q) = Len(line) + 1 /\ q # <<>>
        /\ \A k \in 1 .. Len(line) : q[k] = line[k]
        /\ q[Len(q)] = conn
    BY <1>1, <2>1, AppendProperties
  <2> HIDE DEF q
  <2>4. Lines(q)
    <3> SUFFICES ASSUME NEW k \in 1 .. Len(q) PROVE Sound(q[k])
      BY DEF Lines
    <3>1. Len(line) \in Nat
      BY <1>1
    <3>2. k \in 1 .. Len(line) \/ k = Len(q)
      BY <2>3, <3>1
    <3> QED BY <1>1, <2>1, <2>3, <3>2 DEF Link, Lines
  <2>5. x = "open" => Goes(q)
    BY <1>3, <2>1, <2>3 DEF Goes
  <2>6. Becomes(r, h, q, x)
    BY <1>3, <2>2, <2>3 DEF Becomes
  <2> HIDE DEF x
  <2> QED BY <1>2, <2>4, <2>5, <2>6, LinkChanged, Zenon
<1>5. CASE sock[r][h] = "open"
  <2> DEFINE n == Len(line)
             more == [line[n] EXCEPT !.buf = Append(line[n].buf, p)]
             q == [line EXCEPT ![n] = more]
  <2>1. n \in 1 .. Len(line) /\ line[n] \in Conn /\ Sound(line[n])
        /\ Unfinished(line[n])
    <3>1. Goes(line)
      BY <1>1, <1>2, <1>5 DEF Link
    <3>2. n \in 1 .. Len(line)
      BY <1>1, <3>1, LenProperties, EmptySeq DEF Goes
    <3> QED BY <1>1, <3>1, <3>2, ElementOfSeq DEF Goes, Link, Lines
  <2>2. Len(line[n].buf) < Capacity
    BY <1>5 DEF Transmit, Room, Last
  <2>3. more \in Conn /\ Sound(more) /\ (~p.fin => Unfinished(more))
    BY <2>1, <2>2, MoreOnConn
  <2>4. conns' = [conns EXCEPT ![r][h] = q]
    <3>1. conns' = [conns EXCEPT ![r][h][n].buf = Append(@, p)]
      BY <1>5 DEF Transmit, Put
    <3> QED BY <3>1
  <2> HIDE DEF more
  <2>5. /\ q \in Seq(Conn) /\ Len(q) = n /\ q[n] = more
        /\ \A k \in 1 .. n : k # n => q[k] = line[k]
    BY <1>1, <2>1, <2>3, ExceptSeq
  <2> HIDE DEF q
  <2>6. Lines(q)
    BY <1>1, <2>3, <2>5 DEF Lines, Link
  <2>7. x = "open" => Goes(q)
    BY <1>3, <2>1, <2>3, <2>5, EmptySeq DEF Goes
  <2>8. Becomes(r, h, q, x)
    BY <1>3, <2>4, <2>5 DEF Becomes
  <2> HIDE DEF x
  <2> QED BY <1>2, <2>6, <2>7, <2>8, LinkChanged, Zenon
<1> QED BY <1>1, <1>2, <1>4, <1>5

LEMMA BreakKeeps ==
  ASSUME Linked, NEW r \in Router, NEW h \in Router, NEW p \in Alive, Break(r, h, p)
  PROVE  Linked'
<1>1. /\ conns[r][h] \in Seq(Conn) /\ Link(r, h)
      /\ conns = [conns EXCEPT ![r][h] = conns[r][h]]
      /\ h \in down /\ down \subseteq Router /\ UNCHANGED conns
  BY SameLink DEF Break, Linked
<1>2. CASE down' = down \cup {r} /\ UNCHANGED sock
  <2>1. down \subseteq down' /\ down' \subseteq Router
    BY <1>1, <1>2
  <2> QED BY <1>1, <1>2, <2>1, DownGrows
<1>3. CASE CloseAfter(r, h, p) /\ UNCHANGED down
  <2> DEFINE x == IF p.fin THEN "0" ELSE "open"
  <2>1. Becomes(r, h, conns[r][h], x)
    BY <1>1, <1>3 DEF Becomes, CloseAfter
  <2>2. Lines(conns[r][h]) /\ down \subseteq down' /\ down' \subseteq Router
        /\ h \in down'
    BY <1>1, <1>3 DEF Link
  <2> HIDE DEF x
  <2> QED BY <2>1, <2>2, LinkChanged, Zenon
<1> QED BY <1>2, <1>3 DEF Break

LEMMA NoSocketKeeps ==
  ASSUME Linked, Bounded, NEW r \in Router, NEW h \in Router, NoSocket(r, h)
  PROVE  Linked' /\ Bounded'
<1>1. /\ sock' = [sock EXCEPT ![r][h] = "-1"]
      /\ UNCHANGED <<conns, down, crashes, moves>>
  BY DEF NoSocket, GiveUpSocket
<1>2. down \subseteq down' /\ down' \subseteq Router
  BY <1>1 DEF Linked
<1>3. Linked'
  BY <1>1, <1>2, SocketChanged
<1>4. failures' \in 0 .. MaxFailures
  BY Constants DEF NoSocket, Bounded
<1> QED BY <1>1, <1>3, <1>4 DEF Bounded

\* However a packet is sent.
LEMMA SendKeeps ==
  ASSUME Linked, Bounded, NEW r \in Router, NEW h \in Router, NEW p \in Alive,
         r \notin down, Transmit(r, h, p) \/ Break(r, h, p) \/ NoSocket(r, h)
  PROVE  Linked' /\ Bounded'
<1>1. CASE Transmit(r, h, p)
  BY <1>1, TransmitKeeps DEF Transmit, Bounded, faults
<1>2. CASE Break(r, h, p)
  BY <1>2, BreakKeeps DEF Break, Bounded, faults
<1> QED BY <1>1, <1>2, NoSocketKeeps

LEMMA SendFileKeeps ==
  ASSUME DataInv, NEW f \in Files, SendFile(f)
  PROVE  DataInv'
<1> DEFINE r == From[f]
           js == IF TTL[f] > 0 /\ Count[f] > 0 THEN {f} ELSE {}
<1>1. /\ Sending /\ Holding /\ Linked /\ Noting /\ Writing /\ Bounded /\ route \in Routes
      /\ r \in Router
  BY Constants DEF DataInv
<1>2. /\ f \notin started /\ started' = started \cup {f}
      /\ job' = [job EXCEPT ![r] = js]
      /\ UNCHANGED <<sent, hold, sock, conns, known, first, ttls, seqs, latest,
                     open, written, down, route, failures, crashes, moves>>
  BY DEF SendFile, stats, file, faults
<1>3. Sending'
  <2>1. sent[f] = 0 /\ Count[f] \in Nat /\ TTL[f] \in Byte
    BY <1>1, <1>2, Constants DEF Sending
  <2>2. \A g \in js : g = f /\ sent[g] < Count[g] /\ TTL[g] > 0
    BY <2>1
  <2>3. js \in SUBSET Files
    OBVIOUS
  <2> HIDE DEF js
  <2>4. started' \subseteq Files /\ job' \in [Router -> SUBSET Files]
    BY <1>1, <1>2, <2>3 DEF Sending
  <2>5. ASSUME NEW s \in Router, NEW g \in job'[s]
        PROVE  s = From[g] /\ g \in started' /\ sent[g] < Count[g] /\ TTL[g] > 0
    <3>1. CASE s = r
      BY <1>1, <1>2, <2>2, <3>1 DEF Sending
    <3>2. CASE s # r
      BY <1>1, <1>2, <3>2 DEF Sending
    <3> QED BY <3>1, <3>2
  <2> QED BY <1>1, <1>2, <2>4, <2>5 DEF Sending
<1>4. Linked'
  BY <1>1, <1>2, DownGrows DEF Linked
<1> QED BY <1>1, <1>2, <1>3, <1>4 DEF DataInv, Holding, Noting, Writing, Bounded

LEMMA SequenceIsWords ==
  ASSUME NEW f \in Files, NEW i \in 1 .. Count[f]
  PROVE  Sequence(f)[i] \in Word
<1> DEFINE most == 65535
           size == 65536
           n == FirstSeq[f] + i - 1
<1>1. n \in Nat
  <2>1. FirstSeq[f] \in Nat /\ i \in Nat /\ i >= 1
    <3>1. FirstSeq[f] \in Word /\ Count[f] \in Nat
      BY Constants
    <3>2. FirstSeq[f] \in Nat
      <4>1. \A w \in Word : w \in Nat
        BY DEF Word
      <4> QED BY <3>1, <4>1
    <3>3. i \in Nat /\ i >= 1
      BY <3>1
    <3> QED BY <3>2, <3>3
  <2> QED BY <2>1
<1>2. size \in Nat \ {0} /\ most \in Nat /\ \A m \in Int : m < size => m <= most
  OBVIOUS
<1>3. Word = 0 .. most
  BY DEF Word
<1>4. Sequence(f)[i] = n % size
  BY DEF Sequence
<1> HIDE DEF most, size, n
<1>5. n % size \in Nat /\ n % size < size
  BY <1>1, <1>2
<1>6. n % size <= most
  BY <1>2, <1>5
<1> QED BY <1>2, <1>3, <1>4, <1>5, <1>6

LEMMA NextPacket ==
  ASSUME Sending, NEW f \in Files, SendNext(f)
  PROVE  LET i == sent[f] + 1
         IN  [file |-> f, seq |-> Sequence(f)[i], ttl |-> TTL[f], fin |-> Final(f, i)]
                \in Alive
<1> DEFINE i == sent[f] + 1
           p == [file |-> f, seq |-> Sequence(f)[i], ttl |-> TTL[f], fin |-> Final(f, i)]
<1>1. sent[f] < Count[f] /\ TTL[f] > 0
      /\ sent[f] \in Nat /\ Count[f] \in Nat /\ TTL[f] \in Byte
  BY Constants DEF SendNext, Sending
<1>2. i \in 1 .. Count[f]
  BY <1>1
<1>3. Sequence(f)[i] \in Word
  BY <1>2, SequenceIsWords
<1>4. Final(f, i) \in BOOLEAN
  BY DEF Final
<1> HIDE DEF i
<1>5. p \in Packet
  BY <1>1, <1>3, <1>4 DEF Packet
<1>6. p.file = f /\ p.seq = Sequence(f)[i] /\ p.ttl = TTL[f]
  OBVIOUS
<1> HIDE DEF p
<1>7. p \in Alive
  BY <1>1, <1>2, <1>5, <1>6 DEF Alive
<1> QED BY <1>7 DEF p, i

LEMMA SendNextKeeps ==
  ASSUME DataInv, NEW f \in Files, SendNext(f)
  PROVE  DataInv'
<1> DEFINE r == From[f]
           h == route[r][To[f]]
           i == sent[f] + 1
           p == [file |-> f, seq |-> Sequence(f)[i], ttl |-> TTL[f], fin |-> Final(f, i)]
<1>1. /\ Sending /\ Holding /\ Linked /\ Noting /\ Writing /\ Bounded /\ route \in Routes
      /\ r \in Router /\ To[f] \in Router
  BY Constants DEF DataInv
<1>2. h \in Router
  BY <1>1, DataAssumption
<1>3. f \in job[r] /\ r \notin down /\ f \in started /\ sent[f] < Count[f] /\ TTL[f] > 0
      /\ sent[f] \in Nat /\ Count[f] \in Nat /\ TTL[f] \in Byte
  BY <1>1, Constants DEF SendNext, Sending
<1>4. i \in 1 .. Count[f]
  BY <1>3
<1>5. p \in Alive
  BY <1>1, NextPacket
<1>6. /\ NoteSent(r, p)
      /\ \/ /\ Transmit(r, h, p) \/ Break(r, h, p)
            /\ sent' = [sent EXCEPT ![f] = i]
            /\ job' = [job EXCEPT ![r] = IF i = Count[f] THEN {} ELSE @]
         \/ /\ NoSocket(r, h)
            /\ job' = [job EXCEPT ![r] = {}]
            /\ UNCHANGED sent
      /\ UNCHANGED <<started, hold, open, written, route>>
  BY DEF SendNext, file
<1> HIDE DEF p, h
<1>7. Linked' /\ Bounded'
  BY <1>1, <1>2, <1>3, <1>5, <1>6, SendKeeps
<1>8. Noting'
  BY <1>1, <1>5, <1>6, NoteSentTyped
<1>9. Sending'
  <2>1. CASE sent' = [sent EXCEPT ![f] = i]
             /\ job' = [job EXCEPT ![r] = IF i = Count[f] THEN {} ELSE @]
    <3>1. sent' \in [Files -> Nat] /\ job' \in [Router -> SUBSET Files]
      BY <1>1, <1>3, <2>1 DEF Sending
    <3>2. ASSUME NEW g \in Files PROVE sent'[g] <= Count[g]
                                      /\ (g \notin started => sent'[g] = 0)
      BY <1>1, <1>3, <2>1 DEF Sending
    <3>3. ASSUME NEW s \in Router, NEW g \in job'[s]
          PROVE  s = From[g] /\ g \in started /\ sent'[g] < Count[g] /\ TTL[g] > 0
      <4>1. g \in job[s] /\ g \in Files
        BY <1>1, <2>1 DEF Sending
      <4>2. s = From[g] /\ g \in started /\ sent[g] < Count[g] /\ TTL[g] > 0
        BY <1>1, <4>1 DEF Sending
      <4>3. CASE g = f
        <5>1. i # Count[f]
          BY <1>1, <2>1, <4>2, <4>3 DEF Sending
        <5>2. sent'[g] = i
          BY <1>1, <2>1, <4>3 DEF Sending
        <5> QED BY <1>3, <4>2, <4>3, <5>1, <5>2
      <4>4. CASE g # f
        BY <1>1, <2>1, <4>1, <4>2, <4>4 DEF Sending
      <4> QED BY <4>3, <4>4
    <3> QED BY <1>1, <1>6, <3>1, <3>2, <3>3 DEF Sending
  <2>2. CASE job' = [job EXCEPT ![r] = {}] /\ UNCHANGED sent
    <3>1. job' \in [Router -> SUBSET Files] /\ \A s \in Router : job'[s] \subseteq job[s]
      BY <1>1, <2>2 DEF Sending
    <3> QED BY <1>1, <1>6, <2>2, <3>1 DEF Sending
  <2> QED BY <1>6, <2>1, <2>2
<1> QED BY <1>1, <1>6, <1>7, <1>8, <1>9 DEF DataInv, Holding, Writing

LEMMA ForwardKeeps ==
  ASSUME DataInv, NEW r \in Router, Forward(r)
  PROVE  DataInv'
<1> DEFINE p == hold[r][1]
           h == route[r][To[p.file]]
<1>1. /\ Sending /\ Holding /\ Linked /\ Noting /\ Writing /\ Bounded /\ route \in Routes
  BY DEF DataInv
<1>2. p \in Alive
  BY <1>1, EmptySeq DEF Holding, Forward
<1>3. h \in Router
  <2>1. To[p.file] \in Router
    BY <1>2, AlivePacket, Constants
  <2> QED BY <1>1, <2>1, DataAssumption
<1>4. /\ r \notin down /\ NoteSent(r, p)
      /\ Transmit(r, h, p) \/ Break(r, h, p) \/ NoSocket(r, h)
      /\ hold' = [hold EXCEPT ![r] = <<>>]
      /\ UNCHANGED <<started, sent, job, open, written, route>>
  BY DEF Forward, file
<1> HIDE DEF p, h
<1>5. Linked' /\ Bounded'
  BY <1>1, <1>2, <1>3, <1>4, SendKeeps
<1>6. Noting'
  BY <1>1, <1>2, <1>4, NoteSentTyped
<1>7. Holding'
  BY <1>1, <1>4, EmptySeq DEF Holding
<1> QED BY <1>1, <1>4, <1>5, <1>6, <1>7 DEF DataInv, Sending, Writing

-----------------------------------------------------------------------------
(***************************************************************************)
(* A packet is read.                                                       *)
(***************************************************************************)

\* What is left when the first packet is gone.
LEMMA RestOfConn ==
  ASSUME NEW conn \in Conn, Sound(conn), conn.buf # <<>>
  PROVE  LET p == Head(conn.buf)
             rest == Tail(conn.buf)
         IN  /\ p \in Alive /\ rest \in Seq(Alive)
             /\ Sound([buf |-> rest, fd |-> "watched"])
             /\ p.fin => rest = <<>>
             /\ Unfinished(conn) =>
                   ~p.fin /\ Unfinished([buf |-> rest, fd |-> "watched"])
<1> DEFINE p == Head(conn.buf)
           rest == Tail(conn.buf)
           new == [buf |-> rest, fd |-> "watched"]
<1>1. conn.buf \in Seq(Alive) /\ Len(conn.buf) \in Nat /\ Len(conn.buf) >= 1
  BY EmptySeq DEF Conn
<1>2. /\ p = conn.buf[1] /\ p \in Alive
      /\ rest \in Seq(Alive) /\ Len(rest) = Len(conn.buf) - 1
      /\ \A k \in 1 .. Len(rest) : rest[k] = conn.buf[k + 1]
  BY <1>1, HeadTailProperties
<1>3. new.buf = rest /\ new.fd = "watched" /\ new.fd # "cleared" /\ new.fd # "backlog"
  OBVIOUS
<1> HIDE DEF rest, new, p
<1>4. \A k \in 1 .. Len(rest) : k + 1 \in 1 .. Len(conn.buf)
  BY <1>1, <1>2
<1>5. \A k \in 1 .. Len(rest) : rest[k].fin => k = Len(rest)
  <2> SUFFICES ASSUME NEW k \in 1 .. Len(rest), rest[k].fin PROVE k = Len(rest)
    OBVIOUS
  <2>1. k + 1 = Len(conn.buf)
    BY <1>2, <1>4 DEF Sound
  <2> QED BY <1>1, <1>2, <2>1
<1>6. p.fin => rest = <<>>
  <2> SUFFICES ASSUME p.fin PROVE rest = <<>>
    OBVIOUS
  <2>1. 1 \in 1 .. Len(conn.buf)
    BY <1>1
  <2>2. 1 = Len(conn.buf)
    BY <1>2, <2>1 DEF Sound
  <2>3. Len(rest) = 0
    BY <1>2, <2>2
  <2> QED BY <1>2, <2>3, EmptySeq
<1>7. Capacity \in Nat /\ Len(rest) <= Capacity
  BY <1>1, <1>2, Constants DEF Sound
<1>8. Sound(new)
  BY <1>3, <1>5, <1>7 DEF Sound
<1>9. Unfinished(conn) => ~p.fin /\ Unfinished(new)
  <2> SUFFICES ASSUME Unfinished(conn) PROVE ~p.fin /\ Unfinished(new)
    OBVIOUS
  <2>1. 1 \in 1 .. Len(conn.buf)
    BY <1>1
  <2>2. ~p.fin
    BY <1>2, <2>1 DEF Unfinished
  <2>3. Unfinished(new)
    BY <1>2, <1>3, <1>4 DEF Unfinished
  <2> QED BY <2>2, <2>3
<1> QED BY <1>2, <1>6, <1>8, <1>9 DEF rest, new, p

LEMMA OneHopLess ==
  ASSUME NEW p \in Alive, p.ttl - 1 > 0
  PROVE  LET q == [p EXCEPT !.ttl = p.ttl - 1]
         IN  q \in Alive /\ q.file = p.file
<1> DEFINE ttl == p.ttl - 1
           q == [p EXCEPT !.ttl = ttl]
<1>1. p.ttl \in Byte /\ p \in Packet
  BY AlivePacket DEF Alive
<1>2. ttl \in Byte
  <2>1. p.ttl \in 0 .. 255
    BY <1>1 DEF Byte
  <2> QED BY <2>1 DEF Byte
<1> HIDE DEF ttl
<1>3. q.file = p.file /\ q.seq = p.seq /\ q.ttl = ttl /\ q \in Packet
  BY <1>1, <1>2 DEF Packet
<1> HIDE DEF q
<1>4. ttl > 0
  BY DEF ttl
<1>5. q \in Alive /\ q.file = p.file
  BY <1>3, <1>4 DEF Alive
<1> QED BY <1>5 DEF q, ttl

LEMMA HandleKeeps ==
  ASSUME Holding, Noting, Writing, Linked, NEW r \in Router, NEW p \in Alive, Handle(r, p)
  PROVE  /\ Holding' /\ Noting' /\ Writing'
         /\ down \subseteq down' /\ down' \subseteq Router
<1> DEFINE ttl == p.ttl - 1
           q == [p EXCEPT !.ttl = ttl]
<1>1. p.ttl \in Byte /\ p \in Packet
  BY AlivePacket DEF Alive
<1>2. ttl > 0 => q \in Alive
  BY OneHopLess
<1>3. Holding'
  <2> DEFINE new == IF ttl > 0 /\ To[p.file] # r THEN <<q>> ELSE <<>>
  <2>1. hold' = [hold EXCEPT ![r] = new]
    BY DEF Handle
  <2>2. new \in Seq(Alive) /\ Len(new) <= 1
    <3> HIDE DEF q, ttl
    <3> QED BY <1>2, EmptySeq
  <2>3. new # <<>> => To[new[1].file] # r
    <3>1. q.file = p.file
      BY <1>1 DEF Packet
    <3> HIDE DEF q, ttl
    <3> QED BY <3>1
  <2> HIDE DEF new
  <2> QED BY <2>1, <2>2, <2>3 DEF Holding
<1>4. down \subseteq Router
  BY DEF Linked
<1>5. CASE ttl > 0 /\ To[p.file] = r
  <2>1. q \in Alive /\ Save(r, q)
    BY <1>2, <1>5 DEF Handle
  <2> HIDE DEF q
  <2>2. Noting' /\ Writing' /\ down' \in {down, down \cup {r}}
    BY <1>4, <2>1, SaveTyped
  <2> QED BY <1>3, <1>4, <2>2
<1>6. CASE ~(ttl > 0 /\ To[p.file] = r)
  <2>1. UNCHANGED <<stats, file, down>>
    BY <1>6 DEF Handle
  <2> QED BY <1>3, <1>4, <2>1 DEF stats, file, Noting, Writing
<1> QED BY <1>5, <1>6

LEMMA ReceiveKeeps ==
  ASSUME DataInv, NEW s \in Router, NEW r \in Router, NEW c \in 1 .. Len(conns[s][r]),
         Accept(s, r, c) \/ Read(s, r, c) \/ ReadEnd(s, r, c)
  PROVE  DataInv'
<1> DEFINE conn == conns[s][r][c]
           p == Head(conn.buf)
           rest == [buf |-> Tail(conn.buf), fd |-> "watched"]
           ended == [buf |-> <<>>, fd |-> "cleared"]
<1>1. /\ Sending /\ Holding /\ Linked /\ Noting /\ Writing /\ Bounded /\ route \in Routes
  BY DEF DataInv
<1>2. /\ conns[s][r] \in Seq(Conn) /\ conn \in Conn /\ Sound(conn) /\ Link(s, r)
  BY <1>1, SameLink, ElementOfSeq DEF Link, Lines
<1>3. ended \in Conn /\ Sound(ended) /\ ended.buf = <<>>
  BY EmptySeq, Constants DEF Conn, Sound
<1>4. ASSUME conn.buf # <<>>, Handle(r, p), NEW new \in Conn, Sound(new),
             conns' = [conns EXCEPT ![s][r][c] = new],
             Unfinished(conn) => Unfinished(new)
      PROVE  DataInv'
  <2>1. p \in Alive
    BY <1>2, <1>4, RestOfConn
  <2>2. UNCHANGED <<started, sent, job, sock, route, failures, crashes, moves>>
    BY <1>4 DEF Handle, faults
  <2> HIDE DEF p
  <2>3. /\ Holding' /\ Noting' /\ Writing'
        /\ down \subseteq down' /\ down' \subseteq Router
    BY <1>1, <1>4, <2>1, HandleKeeps
  <2>4. Linked'
    BY <1>1, <1>4, <2>2, <2>3, ConnChanged
  <2> QED BY <1>1, <2>2, <2>3, <2>4 DEF DataInv, Sending, Bounded
<1>5. CASE Accept(s, r, c)
  <2>1. conn.buf # <<>>
    BY <1>2, <1>5 DEF Accept, Sound
  <2>2. rest \in Conn /\ Sound(rest) /\ (Unfinished(conn) => Unfinished(rest))
    BY <1>2, <2>1, RestOfConn DEF Conn
  <2>3. conns' = [conns EXCEPT ![s][r][c] = rest] /\ Handle(r, p)
    BY <1>5 DEF Accept
  <2> HIDE DEF rest, p, conn
  <2> QED BY <1>4, <2>1, <2>2, <2>3
<1>6. CASE Read(s, r, c)
  <2>1. conn.buf # <<>> /\ Handle(r, p)
    BY <1>6 DEF Read
  <2>2. CASE p.fin
    <3>1. Tail(conn.buf) = <<>> /\ ~Unfinished(conn)
      BY <1>2, <2>1, <2>2, RestOfConn
    <3>2. conns' = [conns EXCEPT ![s][r][c] = ended]
      BY <1>6, <2>2, <3>1 DEF Read
    <3> HIDE DEF ended, p, conn
    <3> QED BY <1>3, <1>4, <2>1, <3>1, <3>2
  <2>3. CASE ~p.fin
    <3>1. rest \in Conn /\ Sound(rest) /\ (Unfinished(conn) => Unfinished(rest))
      BY <1>2, <2>1, RestOfConn DEF Conn
    <3>2. conns' = [conns EXCEPT ![s][r][c] = rest]
      BY <1>6, <2>3 DEF Read
    <3> HIDE DEF rest, p, conn
    <3> QED BY <1>4, <2>1, <3>1, <3>2
  <2> QED BY <2>2, <2>3
<1>7. CASE ReadEnd(s, r, c)
  <2>1. /\ conn = [buf |-> <<>>, fd |-> "watched"]
        /\ c < Len(conns[s][r]) \/ sock[s][r] # "open" \/ s \in down
        /\ UNCHANGED <<started, sent, job, hold, sock, known, first, ttls, seqs, latest,
                       open, written, down, route, failures, crashes, moves>>
    BY <1>7 DEF ReadEnd, stats, file, faults
  <2>2. conns' = [conns EXCEPT ![s][r][c] = ended]
    <3>1. conns' = [conns EXCEPT ![s][r][c] = [conn EXCEPT !.fd = "cleared"]]
      BY <1>7 DEF ReadEnd
    <3>2. [conn EXCEPT !.fd = "cleared"] = ended
      BY <2>1
    <3> QED BY <3>1, <3>2
  <2>3. ~(sock[s][r] = "open" /\ s \notin down /\ c = Len(conns[s][r]))
    BY <1>2, <2>1
  <2>4. down \subseteq down' /\ down' \subseteq Router
    BY <1>1, <2>1 DEF Linked
  <2> HIDE DEF ended
  <2>5. Linked'
    BY <1>1, <1>3, <2>1, <2>2, <2>3, <2>4, ConnChanged
  <2> QED BY <1>1, <2>1, <2>5
          DEF DataInv, Sending, Holding, Noting, Writing, Bounded
<1> QED BY <1>5, <1>6, <1>7

-----------------------------------------------------------------------------
(***************************************************************************)
(* The theorems.                                                           *)
(***************************************************************************)

LEMMA CrashKeeps ==
  ASSUME DataInv, NEW r \in Router, Crash(r)
  PROVE  DataInv'
<1>1. /\ down' = down \cup {r} /\ crashes < MaxCrashes /\ crashes' = crashes + 1
      /\ UNCHANGED <<started, sent, job, hold, sock, conns, known, first, ttls, seqs,
                     latest, open, written, route, failures, moves>>
  BY DEF Crash, stats, file
<1>2. Linked'
  <2>1. Linked /\ down \subseteq down' /\ down' \subseteq Router
    BY <1>1 DEF DataInv, Linked
  <2> QED BY <1>1, <2>1, DownGrows
<1>3. Bounded'
  BY <1>1, Constants DEF DataInv, Bounded
<1> QED BY <1>1, <1>2, <1>3 DEF DataInv, Sending, Holding, Noting, Writing

LEMMA RerouteKeeps ==
  ASSUME DataInv, NEW r \in Router, Reroute(r)
  PROVE  DataInv'
<1>1. /\ route' \in Routes /\ moves < MaxMoves /\ moves' = moves + 1
      /\ UNCHANGED <<started, sent, job, hold, sock, conns, known, first, ttls, seqs,
                     latest, open, written, down, failures, crashes>>
  BY DEF Reroute, stats, file
<1>2. Linked'
  <2>1. Linked /\ UNCHANGED <<conns, sock>> /\ down \subseteq down' /\ down' \subseteq Router
    BY <1>1 DEF DataInv, Linked
  <2> QED BY <2>1, DownGrows
<1>3. Bounded'
  BY <1>1, Constants DEF DataInv, Bounded
<1> QED BY <1>1, <1>2, <1>3 DEF DataInv, Sending, Holding, Noting, Writing

LEMMA NextKeeps == DataInv /\ [Next]_vars => DataInv'
<1> SUFFICES ASSUME DataInv, [Next]_vars PROVE DataInv'
  OBVIOUS
<1>1. ASSUME NEW f \in Files, SendFile(f) \/ SendNext(f) PROVE DataInv'
  BY <1>1, SendFileKeeps, SendNextKeeps
<1>2. ASSUME NEW r \in Router, Forward(r) \/ Receive(r) \/ Crash(r) \/ Reroute(r)
      PROVE  DataInv'
  <2>1. CASE Receive(r)
    <3>1. PICK s \in Router : \E c \in 1 .. Len(conns[s][r]) :
                Accept(s, r, c) \/ Read(s, r, c) \/ ReadEnd(s, r, c)
      BY <2>1 DEF Receive
    <3>2. PICK c \in 1 .. Len(conns[s][r]) :
                Accept(s, r, c) \/ Read(s, r, c) \/ ReadEnd(s, r, c)
      BY <3>1
    <3> QED BY <3>2, ReceiveKeeps
  <2> QED BY <1>2, <2>1, ForwardKeeps, CrashKeeps, RerouteKeeps
<1>3. CASE UNCHANGED vars
  BY <1>3 DEF vars, stats, file, faults, DataInv, Sending, Holding, Linked, Link, Lines,
     Sound, Unfinished, Goes, Noting, Writing, Bounded
<1> QED BY <1>1, <1>2, <1>3 DEF Next

\* No connection holds more packets than its buffers have room for, no router has more
\* than one packet in hand, and no packet travels without a TTL: for any number of
\* transfers at once, with failing connects, crashes and changing routes.
THEOREM DataTyped == Spec => []TypeOK
<1>1. DataInv => TypeOK
  <2> SUFFICES ASSUME DataInv PROVE TypeOK
    OBVIOUS
  <2>1. /\ Sending /\ Holding /\ Linked /\ Noting /\ Writing /\ Bounded
        /\ route \in Routes
    BY DEF DataInv
  <2>2. \A f \in Files : sent[f] \in 0 .. Count[f]
    BY <2>1, Constants DEF Sending
  <2>3. \A p \in Alive : IsAlive(p)
    BY DEF Alive, IsAlive
  <2>4. ASSUME NEW r \in Router
        PROVE  /\ Len(hold[r]) <= 1
               /\ \A k \in 1 .. Len(hold[r]) : IsAlive(hold[r][k])
    BY <2>1, <2>3, ElementOfSeq DEF Holding
  <2>5. ASSUME NEW r \in Router, NEW h \in Router, NEW c \in 1 .. Len(conns[r][h])
        PROVE  /\ Len(conns[r][h][c].buf) <= Capacity
               /\ conns[r][h][c].fd \in {"backlog", "watched", "cleared"}
               /\ \A k \in 1 .. Len(conns[r][h][c].buf) : IsAlive(conns[r][h][c].buf[k])
    <3>1. conns[r][h] \in Seq(Conn) /\ Lines(conns[r][h])
      BY <2>1, SameLink DEF Link
    <3>2. conns[r][h][c] \in Conn /\ Sound(conns[r][h][c])
      BY <3>1, ElementOfSeq DEF Lines
    <3>3. conns[r][h][c].buf \in Seq(Alive)
      BY <3>2 DEF Conn
    <3>4. \A k \in 1 .. Len(conns[r][h][c].buf) : IsAlive(conns[r][h][c].buf[k])
      BY <2>3, <3>3, ElementOfSeq
    <3> QED BY <3>2, <3>4 DEF Conn, Sound
  <2>6. \A r \in Router :
          /\ job[r] \in SUBSET Files /\ known[r] \subseteq Files
          /\ \A h \in Router : sock[r][h] \in {"0", "open", "-1"}
          /\ \A f \in Files : first[r][f] \in Word /\ ttls[r][f] \in Byte
          /\ \A f \in Files : seqs[r][f] \in Seq(Word)
          /\ Len(latest[r]) <= 2
    BY <2>1 DEF Sending, Linked, Noting
  <2>7. /\ started \subseteq Files /\ down \subseteq Router
        /\ \A f \in Files : open[f] \in BOOLEAN /\ written[f] \in Seq(Word)
        /\ failures \in 0 .. MaxFailures /\ crashes \in 0 .. MaxCrashes
        /\ moves \in 0 .. MaxMoves
    BY <2>1 DEF Sending, Linked, Writing, Bounded
  <2> QED BY <2>1, <2>2, <2>4, <2>5, <2>6, <2>7 DEF TypeOK
<1> QED BY <1>1, InitData, NextKeeps, PTL DEF Spec

\* A descriptor is only cleared from master when everything on its connection has been
\* read: whatever transfers share a socket, close it, or are cut off by a crash, the
\* packet that closes it is the last on its connection.
THEOREM FinIsLast == Spec => []NothingUnread
<1>1. DataInv => NothingUnread
  BY SameLink DEF DataInv, Link, Lines, Sound, NothingUnread
<1> QED BY <1>1, InitData, NextKeeps, PTL DEF Spec

-----------------------------------------------------------------------------
(***************************************************************************)
(* What the controller reads of the last packets.                          *)
(***************************************************************************)

\* No packet has the number 0, which first_seq_num has as long as there is none.
NoneNumbered0 == \A f \in Files : \A i \in 1 .. Count[f] : Sequence(f)[i] # 0

\* A transfer of which no packet has been noted has no numbers, so that its entry loses
\* none when it is set up.
Entries ==
    \A r \in Router, f \in Files :
        IF r = To[f] THEN first[r][f] = 0 => seqs[r][f] = <<>>
                     ELSE f \notin known[r] => seqs[r][f] = <<>>

\* seq is the last number that r has noted of f, or the last but k.
Noticed(r, f, seq, k) ==
    Len(Noted(r, f)) > k /\ Noted(r, f)[Len(Noted(r, f)) - k] = seq

LatestOf(r) ==
    latest[r] # <<>> =>
        \E f \in Files :
            /\ Noticed(r, f, latest[r][1].seq, 0)
            /\ Len(latest[r]) = 2 =>
                 \/ Noticed(r, f, latest[r][2].seq, 1)
                 \/ \E g \in Files \ {f} : Noticed(r, g, latest[r][2].seq, 0)

NotedInv == Entries /\ \A r \in Router : LatestOf(r)

LEMMA HtonsTwice == \A n \in Word : Htons(Htons(n)) = n
<1> SUFFICES ASSUME NEW n \in Word PROVE Htons(Htons(n)) = n
  OBVIOUS
<1> DEFINE high == n % 256
           low == n \div 256
<1>1. n \in Nat /\ n <= 65535
  BY DEF Word
<1>2. high \in Nat /\ high <= 255
  BY <1>1
<1>3. low \in Nat /\ low <= 255
  <2>1. low \in Nat
    BY <1>1
  <2>2. low <= 255
    BY <1>1
  <2> QED BY <2>1, <2>2
<1>4. Htons(n) = (256 * high) + low
  BY DEF Htons
<1>5. n = (256 * low) + high
  BY <1>1
<1> HIDE DEF high, low
<1>6. ((256 * high) + low) % 256 = low
  BY <1>2, <1>3
<1>7. ((256 * high) + low) \div 256 = high
  BY <1>2, <1>3
<1>8. Htons((256 * high) + low) = (256 * low) + high
  BY <1>6, <1>7 DEF Htons
<1> QED BY <1>4, <1>5, <1>8

\* The numbers of the routers on the way are put right by the controller, those of the
\* destination by Noted.
LEMMA SwapIs ==
  ASSUME NEW q \in Seq(Word)
  PROVE  LET s == [i \in DOMAIN q |-> Htons(q[i])]
             t == [i \in DOMAIN q |-> Htons(s[i])]
         IN  /\ Len(s) = Len(q) /\ Len(t) = Len(q)
             /\ \A k \in 1 .. Len(q) : s[k] = Htons(q[k]) /\ t[k] = q[k]
<1> DEFINE s == [i \in DOMAIN q |-> Htons(q[i])]
           t == [i \in DOMAIN q |-> Htons(s[i])]
<1>1. DOMAIN q = 1 .. Len(q) /\ Len(q) \in Nat /\ \A k \in 1 .. Len(q) : q[k] \in Word
  BY ElementOfSeq
<1>2. Len(s) = Len(q) /\ \A k \in 1 .. Len(q) : s[k] = Htons(q[k])
  BY <1>1, LenProperties
<1>3. t = [i \in 1 .. Len(q) |-> Htons(s[i])]
  BY <1>1
<1> HIDE DEF s
<1>4. Len(t) = Len(q)
  BY <1>1, <1>3, LenProperties
<1>5. \A k \in 1 .. Len(q) : t[k] = q[k]
  BY <1>1, <1>2, <1>3, HtonsTwice
<1> QED BY <1>2, <1>4, <1>5 DEF s

\* r notes seq of f, and nothing else is noted.
Notes(r, f, seq) ==
    /\ \E fin \in BOOLEAN : Remember(r, seq, fin)
    /\ seqs' = [seqs EXCEPT ![r][f] =
                   Append(seqs[r][f], IF r = To[f] THEN seq ELSE Htons(seq))]

\* What was the last is the last but one.
LEMMA NotesShift ==
  ASSUME Noting, NEW r \in Router, NEW f \in Files, NEW seq \in Word,
         Notes(r, f, seq)
  PROVE  /\ Noticed(r, f, seq, 0)'
         /\ \A n : Noticed(r, f, n, 0) => Noticed(r, f, n, 1)'
         /\ \A s \in Router, g \in Files : ~(s = r /\ g = f) =>
               \A n, k : Noticed(s, g, n, k) => Noticed(s, g, n, k)'
<1> DEFINE w == IF r = To[f] THEN seq ELSE Htons(seq)
           q == seqs[r][f]
           old == Noted(r, f)
           new == Noted(r, f)'
<1>1. /\ q \in Seq(Word) /\ Len(q) \in Nat /\ w \in Word
      /\ seqs' = [seqs EXCEPT ![r][f] = Append(q, w)]
  BY HtonsIsWord DEF Noting, Notes
<1>2. seqs'[r][f] = Append(q, w)
  BY <1>1 DEF Noting
<1> HIDE DEF w, q
<1>3. /\ Len(seqs'[r][f]) = Len(q) + 1 /\ seqs'[r][f][Len(q) + 1] = w
      /\ \A k \in 1 .. Len(q) : seqs'[r][f][k] = q[k]
  BY <1>1, <1>2, AppendProperties
<1>4. /\ Len(old) = Len(q)
      /\ \A k \in 1 .. Len(q) : old[k] = IF r = To[f] THEN q[k] ELSE Htons(q[k])
  BY <1>1, SwapIs DEF q, Noted, SendfileStats
<1>5. /\ Len(new) = Len(seqs'[r][f])
      /\ \A k \in 1 .. Len(seqs'[r][f]) :
            new[k] = IF r = To[f] THEN seqs'[r][f][k] ELSE Htons(seqs'[r][f][k])
  <2>1. Append(q, w) \in Seq(Word)
    BY <1>1, AppendProperties
  <2>2. seqs'[r][f] \in Seq(Word)
    BY <1>2, <2>1
  <2> QED BY <2>2, SwapIs DEF Noted, SendfileStats
<1> HIDE DEF old, new
<1>6. 1 .. Len(q) \subseteq 1 .. Len(q) + 1 /\ Len(q) + 1 \in 1 .. Len(q) + 1
  BY <1>1
<1>7. \A k \in 1 .. Len(q) : new[k] = old[k]
  BY <1>3, <1>4, <1>5, <1>6
<1>8. new[Len(q) + 1] = seq
  <2>1. new[Len(q) + 1] = IF r = To[f] THEN w ELSE Htons(w)
    BY <1>3, <1>5, <1>6
  <2> QED BY <2>1, HtonsTwice DEF w
<1>9. Noticed(r, f, seq, 0)'
  BY <1>1, <1>3, <1>5, <1>8 DEF Noticed, new
<1>10. ASSUME NEW n, Noticed(r, f, n, 0) PROVE Noticed(r, f, n, 1)'
  <2>1. Len(q) >= 1 /\ old[Len(q)] = n
    BY <1>1, <1>4, <1>10 DEF Noticed, old
  <2>2. Len(q) \in 1 .. Len(q)
    BY <1>1, <2>1
  <2>3. new[Len(q)] = n
    BY <1>7, <2>1, <2>2
  <2> QED BY <1>1, <1>3, <1>5, <2>1, <2>3 DEF Noticed, new
<1>11. ASSUME NEW s \in Router, NEW g \in Files, ~(s = r /\ g = f), NEW n, NEW k,
              Noticed(s, g, n, k)
       PROVE  Noticed(s, g, n, k)'
  <2>1. seqs'[s][g] = seqs[s][g]
    BY <1>1, <1>11 DEF Noting
  <2> QED BY <1>11, <2>1 DEF Noticed, Noted, SendfileStats
<1> QED BY <1>9, <1>10, <1>11

LEMMA NotesKeep ==
  ASSUME Noting, \A s \in Router : LatestOf(s),
         NEW r \in Router, NEW f \in Files, NEW seq \in Word, Notes(r, f, seq)
  PROVE  \A s \in Router : LatestOf(s)'
<1>1. PICK fin \in BOOLEAN : Remember(r, seq, fin)
  BY DEF Notes
<1> DEFINE x == [seq |-> seq, fin |-> fin]
<1>2. x.seq = seq /\ latest \in [Router -> Seq(Latest)]
      /\ latest' = [latest EXCEPT ![r] = IF latest[r] = <<>> THEN <<x>>
                                                      ELSE <<x, latest[r][1]>>]
  BY <1>1 DEF Remember, Noting
<1> HIDE DEF x
<1>3. /\ Noticed(r, f, seq, 0)'
      /\ \A n : Noticed(r, f, n, 0) => Noticed(r, f, n, 1)'
      /\ \A s \in Router, g \in Files : ~(s = r /\ g = f) =>
            \A n, k : Noticed(s, g, n, k) => Noticed(s, g, n, k)'
  BY NotesShift
<1>4. ASSUME NEW s \in Router, s # r PROVE LatestOf(s)'
  <2>1. latest'[s] = latest[s] /\ LatestOf(s)
    BY <1>2, <1>4
  <2>2. \A g \in Files : \A n, k : Noticed(s, g, n, k) => Noticed(s, g, n, k)'
    BY <1>3, <1>4
  <2> QED BY <2>1, <2>2, Zenon DEF LatestOf
<1>5. LatestOf(r)'
  <2>1. CASE latest[r] = <<>>
    <3>1. latest'[r] = <<x>>
      BY <1>2, <2>1
    <3>2. latest'[r][1] = x /\ Len(latest'[r]) = 1
      BY <3>1
    <3>3. Len(latest'[r]) # 2 /\ Noticed(r, f, latest[r][1].seq, 0)'
      BY <1>2, <1>3, <3>2 DEF Noticed
    <3> QED BY <3>3, Zenon DEF LatestOf
  <2>2. CASE latest[r] # <<>>
    <3>1. latest'[r] = <<x, latest[r][1]>>
      BY <1>2, <2>2
    <3>2. PICK n : n = latest[r][1].seq
      OBVIOUS
    <3>3. latest'[r][1] = x /\ latest'[r][2] = latest[r][1]
      BY <3>1
    <3>4. PICK g \in Files : Noticed(r, g, n, 0)
      BY <2>2, <3>2 DEF LatestOf
    <3>5. Noticed(r, f, latest[r][1].seq, 0)'
      BY <1>2, <1>3, <3>3 DEF Noticed
    <3>6. CASE g = f
      <4>1. Noticed(r, f, n, 1)'
        BY <1>3, <3>4, <3>6
      <4>2. Noticed(r, f, latest[r][2].seq, 1)'
        BY <3>2, <3>3, <4>1 DEF Noticed
      <4> QED BY <3>5, <4>2, Zenon DEF LatestOf
    <3>7. CASE g # f
      <4>1. Noticed(r, g, n, 0)' /\ g \in Files \ {f}
        BY <1>3, <3>4, <3>7
      <4>2. Noticed(r, g, latest[r][2].seq, 0)'
        BY <3>2, <3>3, <4>1 DEF Noticed
      <4> QED BY <3>5, <4>1, <4>2, Zenon DEF LatestOf
    <3> QED BY <3>6, <3>7
  <2> QED BY <2>1, <2>2
<1> QED BY <1>4, <1>5

\* What is noted changes when a packet is sent on by a router that is not its
\* destination, or written by its destination.
LEMMA NotingSteps ==
  ASSUME DataInv, [Next]_vars
  PROVE  \/ UNCHANGED <<known, first, seqs, latest, written>>
         \/ \E r \in Router, p \in Alive :
               r # To[p.file] /\ NoteSent(r, p) /\ UNCHANGED written
         \/ \E r \in Router, p \in Alive : r = To[p.file] /\ Save(r, p)
<1> DEFINE Goal ==
      \/ UNCHANGED <<known, first, seqs, latest, written>>
      \/ \E r \in Router, p \in Alive :
            r # To[p.file] /\ NoteSent(r, p) /\ UNCHANGED written
      \/ \E r \in Router, p \in Alive : r = To[p.file] /\ Save(r, p)
<1>1. ASSUME NEW f \in Files, SendFile(f) PROVE Goal
  BY <1>1 DEF SendFile, stats, file
<1>2. ASSUME NEW f \in Files, SendNext(f) PROVE Goal
  <2> DEFINE i == sent[f] + 1
             p == [file |-> f, seq |-> Sequence(f)[i], ttl |-> TTL[f],
                   fin |-> Final(f, i)]
  <2>1. p \in Alive
    BY <1>2, NextPacket DEF DataInv
  <2>2. From[f] \in Router /\ From[f] # To[p.file]
    BY DataAssumption, Constants
  <2>3. NoteSent(From[f], p) /\ UNCHANGED written
    BY <1>2 DEF SendNext, file
  <2> HIDE DEF p
  <2> QED BY <2>1, <2>2, <2>3
<1>3. ASSUME NEW r \in Router, Forward(r) PROVE Goal
  <2>1. hold[r] # <<>> /\ NoteSent(r, hold[r][1]) /\ UNCHANGED written
    BY <1>3 DEF Forward, file
  <2>2. hold[r][1] \in Alive /\ To[hold[r][1].file] # r
    BY <2>1, EmptySeq DEF DataInv, Holding
  <2> QED BY <2>1, <2>2
<1>4. ASSUME NEW r \in Router, NEW p \in Alive, Handle(r, p) PROVE Goal
  <2> DEFINE q == [p EXCEPT !.ttl = p.ttl - 1]
  <2>1. CASE p.ttl - 1 > 0 /\ To[p.file] = r
    <3>1. Save(r, q)
      BY <1>4, <2>1 DEF Handle
    <3>2. q \in Alive /\ q.file = p.file
      BY <2>1, OneHopLess
    <3> HIDE DEF q
    <3> QED BY <2>1, <3>1, <3>2
  <2>2. CASE ~(p.ttl - 1 > 0 /\ To[p.file] = r)
    BY <1>4, <2>2 DEF Handle, stats, file
  <2> QED BY <2>1, <2>2
<1>5. ASSUME NEW r \in Router, Receive(r) PROVE Goal
  <2>1. PICK s \in Router : \E c \in 1 .. Len(conns[s][r]) :
            Accept(s, r, c) \/ Read(s, r, c) \/ ReadEnd(s, r, c)
    BY <1>5 DEF Receive
  <2>2. PICK c \in 1 .. Len(conns[s][r]) :
            Accept(s, r, c) \/ Read(s, r, c) \/ ReadEnd(s, r, c)
    BY <2>1
  <2> DEFINE conn == conns[s][r][c]
  <2>3. conn \in Conn /\ Sound(conn)
    <3>1. conns[s][r] \in Seq(Conn) /\ Link(s, r)
      BY SameLink DEF DataInv
    <3> QED BY <3>1, ElementOfSeq DEF Link, Lines
  <2>4. CASE ReadEnd(s, r, c)
    BY <2>4 DEF ReadEnd, stats, file
  <2>5. CASE Accept(s, r, c) \/ Read(s, r, c)
    <3>1. conn.buf # <<>> /\ Handle(r, Head(conn.buf))
      BY <2>3, <2>5 DEF Accept, Read, Sound
    <3>2. Head(conn.buf) \in Alive
      BY <2>3, <3>1, RestOfConn
    <3> QED BY <1>4, <3>1, <3>2
  <2> QED BY <2>2, <2>4, <2>5
<1>6. ASSUME NEW r \in Router, Crash(r) \/ Reroute(r) PROVE Goal
  <2>1. UNCHANGED <<stats, file>>
    BY <1>6 DEF Crash, Reroute
  <2> QED BY <2>1 DEF stats, file
<1>7. UNCHANGED vars => Goal
  BY DEF vars, stats, file
<1> HIDE DEF Goal
<1>8. Goal
  BY <1>1, <1>2, <1>3, <1>5, <1>6, <1>7 DEF Next
<1> QED BY <1>8 DEF Goal

LEMMA NotedKept ==
  ASSUME NoneNumbered0, DataInv, NotedInv, [Next]_vars
  PROVE  NotedInv'
<1>1. Noting /\ Entries /\ \A s \in Router : LatestOf(s)
  BY DEF DataInv, NotedInv
<1>2. CASE UNCHANGED <<known, first, seqs, latest>>
  <2>1. Entries'
    BY <1>1, <1>2 DEF Entries
  <2>2. \A s \in Router, g \in Files : \A n, k : Noticed(s, g, n, k)' <=> Noticed(s, g, n, k)
    BY <1>2 DEF Noticed, Noted, SendfileStats
  <2>3. ASSUME NEW s \in Router PROVE LatestOf(s)'
    <3>1. LatestOf(s) /\ latest' = latest
      BY <1>1, <1>2
    <3>2. \A g \in Files : \A n, k : Noticed(s, g, n, k)' <=> Noticed(s, g, n, k)
      BY <2>2
    <3> QED BY <3>1, <3>2, Zenon DEF LatestOf
  <2> QED BY <2>1, <2>3 DEF NotedInv
<1>3. ASSUME NEW r \in Router, NEW p \in Alive, r # To[p.file], NoteSent(r, p)
      PROVE  NotedInv'
  <2> DEFINE f == p.file
  <2>1. f \in Files /\ p.seq \in Word /\ p.fin \in BOOLEAN
    BY AlivePacket
  <2>2. f \notin known[r] => seqs[r][f] = <<>>
    BY <1>1, <1>3, <2>1 DEF Entries
  <2>3. /\ Remember(r, p.seq, p.fin) /\ known' = [known EXCEPT ![r] = @ \cup {f}]
        /\ first' = [first EXCEPT ![r][f] = IF f \notin known[r] THEN p.seq ELSE @]
        /\ seqs' = [seqs EXCEPT ![r][f] =
                       Append(IF f \notin known[r] THEN <<>> ELSE seqs[r][f],
                              Htons(p.seq))]
    BY <1>3 DEF NoteSent
  <2>4. seqs' = [seqs EXCEPT ![r][f] = Append(seqs[r][f], Htons(p.seq))]
    BY <2>2, <2>3
  <2>5. Notes(r, f, p.seq)
    BY <1>3, <2>1, <2>3, <2>4 DEF Notes
  <2> HIDE DEF f
  <2>6. \A s \in Router : LatestOf(s)'
    BY <1>1, <2>1, <2>5, NotesKeep
  <2>7. Entries'
    <3>1. ASSUME NEW s \in Router, NEW g \in Files, ~(s = r /\ g = f)
          PROVE  /\ seqs'[s][g] = seqs[s][g] /\ first'[s][g] = first[s][g]
                 /\ (g \in known'[s] <=> g \in known[s])
      BY <1>1, <2>1, <2>3, <2>4, <3>1 DEF Noting
    <3>2. f \in known'[r]
      BY <1>1, <2>3 DEF Noting
    <3> QED BY <1>1, <1>3, <3>1, <3>2 DEF Entries, f
  <2> QED BY <2>6, <2>7 DEF NotedInv
<1>4. ASSUME NEW r \in Router, NEW p \in Alive, r = To[p.file], Save(r, p)
      PROVE  NotedInv'
  <2> DEFINE f == p.file
  <2>1. f \in Files /\ p.seq \in Word
    BY AlivePacket
  <2>2. p.seq # 0
    <3>1. PICK i \in 1 .. Count[f] : p.seq = Sequence(f)[i]
      BY DEF Alive
    <3> QED BY <2>1, <3>1 DEF NoneNumbered0
  <2>3. first[r][f] = 0 => seqs[r][f] = <<>>
    BY <1>1, <1>4, <2>1 DEF Entries
  <2>4. CASE open[f] \/ f \notin known[r]
    <3>1. /\ \E fin \in BOOLEAN : Remember(r, p.seq, fin)
          /\ first[r][f] = 0 =>
                /\ known' = [known EXCEPT ![r] = @ \cup {f}]
                /\ first' = [first EXCEPT ![r][f] = p.seq]
                /\ seqs' = [seqs EXCEPT ![r][f] = <<p.seq>>]
          /\ first[r][f] # 0 =>
                /\ seqs' = [seqs EXCEPT ![r][f] = Append(seqs[r][f], p.seq)]
                /\ UNCHANGED <<known, first>>
      BY <1>4, <2>4 DEF Save
    <3>2. Append(<<>>, p.seq) = <<p.seq>>
      BY <2>1
    <3>3. seqs' = [seqs EXCEPT ![r][f] = Append(seqs[r][f], p.seq)]
      BY <2>3, <3>1, <3>2
    <3>4. Notes(r, f, p.seq)
      BY <1>4, <3>1, <3>3 DEF Notes
    <3> HIDE DEF f
    <3>5. \A s \in Router : LatestOf(s)'
      BY <1>1, <2>1, <3>4, NotesKeep
    <3>6. Entries'
      <4>1. ASSUME NEW s \in Router, NEW g \in Files, ~(s = r /\ g = f)
            PROVE  /\ seqs'[s][g] = seqs[s][g] /\ first'[s][g] = first[s][g]
                   /\ (g \in known'[s] <=> g \in known[s])
        <5>1. CASE first[r][f] = 0
          BY <1>1, <2>1, <3>1, <3>3, <4>1, <5>1 DEF Noting
        <5>2. CASE first[r][f] # 0
          BY <1>1, <2>1, <3>1, <3>3, <4>1, <5>2 DEF Noting
        <5> QED BY <5>1, <5>2
      <4>2. first'[r][f] # 0
        BY <1>1, <2>1, <2>2, <3>1 DEF Noting
      <4> QED BY <1>1, <1>4, <4>1, <4>2 DEF Entries, f
    <3> QED BY <3>5, <3>6 DEF NotedInv
  <2>5. CASE ~(open[f] \/ f \notin known[r])
    <3>1. UNCHANGED <<known, first, seqs, latest>>
      BY <1>4, <2>5 DEF Save, stats
    <3> QED BY <1>2, <3>1
  <2> QED BY <2>4, <2>5
<1> QED BY <1>2, <1>3, <1>4, NotingSteps

\* The answers to LAST- and PENULTIMATE-DATA-PACKET are the ends of the answers to
\* SENDFILE-STATS, for any number of transfers through the same router, however their
\* packets alternate: unless a packet is numbered 0, which the destination takes for
\* the first of its file.
THEOREM LatestNoted ==
  ASSUME NoneNumbered0
  PROVE  Spec => []LatestAreNoted
<1>1. Init => NotedInv
  BY DEF Init, NotedInv, Entries, LatestOf
<1>2. DataInv /\ NotedInv => LatestAreNoted
  <2> SUFFICES ASSUME DataInv, NotedInv, NEW r \in Router, LastDataPacket(r) # <<>>
               PROVE  \E f \in Files :
            /\ Noted(r, f) # <<>> /\ LastDataPacket(r)[1].seq = Last(Noted(r, f))
            /\ PenultimateDataPacket(r) # <<>> =>
                 LET seq == PenultimateDataPacket(r)[1].seq
                 IN  \/ Len(Noted(r, f)) >= 2 /\ seq = Last(Front(Noted(r, f)))
                     \/ \E g \in Files \ {f} :
                          Noted(r, g) # <<>> /\ seq = Last(Noted(r, g))
    BY DEF LatestAreNoted
  <2>1. latest[r] # <<>> /\ LastDataPacket(r) = <<latest[r][1]>>
        /\ PenultimateDataPacket(r) = Tail(latest[r])
    BY DEF LastDataPacket, PenultimateDataPacket
  <2>2. latest[r] \in Seq(Latest) /\ Len(latest[r]) \in 1 .. 2
    <3>1. latest[r] \in Seq(Latest) /\ Len(latest[r]) <= 2
      BY DEF DataInv, Noting
    <3>2. Len(latest[r]) \in Nat /\ Len(latest[r]) # 0
      BY <2>1, <3>1, EmptySeq
    <3>3. \A n \in Nat : n # 0 /\ n <= 2 => n \in 1 .. 2
      OBVIOUS
    <3> QED BY <3>1, <3>2, <3>3
  <2>3. PenultimateDataPacket(r) # <<>> =>
          Len(latest[r]) = 2 /\ PenultimateDataPacket(r)[1] = latest[r][2]
    BY <2>1, <2>2, HeadTailProperties
  <2>4. ASSUME NEW f \in Files, NEW seq
        PROVE  /\ Noticed(r, f, seq, 0) => Noted(r, f) # <<>> /\ seq = Last(Noted(r, f))
               /\ Noticed(r, f, seq, 1) =>
                     Len(Noted(r, f)) >= 2 /\ seq = Last(Front(Noted(r, f)))
    <3>1. seqs[r][f] \in Seq(Word)
      BY DEF DataInv, Noting
    <3> DEFINE q == seqs[r][f]
               s == [i \in 1 .. Len(q) |-> Htons(q[i])]
               t == [i \in 1 .. Len(q) |-> Htons(s[i])]
    <3>2. Len(q) \in Nat /\ DOMAIN q = 1 .. Len(q) /\ \A i \in 1 .. Len(q) : q[i] \in Word
      BY <3>1, ElementOfSeq
    <3>3. s \in Seq(Word)
      BY <3>2, HtonsIsWord
    <3>4. t \in Seq(Word)
      BY <3>2, HtonsIsWord
    <3>5. Noted(r, f) = IF r = To[f] THEN t ELSE s
      BY <3>2 DEF Noted, SendfileStats
    <3>6. Noted(r, f) \in Seq(Word)
      BY <3>3, <3>4, <3>5
    <3> QED BY <3>6, SubSeqProperties, EmptySeq DEF Noticed, Last, Front
  <2>5. PICK f \in Files :
            /\ Noticed(r, f, latest[r][1].seq, 0)
            /\ Len(latest[r]) = 2 =>
                 \/ Noticed(r, f, latest[r][2].seq, 1)
                 \/ \E g \in Files \ {f} : Noticed(r, g, latest[r][2].seq, 0)
    BY <2>1 DEF NotedInv, LatestOf
  <2> QED BY <2>1, <2>3, <2>4, <2>5
<1>3. Spec => []DataInv
  BY InitData, NextKeeps, PTL DEF Spec
<1>4. DataInv /\ NotedInv /\ [Next]_vars => NotedInv'
  BY NotedKept
<1> QED BY <1>1, <1>2, <1>3, <1>4, PTL DEF Spec

-----------------------------------------------------------------------------
(***************************************************************************)
(* Where the packets are.                                                  *)
(***************************************************************************)

\* Place k on connection c of a line, and the packet there.
Place(line, c, k) == c \in 1 .. Len(line) /\ k \in 1 .. Len(line[c].buf)
At(line, c, k) == line[c].buf[k]

LEMMA BufferedIs ==
  ASSUME NEW f, NEW lines, NEW x
  PROVE  x \in Buffered(f, lines) <=>
            \E s, r \in Router : \E c, k \in Nat :
                /\ Place(lines[s][r], c, k) /\ At(lines[s][r], c, k).file = f
                /\ x = <<s, r, c, k>>
<1> DEFINE OnConn(s, r, c) ==
             {<<s, r, c, k>> : k \in {k \in 1 .. Len(lines[s][r][c].buf) :
                                        lines[s][r][c].buf[k].file = f}}
           OnLine(s, r) == UNION {OnConn(s, r, c) : c \in 1 .. Len(lines[s][r])}
<1>1. Buffered(f, lines) = UNION {OnLine(s, r) : s \in Router, r \in Router}
  BY DEF Buffered
<1>2. x \in Buffered(f, lines) <=> \E s, r \in Router : x \in OnLine(s, r)
  <2> HIDE DEF OnLine
  <2>1. x \in UNION {OnLine(s, r) : s \in Router, r \in Router} <=>
          \E s, r \in Router : x \in OnLine(s, r)
    OBVIOUS
  <2> QED BY <1>1, <2>1
<1>3. ASSUME NEW s \in Router, NEW r \in Router
      PROVE  x \in OnLine(s, r) <=>
                \E c, k \in Nat :
                    /\ Place(lines[s][r], c, k) /\ At(lines[s][r], c, k).file = f
                    /\ x = <<s, r, c, k>>
  <2>1. x \in OnLine(s, r) <=> \E c \in 1 .. Len(lines[s][r]) : x \in OnConn(s, r, c)
    OBVIOUS
  <2>2. \A c : x \in OnConn(s, r, c) <=>
                 \E k \in 1 .. Len(lines[s][r][c].buf) :
                     lines[s][r][c].buf[k].file = f /\ x = <<s, r, c, k>>
    OBVIOUS
  <2>3. \A m : 1 .. m \subseteq Nat
    OBVIOUS
  <2> HIDE DEF OnConn, OnLine
  <2> QED BY <2>1, <2>2, <2>3 DEF Place, At
<1> HIDE DEF OnConn, OnLine
<1> QED BY <1>2, <1>3

\* The packet p is the last on the line: at a place that was none before.
Gains(q, line, p) ==
    \E c, k \in Nat :
        /\ ~Place(line, c, k) /\ Place(q, c, k) /\ At(q, c, k) = p
        /\ \A d, l \in Nat : ~(d = c /\ l = k) =>
              /\ Place(q, d, l) <=> Place(line, d, l)
              /\ Place(line, d, l) => At(q, d, l) = At(line, d, l)

\* The packet p is gone, the first of connection c: those behind it are one place further.
DropsOn(q, line, c, p) ==
    /\ c \in Nat /\ Place(line, c, 1) /\ At(line, c, 1) = p
    /\ \A k \in Nat :
          /\ Place(q, c, k) <=> k >= 1 /\ Place(line, c, k + 1)
          /\ Place(q, c, k) => At(q, c, k) = At(line, c, k + 1)
    /\ \A d, k \in Nat : d # c =>
          /\ Place(q, d, k) <=> Place(line, d, k)
          /\ Place(line, d, k) => At(q, d, k) = At(line, d, k)

Drops(q, line, p) == \E c \in Nat : DropsOn(q, line, c, p)

\* Only the line from s to r changes, which becomes q.
OneLine(new, old, s, r, q) ==
    /\ new[s][r] = q
    /\ \A a, b \in Router : ~(a = s /\ b = r) => new[a][b] = old[a][b]

LEMMA GainsCount ==
  ASSUME NEW f, NEW new, NEW old, NEW s \in Router, NEW r \in Router, NEW q, NEW p,
         OneLine(new, old, s, r, q), Gains(q, old[s][r], p), IsFiniteSet(Buffered(f, old))
  PROVE  /\ IsFiniteSet(Buffered(f, new))
         /\ Cardinality(Buffered(f, new)) =
               Cardinality(Buffered(f, old)) + (IF p.file = f THEN 1 ELSE 0)
<1>1. PICK c \in Nat, k \in Nat :
        /\ ~Place(old[s][r], c, k) /\ Place(q, c, k) /\ At(q, c, k) = p
        /\ \A d, l \in Nat : ~(d = c /\ l = k) =>
              /\ Place(q, d, l) <=> Place(old[s][r], d, l)
              /\ Place(old[s][r], d, l) => At(q, d, l) = At(old[s][r], d, l)
  BY DEF Gains
<1> DEFINE x == <<s, r, c, k>>
<1>2. x \notin Buffered(f, old)
  BY <1>1, BufferedIs
<1>3. ASSUME NEW y, y \in Buffered(f, old)
      PROVE  y \in Buffered(f, new)
  <2>1. PICK a \in Router, b \in Router, d \in Nat, l \in Nat :
            /\ Place(old[a][b], d, l) /\ At(old[a][b], d, l).file = f
            /\ y = <<a, b, d, l>>
    BY <1>3, BufferedIs
  <2>2. Place(new[a][b], d, l) /\ At(new[a][b], d, l) = At(old[a][b], d, l)
    BY <1>1, <2>1 DEF OneLine
  <2> QED BY <2>1, <2>2, BufferedIs
<1>4. ASSUME NEW y, y \in Buffered(f, new), y # x
      PROVE  y \in Buffered(f, old)
  <2>1. PICK a \in Router, b \in Router, d \in Nat, l \in Nat :
            /\ Place(new[a][b], d, l) /\ At(new[a][b], d, l).file = f
            /\ y = <<a, b, d, l>>
    BY <1>4, BufferedIs
  <2>2. Place(old[a][b], d, l) /\ At(new[a][b], d, l) = At(old[a][b], d, l)
    BY <1>1, <1>4, <2>1 DEF OneLine
  <2> QED BY <2>1, <2>2, BufferedIs
<1>5. x \in Buffered(f, new) <=> p.file = f
  <2>1. Place(new[s][r], c, k) /\ At(new[s][r], c, k) = p
    BY <1>1 DEF OneLine
  <2>2. ASSUME x \in Buffered(f, new) PROVE p.file = f
    <3>1. PICK a \in Router, b \in Router, d \in Nat, l \in Nat :
              At(new[a][b], d, l).file = f /\ x = <<a, b, d, l>>
      BY <2>2, BufferedIs
    <3>2. a = s /\ b = r /\ d = c /\ l = k
      BY <3>1
    <3> QED BY <2>1, <3>1, <3>2
  <2> QED BY <2>1, <2>2, BufferedIs
<1> HIDE DEF x
<1>6. CASE p.file = f
  <2>1. Buffered(f, new) = Buffered(f, old) \cup {x}
    BY <1>3, <1>4, <1>5, <1>6
  <2> QED BY <1>2, <1>6, <2>1, FS_AddElement
<1>7. CASE p.file # f
  <2>1. Buffered(f, new) = Buffered(f, old)
    BY <1>3, <1>4, <1>5, <1>7
  <2>2. Cardinality(Buffered(f, old)) \in Nat
    BY FS_CardinalityType
  <2> QED BY <1>7, <2>1, <2>2
<1> QED BY <1>6, <1>7

\* A one-to-one function onto T.
LEMMA SameSize ==
  ASSUME NEW S, NEW T, NEW g \in [S -> T], IsFiniteSet(S),
         \A a, b \in S : g[a] = g[b] => a = b,
         \A b \in T : \E a \in S : g[a] = b
  PROVE  IsFiniteSet(T) /\ Cardinality(T) = Cardinality(S)
<1>1. g \in Injection(S, T)
  BY DEF Injection, IsInjective
<1>2. g \in Surjection(S, T)
  BY DEF Surjection
<1>3. ExistsBijection(S, T)
  BY <1>1, <1>2 DEF ExistsBijection, Bijection
<1> QED BY <1>3, FS_Bijection

LEMMA DropsCount ==
  ASSUME NEW f, NEW new, NEW old, NEW s \in Router, NEW r \in Router, NEW q, NEW p,
         OneLine(new, old, s, r, q), Drops(q, old[s][r], p), IsFiniteSet(Buffered(f, old))
  PROVE  /\ IsFiniteSet(Buffered(f, new))
         /\ Cardinality(Buffered(f, new)) =
               Cardinality(Buffered(f, old)) - (IF p.file = f THEN 1 ELSE 0)
<1>0. PICK c \in Nat : DropsOn(q, old[s][r], c, p)
  BY DEF Drops
<1> DEFINE x == <<s, r, c, 1>>
           rest == Buffered(f, old) \ {x}
           Moved(y) == IF y[1] = s /\ y[2] = r /\ y[3] = c
                       THEN <<s, r, c, y[4] - 1>> ELSE y
           g == [y \in rest |-> Moved(y)]
<1>1. /\ c \in Nat /\ Place(old[s][r], c, 1) /\ At(old[s][r], c, 1) = p
      /\ \A k \in Nat :
            /\ Place(q, c, k) <=> k >= 1 /\ Place(old[s][r], c, k + 1)
            /\ Place(q, c, k) => At(q, c, k) = At(old[s][r], c, k + 1)
      /\ \A d, k \in Nat : d # c =>
            /\ Place(q, d, k) <=> Place(old[s][r], d, k)
            /\ Place(old[s][r], d, k) => At(q, d, k) = At(old[s][r], d, k)
  BY <1>0 DEF DropsOn
<1>2. x \in Buffered(f, old) <=> p.file = f
  <2>1. ASSUME x \in Buffered(f, old) PROVE p.file = f
    <3>1. PICK a \in Router, b \in Router, d \in Nat, l \in Nat :
              At(old[a][b], d, l).file = f /\ x = <<a, b, d, l>>
      BY <2>1, BufferedIs
    <3>2. a = s /\ b = r /\ d = c /\ l = 1
      BY <3>1
    <3> QED BY <1>1, <3>1, <3>2
  <2> QED BY <1>1, <2>1, BufferedIs
<1>3. ASSUME NEW y \in rest
      PROVE  \E a, b \in Router : \E d, l \in Nat :
                /\ y = <<a, b, d, l>> /\ l >= 1
                /\ Place(old[a][b], d, l) /\ At(old[a][b], d, l).file = f
                /\ a = s /\ b = r /\ d = c => l - 1 \in Nat /\ l - 1 >= 1
  <2>1. PICK a \in Router, b \in Router, d \in Nat, l \in Nat :
            /\ Place(old[a][b], d, l) /\ At(old[a][b], d, l).file = f
            /\ y = <<a, b, d, l>>
    BY BufferedIs
  <2>2. l >= 1
    BY <2>1 DEF Place
  <2>3. a = s /\ b = r /\ d = c => l # 1
    BY <2>1
  <2>4. l # 1 => l - 1 \in Nat /\ l - 1 >= 1
    BY <2>2
  <2> QED BY <2>1, <2>2, <2>3, <2>4, Zenon
<1>4. ASSUME NEW y \in rest
      PROVE  Moved(y) \in Buffered(f, new)
  <2>1. PICK a \in Router, b \in Router, d \in Nat, l \in Nat :
            /\ y = <<a, b, d, l>> /\ l >= 1
            /\ Place(old[a][b], d, l) /\ At(old[a][b], d, l).file = f
            /\ a = s /\ b = r /\ d = c => l - 1 \in Nat /\ l - 1 >= 1
    BY <1>3
  <2>2. CASE a = s /\ b = r /\ d = c
    <3>1. l - 1 \in Nat /\ l - 1 >= 1 /\ (l - 1) + 1 = l
      BY <2>1, <2>2
    <3>2. Place(q, c, l - 1) /\ At(q, c, l - 1) = At(old[s][r], c, l)
      BY <1>1, <2>1, <2>2, <3>1
    <3>3. new[s][r] = q
      BY DEF OneLine
    <3>4. <<s, r, c, l - 1>> \in Buffered(f, new)
      BY <1>1, <2>1, <2>2, <3>1, <3>2, <3>3, BufferedIs
    <3> QED BY <2>1, <2>2, <3>4
  <2>3. CASE ~(a = s /\ b = r /\ d = c)
    <3>1. Place(new[a][b], d, l) /\ At(new[a][b], d, l) = At(old[a][b], d, l)
      BY <1>1, <2>1, <2>3 DEF OneLine
    <3>2. y \in Buffered(f, new)
      BY <2>1, <3>1, BufferedIs
    <3> QED BY <2>1, <2>3, <3>2
  <2> QED BY <2>2, <2>3
<1>5. ASSUME NEW y \in rest, NEW z \in rest, Moved(y) = Moved(z)
      PROVE  y = z
  <2>1. PICK a \in Router, b \in Router, d \in Nat, l \in Nat : y = <<a, b, d, l>>
    BY <1>3
  <2>2. PICK aa \in Router, bb \in Router, dd \in Nat, ll \in Nat :
            z = <<aa, bb, dd, ll>>
    BY <1>3
  <2> QED BY <1>5, <2>1, <2>2
<1>6. ASSUME NEW z \in Buffered(f, new)
      PROVE  \E y \in rest : Moved(y) = z
  <2>1. PICK a \in Router, b \in Router, d \in Nat, l \in Nat :
            /\ Place(new[a][b], d, l) /\ At(new[a][b], d, l).file = f
            /\ z = <<a, b, d, l>>
    BY BufferedIs
  <2>2. CASE a = s /\ b = r /\ d = c
    <3> DEFINE y == <<s, r, c, l + 1>>
    <3>1. new[s][r] = q
      BY DEF OneLine
    <3>2. l >= 1 /\ Place(old[s][r], c, l + 1)
          /\ At(new[a][b], d, l) = At(old[s][r], c, l + 1)
      BY <1>1, <2>1, <2>2, <3>1
    <3>3. l + 1 \in Nat /\ l + 1 # 1 /\ (l + 1) - 1 = l
      BY <3>2
    <3>4. y \in Buffered(f, old)
      BY <1>1, <2>1, <3>2, <3>3, BufferedIs
    <3>5. y \in rest
      BY <3>3, <3>4
    <3>6. Moved(y) = z
      BY <2>1, <2>2, <3>3
    <3> QED BY <3>5, <3>6
  <2>3. CASE ~(a = s /\ b = r /\ d = c)
    <3>1. Place(old[a][b], d, l) /\ At(new[a][b], d, l) = At(old[a][b], d, l)
      BY <1>1, <2>1, <2>3 DEF OneLine
    <3>2. z \in Buffered(f, old)
      BY <2>1, <3>1, BufferedIs
    <3>3. z # x
      BY <2>1, <2>3
    <3>4. Moved(z) = z
      BY <2>1, <2>3
    <3> QED BY <3>2, <3>3, <3>4
  <2> QED BY <2>2, <2>3
<1>7. IsFiniteSet(rest)
      /\ Cardinality(rest) = IF x \in Buffered(f, old)
                             THEN Cardinality(Buffered(f, old)) - 1
                             ELSE Cardinality(Buffered(f, old))
  BY FS_RemoveElement
<1> HIDE DEF Moved, x, rest
<1>8. g \in [rest -> Buffered(f, new)] /\ \A y \in rest : g[y] = Moved(y)
  BY <1>4
<1> HIDE DEF g
<1>9. IsFiniteSet(Buffered(f, new)) /\ Cardinality(Buffered(f, new)) = Cardinality(rest)
  <2>1. \A a, b \in rest : g[a] = g[b] => a = b
    BY <1>5, <1>8
  <2>2. \A b \in Buffered(f, new) : \E a \in rest : g[a] = b
    BY <1>6, <1>8
  <2> QED BY <1>7, <1>8, <2>1, <2>2, SameSize
<1>10. Cardinality(Buffered(f, old)) \in Nat
  BY FS_CardinalityType
<1> QED BY <1>2, <1>7, <1>9, <1>10

\* A packet that is sent is at a new place.
LEMMA TransmitGains ==
  ASSUME Linked, NEW r \in Router, NEW h \in Router, NEW p \in Alive,
         r \notin down, Transmit(r, h, p)
  PROVE  \E q : OneLine(conns', conns, r, h, q) /\ Gains(q, conns[r][h], p)
<1> DEFINE line == conns[r][h]
<1>1. line \in Seq(Conn) /\ sock[r][h] \in {"0", "open", "-1"} /\ Link(r, h)
  BY SameLink
<1>2. h \notin down /\ sock[r][h] # "-1"
  BY DEF Transmit
<1>3. Len(line) \in Nat /\ \A d \in 1 .. Len(line) : line[d] \in Conn
  BY <1>1, ElementOfSeq
<1>4. \A q : conns' = [conns EXCEPT ![r][h] = q] => OneLine(conns', conns, r, h, q)
  BY DEF Linked, OneLine
<1>5. CASE sock[r][h] = "0"
  <2> DEFINE conn == [buf |-> <<p>>, fd |-> "backlog"]
             q == Append(line, conn)
             c == Len(line) + 1
  <2>1. conn \in Conn
    BY NewConn
  <2>2. conns' = [conns EXCEPT ![r][h] = q]
    BY <1>5 DEF Transmit, Put
  <2>3. conn.buf = <<p>> /\ Len(conn.buf) = 1 /\ conn.buf[1] = p
    OBVIOUS
  <2> HIDE DEF conn
  <2>4. /\ Len(q) = c /\ q[c] = conn
        /\ \A d \in 1 .. Len(line) : q[d] = line[d]
    BY <1>1, <2>1, AppendProperties
  <2> HIDE DEF q
  <2>5. \A d \in Nat : d \in 1 .. c <=> d \in 1 .. Len(line) \/ d = c
    BY <1>3
  <2>6. c \in Nat /\ c \notin 1 .. Len(line)
    BY <1>3
  <2> HIDE DEF c
  <2>7. \A l \in Nat : l \in 1 .. Len(conn.buf) <=> l = 1
    BY <2>3
  <2>8. ~Place(line, c, 1) /\ Place(q, c, 1) /\ At(q, c, 1) = p
    BY <2>3, <2>4, <2>5, <2>6, <2>7 DEF Place, At
  <2>9. \A d, l \in Nat : ~(d = c /\ l = 1) =>
          /\ Place(q, d, l) <=> Place(line, d, l)
          /\ Place(line, d, l) => At(q, d, l) = At(line, d, l)
    BY <2>4, <2>5, <2>6, <2>7 DEF Place, At
  <2>10. Gains(q, line, p)
    BY <2>6, <2>8, <2>9 DEF Gains
  <2> QED BY <1>4, <2>2, <2>10
<1>6. CASE sock[r][h] = "open"
  <2> DEFINE n == Len(line)
             more == [line[n] EXCEPT !.buf = Append(line[n].buf, p)]
             q == [line EXCEPT ![n] = more]
             k == Len(line[n].buf) + 1
  <2>1. n \in 1 .. Len(line) /\ n \in Nat /\ line[n] \in Conn
    <3>1. Goes(line)
      BY <1>1, <1>2, <1>6 DEF Link
    <3> QED BY <1>1, <1>3, <3>1, LenProperties, EmptySeq DEF Goes
  <2>2. conns' = [conns EXCEPT ![r][h] = q]
    <3>1. conns' = [conns EXCEPT ![r][h][n].buf = Append(@, p)]
      BY <1>6 DEF Transmit, Put
    <3> QED BY <3>1
  <2>3. line[n].buf \in Seq(Alive) /\ Len(line[n].buf) \in Nat
    BY <2>1 DEF Conn
  <2>4. more.buf = Append(line[n].buf, p)
    BY <2>1 DEF Conn
  <2>5. more \in Conn
    <3>1. Append(line[n].buf, p) \in Seq(Alive)
      BY <2>3, AppendProperties
    <3> HIDE DEF n
    <3> QED BY <2>1, <3>1 DEF Conn
  <2> HIDE DEF more
  <2>6. /\ Len(q) = n /\ q[n] = more
        /\ \A d \in 1 .. n : d # n => q[d] = line[d]
    BY <1>1, <2>1, <2>5, ExceptSeq
  <2> HIDE DEF q
  <2> HIDE DEF n
  <2>7. /\ Len(more.buf) = k /\ more.buf[k] = p
        /\ \A l \in 1 .. Len(line[n].buf) : more.buf[l] = line[n].buf[l]
    <3> DEFINE buf == line[n].buf
    <3>1. buf \in Seq(Alive) /\ more.buf = Append(buf, p) /\ k = Len(buf) + 1
      BY <2>3, <2>4
    <3> HIDE DEF buf, k
    <3>2. /\ Len(more.buf) = k /\ more.buf[k] = p
          /\ \A l \in 1 .. Len(buf) : more.buf[l] = buf[l]
      BY <3>1, AppendProperties
    <3> QED BY <3>2 DEF buf
  <2>8. /\ \A l \in Nat : l \in 1 .. k <=> l \in 1 .. Len(line[n].buf) \/ l = k
        /\ k \in Nat /\ k \notin 1 .. Len(line[n].buf) /\ k \in 1 .. k
    <3>1. \A m \in Nat : /\ \A l \in Nat : l \in 1 .. m + 1 <=> l \in 1 .. m \/ l = m + 1
                         /\ m + 1 \in Nat /\ m + 1 \notin 1 .. m /\ m + 1 \in 1 .. m + 1
      OBVIOUS
    <3> QED BY <2>3, <3>1
  <2> HIDE DEF k
  <2>9. ~Place(line, n, k) /\ Place(q, n, k) /\ At(q, n, k) = p
    BY <2>1, <2>6, <2>7, <2>8 DEF Place, At
  <2>10. \A d, l \in Nat : ~(d = n /\ l = k) =>
          /\ Place(q, d, l) <=> Place(line, d, l)
          /\ Place(line, d, l) => At(q, d, l) = At(line, d, l)
    <3> SUFFICES ASSUME NEW d \in Nat, NEW l \in Nat, ~(d = n /\ l = k)
                 PROVE  /\ Place(q, d, l) <=> Place(line, d, l)
                        /\ Place(line, d, l) => At(q, d, l) = At(line, d, l)
      OBVIOUS
    <3>1. CASE d = n
      <4>1. l \in 1 .. k <=> l \in 1 .. Len(line[n].buf)
        BY <2>8, <3>1
      <4>2. n \in 1 .. Len(line) /\ n \in 1 .. Len(q) /\ q[n] = more
        BY <2>1, <2>6 DEF n
      <4> QED BY <2>7, <3>1, <4>1, <4>2 DEF Place, At
    <3>2. CASE d # n
      <4>1. Len(line) = n
        BY DEF n
      <4> QED BY <2>6, <3>2, <4>1 DEF Place, At
    <3> QED BY <3>1, <3>2
  <2>11. Gains(q, line, p)
    BY <2>1, <2>8, <2>9, <2>10 DEF Gains
  <2> QED BY <1>4, <2>2, <2>11
<1> QED BY <1>1, <1>2, <1>5, <1>6

\* A connection of which the first packet is read.
LEMMA ReadDrops ==
  ASSUME Linked, NEW s \in Router, NEW r \in Router, NEW c \in 1 .. Len(conns[s][r]),
         conns[s][r][c].buf # <<>>, NEW new, new.buf = Tail(conns[s][r][c].buf),
         conns' = [conns EXCEPT ![s][r][c] = new]
  PROVE  \E q : /\ OneLine(conns', conns, s, r, q)
                /\ Drops(q, conns[s][r], Head(conns[s][r][c].buf))
<1> DEFINE line == conns[s][r]
           buf == line[c].buf
           q == [line EXCEPT ![c] = new]
<1>1. line \in Seq(Conn) /\ Len(line) \in Nat /\ line[c] \in Conn
  BY SameLink, ElementOfSeq
<1>2. buf \in Seq(Alive) /\ Len(buf) \in Nat /\ Len(buf) >= 1
  BY <1>1, EmptySeq DEF Conn
<1>3. conns' = [conns EXCEPT ![s][r] = q]
  BY DEF Linked
<1>4. OneLine(conns', conns, s, r, q)
  <2> HIDE DEF q
  <2> QED BY <1>3 DEF Linked, OneLine
<1>5. /\ Len(q) = Len(line) /\ q[c] = new
      /\ \A d \in 1 .. Len(line) : d # c => q[d] = line[d]
  BY <1>1
<1> HIDE DEF q
<1>6. /\ Head(buf) = buf[1] /\ Len(new.buf) = Len(buf) - 1
      /\ \A k \in 1 .. Len(buf) - 1 : new.buf[k] = buf[k + 1]
  BY <1>2, HeadTailProperties
<1> HIDE DEF buf
<1>7. \A k \in Nat : k \in 1 .. Len(buf) - 1 <=> k >= 1 /\ k + 1 \in 1 .. Len(buf)
  BY <1>2
<1>8. 1 \in 1 .. Len(buf) /\ c \in Nat
  BY <1>1, <1>2
<1>9. Place(line, c, 1)
  BY <1>8 DEF Place, buf
<1>10. ASSUME NEW k \in Nat
       PROVE  /\ Place(q, c, k) <=> k >= 1 /\ Place(line, c, k + 1)
              /\ Place(q, c, k) => At(q, c, k) = At(line, c, k + 1)
  <2>1. Place(q, c, k) <=> k \in 1 .. Len(buf) - 1
    BY <1>5, <1>6 DEF Place
  <2>2. Place(line, c, k + 1) <=> k + 1 \in 1 .. Len(buf)
    BY DEF Place, buf
  <2>3. At(q, c, k) = new.buf[k] /\ At(line, c, k + 1) = buf[k + 1]
    BY <1>5 DEF At, buf
  <2> QED BY <1>6, <1>7, <2>1, <2>2, <2>3
<1>11. \A d, k \in Nat : d # c =>
          /\ Place(q, d, k) <=> Place(line, d, k)
          /\ Place(line, d, k) => At(q, d, k) = At(line, d, k)
  BY <1>5 DEF Place, At
<1>12. At(line, c, 1) = Head(buf)
  BY <1>6 DEF At, buf
<1>13. DropsOn(q, line, c, Head(buf))
  BY <1>8, <1>9, <1>10, <1>11, <1>12 DEF DropsOn
<1> QED BY <1>4, <1>8, <1>13 DEF Drops, buf

\* The packets are where they were.
SamePlaces(new, old) ==
    \A a, b \in Router : \A d, k \in Nat :
        /\ Place(new[a][b], d, k) <=> Place(old[a][b], d, k)
        /\ Place(old[a][b], d, k) => At(new[a][b], d, k) = At(old[a][b], d, k)

LEMMA SamePlacesCount ==
  ASSUME NEW new, NEW old, SamePlaces(new, old), NEW f
  PROVE  Buffered(f, new) = Buffered(f, old)
<1>1. \A x : x \in Buffered(f, new) <=> x \in Buffered(f, old)
  BY BufferedIs DEF SamePlaces
<1> QED BY <1>1

\* The end of a connection is read, no packet.
LEMMA EndDropsNone ==
  ASSUME Linked, NEW s \in Router, NEW r \in Router, NEW c \in 1 .. Len(conns[s][r]),
         ReadEnd(s, r, c)
  PROVE  SamePlaces(conns', conns)
<1> DEFINE line == conns[s][r]
           new == [line[c] EXCEPT !.fd = "cleared"]
           q == [line EXCEPT ![c] = new]
<1>1. line \in Seq(Conn) /\ Len(line) \in Nat /\ line[c] \in Conn
  BY SameLink, ElementOfSeq
<1>2. conns' = [conns EXCEPT ![s][r] = q]
  <2>1. conns' = [conns EXCEPT ![s][r][c].fd = "cleared"]
    BY DEF ReadEnd
  <2> QED BY <2>1
<1>3. new.buf = line[c].buf
  BY <1>1 DEF Conn
<1> HIDE DEF new
<1>4. /\ Len(q) = Len(line) /\ q[c] = new
      /\ \A d \in 1 .. Len(line) : d # c => q[d] = line[d]
  BY <1>1
<1> HIDE DEF q
<1>5. conns'[s][r] = q /\ \A a, b \in Router : ~(a = s /\ b = r) => conns'[a][b] = conns[a][b]
  BY <1>2 DEF Linked
<1>6. \A a, b \in Router : \A d, k \in Nat :
          /\ Place(conns'[a][b], d, k) <=> Place(conns[a][b], d, k)
          /\ Place(conns[a][b], d, k) => At(conns'[a][b], d, k) = At(conns[a][b], d, k)
  <2> SUFFICES ASSUME NEW a \in Router, NEW b \in Router, NEW d \in Nat, NEW k \in Nat
               PROVE  /\ Place(conns'[a][b], d, k) <=> Place(conns[a][b], d, k)
                      /\ Place(conns[a][b], d, k) =>
                            At(conns'[a][b], d, k) = At(conns[a][b], d, k)
    OBVIOUS
  <2>1. CASE a = s /\ b = r
    BY <1>3, <1>4, <1>5, <2>1 DEF Place, At
  <2>2. CASE ~(a = s /\ b = r)
    BY <1>5, <2>2
  <2> QED BY <2>1, <2>2
<1> QED BY <1>6 DEF SamePlaces

-----------------------------------------------------------------------------
(***************************************************************************)
(* The steps, as far as packets move.                                      *)
(***************************************************************************)

\* No packet moves.
Rests ==
    /\ UNCHANGED <<sent, hold, sock, known, first, written, failures>>
    /\ SamePlaces(conns', conns) /\ down \subseteq down'

\* r reads the packet p from s.
Reads(s, r, p) ==
    /\ hold[r] = <<>> /\ Handle(r, p)
    /\ \E q : OneLine(conns', conns, s, r, q) /\ Drops(q, conns[s][r], p)

LEMMA ReceiveMoves ==
  ASSUME Linked, NEW s \in Router, NEW r \in Router, NEW c \in 1 .. Len(conns[s][r]),
         Accept(s, r, c) \/ Read(s, r, c) \/ ReadEnd(s, r, c)
  PROVE  Rests \/ \E p \in Alive : Reads(s, r, p)
<1> DEFINE conn == conns[s][r][c]
           p == Head(conn.buf)
<1>1. conn \in Conn /\ Sound(conn)
  <2>1. conns[s][r] \in Seq(Conn) /\ Link(s, r)
    BY SameLink
  <2> QED BY <2>1, ElementOfSeq DEF Link, Lines
<1>2. CASE ReadEnd(s, r, c)
  <2>1. UNCHANGED <<sent, hold, sock, known, first, written, failures, down>>
    BY <1>2 DEF ReadEnd, stats, file, faults
  <2> QED BY <1>2, <2>1, EndDropsNone DEF Rests
<1>3. ASSUME hold[r] = <<>>, conn.buf # <<>>, Handle(r, p),
             NEW new, new.buf = Tail(conn.buf), conns' = [conns EXCEPT ![s][r][c] = new]
      PROVE  \E x \in Alive : Reads(s, r, x)
  <2>1. p \in Alive
    BY <1>1, <1>3, RestOfConn
  <2>2. \E q : OneLine(conns', conns, s, r, q) /\ Drops(q, conns[s][r], p)
    BY <1>3, ReadDrops
  <2> HIDE DEF p
  <2> QED BY <1>3, <2>1, <2>2 DEF Reads
<1>4. CASE Accept(s, r, c)
  <2> DEFINE new == [buf |-> Tail(conn.buf), fd |-> "watched"]
  <2>1. /\ hold[r] = <<>> /\ conn.buf # <<>> /\ Handle(r, p)
        /\ conns' = [conns EXCEPT ![s][r][c] = new]
    BY <1>1, <1>4 DEF Accept, Idle, Sound
  <2>2. new.buf = Tail(conn.buf)
    OBVIOUS
  <2> HIDE DEF new, p
  <2> QED BY <1>3, <2>1, <2>2
<1>5. CASE Read(s, r, c)
  <2> DEFINE new == [buf |-> Tail(conn.buf), fd |-> IF p.fin THEN "cleared" ELSE "watched"]
  <2>1. /\ hold[r] = <<>> /\ conn.buf # <<>> /\ Handle(r, p)
        /\ conns' = [conns EXCEPT ![s][r][c] = new]
    BY <1>5 DEF Read, Idle
  <2>2. new.buf = Tail(conn.buf)
    OBVIOUS
  <2> HIDE DEF new, p
  <2> QED BY <1>3, <2>1, <2>2
<1> QED BY <1>2, <1>4, <1>5

LEMMA PacketSteps ==
  ASSUME DataInv, [Next]_vars
  PROVE  \/ Rests
         \/ \E f \in Files : SendNext(f)
         \/ \E r \in Router : Forward(r)
         \/ \E s, r \in Router, p \in Alive : Reads(s, r, p)
<1>1. UNCHANGED conns => SamePlaces(conns', conns)
  BY DEF SamePlaces
<1>2. ASSUME NEW f \in Files, SendFile(f) PROVE Rests
  BY <1>1, <1>2 DEF SendFile, Rests, stats, file, faults
<1>3. ASSUME NEW r \in Router, Crash(r) PROVE Rests
  BY <1>1, <1>3 DEF Crash, Rests, stats, file
<1>4. ASSUME NEW r \in Router, Reroute(r) PROVE Rests
  BY <1>1, <1>4 DEF Reroute, Rests, stats, file
<1>5. UNCHANGED vars => Rests
  BY <1>1 DEF vars, Rests, stats, file, faults
<1>6. ASSUME NEW r \in Router, Receive(r)
      PROVE  Rests \/ \E s, t \in Router, p \in Alive : Reads(s, t, p)
  <2>1. PICK s \in Router : \E c \in 1 .. Len(conns[s][r]) :
            Accept(s, r, c) \/ Read(s, r, c) \/ ReadEnd(s, r, c)
    BY <1>6 DEF Receive
  <2>2. PICK c \in 1 .. Len(conns[s][r]) :
            Accept(s, r, c) \/ Read(s, r, c) \/ ReadEnd(s, r, c)
    BY <2>1
  <2> QED BY <2>2, ReceiveMoves DEF DataInv
<1> QED BY <1>2, <1>3, <1>4, <1>5, <1>6 DEF Next

\* A packet that is sent, whether it arrives or not.
LEMMA SendsCount ==
  ASSUME Linked, NEW r \in Router, NEW h \in Router, NEW p \in Alive,
         r \notin down, Transmit(r, h, p) \/ Break(r, h, p),
         NEW f, IsFiniteSet(Buffered(f, conns))
  PROVE  LET was == Cardinality(Buffered(f, conns))
             more == was + (IF p.file = f THEN 1 ELSE 0)
         IN  /\ IsFiniteSet(Buffered(f, conns'))
             /\ Cardinality(Buffered(f, conns')) \in {was, more}
             /\ h \notin down => Cardinality(Buffered(f, conns')) = more
<1>1. CASE Transmit(r, h, p)
  <2>1. PICK q : OneLine(conns', conns, r, h, q) /\ Gains(q, conns[r][h], p)
    BY <1>1, TransmitGains
  <2> QED BY <2>1, GainsCount
<1>2. CASE Break(r, h, p)
  BY <1>2 DEF Break
<1> QED BY <1>1, <1>2

LEMMA ReadsCount ==
  ASSUME Linked, NEW s \in Router, NEW r \in Router, NEW p, Reads(s, r, p),
         NEW f, IsFiniteSet(Buffered(f, conns))
  PROVE  /\ IsFiniteSet(Buffered(f, conns'))
         /\ Cardinality(Buffered(f, conns')) =
               Cardinality(Buffered(f, conns)) - (IF p.file = f THEN 1 ELSE 0)
<1>1. PICK q : OneLine(conns', conns, s, r, q) /\ Drops(q, conns[s][r], p)
  BY DEF Reads
<1> QED BY <1>1, DropsCount

\* The hands of a router are filled, or emptied.
LEMMA HandsFill ==
  ASSUME Holding, NEW r \in Router, hold[r] = <<>>, NEW q,
         hold' = [hold EXCEPT ![r] = <<q>>], NEW f, IsFiniteSet(InHand(f))
  PROVE  /\ IsFiniteSet(InHand(f)')
         /\ Cardinality(InHand(f)') =
               Cardinality(InHand(f)) + (IF q.file = f THEN 1 ELSE 0)
<1>1. InHand(f)' = {s \in Router : hold'[s] # <<>> /\ hold'[s][1].file = f}
  BY DEF InHand
<1>2. hold'[r] = <<q>> /\ \A s \in Router \ {r} : hold'[s] = hold[s]
  BY DEF Holding
<1>3. <<q>> # <<>> /\ <<q>>[1] = q
  OBVIOUS
<1>4. r \notin InHand(f)
  BY DEF InHand
<1>5. InHand(f)' = IF q.file = f THEN InHand(f) \cup {r} ELSE InHand(f)
  BY <1>1, <1>2, <1>3 DEF InHand
<1>6. Cardinality(InHand(f)) \in Nat
  BY FS_CardinalityType
<1>7. CASE q.file = f
  <2>1. InHand(f)' = InHand(f) \cup {r}
    BY <1>5, <1>7
  <2>2. /\ IsFiniteSet(InHand(f) \cup {r})
        /\ Cardinality(InHand(f) \cup {r}) = Cardinality(InHand(f)) + 1
    BY <1>4, FS_AddElement
  <2> QED BY <1>7, <2>1, <2>2
<1>8. CASE q.file # f
  BY <1>5, <1>6, <1>8
<1> QED BY <1>7, <1>8

LEMMA HandsEmpty ==
  ASSUME Holding, NEW r \in Router, hold[r] # <<>>,
         hold' = [hold EXCEPT ![r] = <<>>], NEW f, IsFiniteSet(InHand(f))
  PROVE  /\ IsFiniteSet(InHand(f)')
         /\ Cardinality(InHand(f)') =
               Cardinality(InHand(f)) - (IF hold[r][1].file = f THEN 1 ELSE 0)
<1>1. InHand(f)' = {s \in Router : hold'[s] # <<>> /\ hold'[s][1].file = f}
  BY DEF InHand
<1>2. hold'[r] = <<>> /\ \A s \in Router \ {r} : hold'[s] = hold[s]
  BY DEF Holding
<1>3. r \in InHand(f) <=> hold[r][1].file = f
  BY DEF InHand
<1>4. InHand(f)' = InHand(f) \ {r}
  BY <1>1, <1>2 DEF InHand
<1>5. Cardinality(InHand(f)) \in Nat
  BY FS_CardinalityType
<1> QED BY <1>3, <1>4, <1>5, FS_RemoveElement

-----------------------------------------------------------------------------
(***************************************************************************)
(* The TTL of the packets of a file that lasts.                            *)
(***************************************************************************)

\* The packet x is on the line from s to r.
Travels(lines, s, r, x) ==
    \E c, k \in Nat : Place(lines[s][r], c, k) /\ x = At(lines[s][r], c, k)

LEMMA GainsTravels ==
  ASSUME NEW new, NEW old, NEW s \in Router, NEW r \in Router, NEW q, NEW p,
         OneLine(new, old, s, r, q), Gains(q, old[s][r], p),
         NEW a \in Router, NEW b \in Router, NEW x, Travels(new, a, b, x)
  PROVE  Travels(old, a, b, x) \/ (a = s /\ b = r /\ x = p)
<1>1. PICK d \in Nat, l \in Nat : Place(new[a][b], d, l) /\ x = At(new[a][b], d, l)
  BY DEF Travels
<1>2. CASE a = s /\ b = r
  <2>1. PICK c \in Nat, k \in Nat :
          /\ At(q, c, k) = p
          /\ \A e, m \in Nat : ~(e = c /\ m = k) =>
                /\ Place(q, e, m) <=> Place(old[s][r], e, m)
                /\ Place(old[s][r], e, m) => At(q, e, m) = At(old[s][r], e, m)
    BY DEF Gains
  <2>2. Place(q, d, l) /\ x = At(q, d, l)
    BY <1>1, <1>2 DEF OneLine
  <2> QED BY <1>2, <2>1, <2>2 DEF Travels
<1>3. CASE ~(a = s /\ b = r)
  BY <1>1, <1>3 DEF OneLine, Travels
<1> QED BY <1>2, <1>3

LEMMA DropsTravels ==
  ASSUME NEW new, NEW old, NEW s \in Router, NEW r \in Router, NEW q, NEW p,
         OneLine(new, old, s, r, q), Drops(q, old[s][r], p)
  PROVE  /\ Travels(old, s, r, p)
         /\ \A a, b \in Router : \A x : Travels(new, a, b, x) => Travels(old, a, b, x)
<1>1. PICK c \in Nat : DropsOn(q, old[s][r], c, p)
  BY DEF Drops
<1>2. /\ Place(old[s][r], c, 1) /\ At(old[s][r], c, 1) = p
      /\ \A k \in Nat :
            /\ Place(q, c, k) <=> k >= 1 /\ Place(old[s][r], c, k + 1)
            /\ Place(q, c, k) => At(q, c, k) = At(old[s][r], c, k + 1)
      /\ \A d, k \in Nat : d # c =>
            /\ Place(q, d, k) <=> Place(old[s][r], d, k)
            /\ Place(old[s][r], d, k) => At(q, d, k) = At(old[s][r], d, k)
  BY <1>1 DEF DropsOn
<1>3. ASSUME NEW a \in Router, NEW b \in Router, NEW x, Travels(new, a, b, x)
      PROVE  Travels(old, a, b, x)
  <2>1. PICK d \in Nat, l \in Nat : Place(new[a][b], d, l) /\ x = At(new[a][b], d, l)
    BY <1>3 DEF Travels
  <2>2. CASE a = s /\ b = r
    <3>1. Place(q, d, l) /\ x = At(q, d, l)
      BY <2>1, <2>2 DEF OneLine
    <3>2. CASE d = c
      <4>1. l + 1 \in Nat /\ Place(old[s][r], c, l + 1) /\ x = At(old[s][r], c, l + 1)
        BY <1>2, <3>1, <3>2
      <4> QED BY <2>2, <4>1 DEF Travels
    <3>3. CASE d # c
      BY <1>2, <2>2, <3>1, <3>3 DEF Travels
    <3> QED BY <3>2, <3>3
  <2>3. CASE ~(a = s /\ b = r)
    BY <2>1, <2>3 DEF OneLine, Travels
  <2> QED BY <2>2, <2>3
<1> QED BY <1>2, <1>3 DEF Travels

\* With each hop of f, the rank of the router goes down.
Falls(f, rank) ==
    /\ rank[From[f]] < TTL[f]
    /\ \A table \in Routes, r \in Router \ {To[f]} :
          rank[r] < TTL[f] => rank[table[r][To[f]]] < rank[r]

Above(x, n) == n < x.ttl /\ x.ttl <= TTL[x.file]

\* A packet of f has a TTL above the rank of the router that holds it, or of the router
\* it is on the way to, where it loses one.
HighEnough(f, rank) ==
    /\ \A r \in Router : hold[r] # <<>> /\ hold[r][1].file = f => Above(hold[r][1], rank[r])
    /\ \A s, r \in Router : \A x :
          Travels(conns, s, r, x) /\ x.file = f => Above(x, rank[r] + 1)

LEMMA HopFalls ==
  ASSUME DataInv, NEW f \in Files, NEW rank \in [Router -> 0 .. TTL[f]], Falls(f, rank),
         NEW r \in Router, r # To[f], NEW p \in Alive, p.file = f, Above(p, rank[r])
  PROVE  Above(p, rank[route[r][To[f]]] + 1)
<1> DEFINE h == route[r][To[f]]
<1>1. route \in Routes /\ h \in Router /\ TTL[f] \in Byte
  BY DataAssumption, Constants DEF DataInv
<1>2. p.ttl \in Byte
  BY AlivePacket
<1>3. rank[r] \in Nat /\ rank[h] \in Nat /\ TTL[f] \in Nat /\ p.ttl \in Nat
  <2> HIDE DEF h
  <2> QED BY <1>1, <1>2 DEF Byte
<1>4. rank[r] < TTL[f]
  BY <1>3 DEF Above
<1>5. rank[h] < rank[r]
  BY <1>1, <1>4 DEF Falls
<1> HIDE DEF h
<1>6. Above(p, rank[h] + 1)
  BY <1>3, <1>5 DEF Above
<1> QED BY <1>6 DEF h

\* However a packet is sent, it is all that is new on the lines.
LEMMA SendsTravels ==
  ASSUME Linked, NEW r \in Router, NEW h \in Router, NEW p \in Alive, r \notin down,
         Transmit(r, h, p) \/ Break(r, h, p) \/ NoSocket(r, h),
         NEW a \in Router, NEW b \in Router, NEW x, Travels(conns', a, b, x)
  PROVE  Travels(conns, a, b, x) \/ (a = r /\ b = h /\ x = p)
<1>1. CASE Transmit(r, h, p)
  <2>1. PICK q : OneLine(conns', conns, r, h, q) /\ Gains(q, conns[r][h], p)
    BY <1>1, TransmitGains
  <2> QED BY <2>1, GainsTravels
<1>2. CASE Break(r, h, p) \/ NoSocket(r, h)
  BY <1>2 DEF Break, NoSocket
<1> QED BY <1>1, <1>2

LEMMA HighEnoughKept ==
  ASSUME DataInv, NEW f \in Files, NEW rank \in [Router -> 0 .. TTL[f]], Falls(f, rank),
         HighEnough(f, rank), [Next]_vars
  PROVE  HighEnough(f, rank)'
<1>0. /\ Linked /\ Holding /\ Sending /\ route \in Routes
      /\ From[f] \in Router /\ To[f] \in Router /\ From[f] # To[f]
  BY DataAssumption, Constants DEF DataInv
<1>1. CASE Rests
  <2>1. \A s, r \in Router : \A x : Travels(conns', s, r, x) => Travels(conns, s, r, x)
    BY <1>1 DEF Rests, SamePlaces, Travels
  <2>2. hold' = hold
    BY <1>1 DEF Rests
  <2> QED BY <2>1, <2>2 DEF HighEnough, Above
<1>2. ASSUME NEW r \in Router, NEW h \in Router, NEW p \in Alive, r \notin down,
             Transmit(r, h, p) \/ Break(r, h, p) \/ NoSocket(r, h),
             p.file = f => Above(p, rank[h] + 1),
             \A s \in Router : hold'[s] # <<>> => hold'[s] = hold[s]
      PROVE  HighEnough(f, rank)'
  <2>1. \A a, b \in Router : \A x :
          Travels(conns', a, b, x) => Travels(conns, a, b, x) \/ (b = h /\ x = p)
    BY <1>0, <1>2, SendsTravels
  <2> QED BY <1>2, <2>1 DEF HighEnough, Above
<1>3. ASSUME NEW g \in Files, SendNext(g) PROVE HighEnough(f, rank)'
  <2> DEFINE r == From[g]
             h == route[r][To[g]]
             i == sent[g] + 1
             p == [file |-> g, seq |-> Sequence(g)[i], ttl |-> TTL[g],
                   fin |-> Final(g, i)]
  <2>1. p \in Alive /\ p.file = g /\ p.ttl = TTL[g]
    BY <1>0, <1>3, NextPacket
  <2>2. r \in Router /\ h \in Router
    BY <1>0, DataAssumption, Constants
  <2>3. /\ r \notin down /\ UNCHANGED hold
        /\ Transmit(r, h, p) \/ Break(r, h, p) \/ NoSocket(r, h)
    BY <1>3 DEF SendNext
  <2> HIDE DEF p
  <2>4. p.file = f => Above(p, rank[h] + 1)
    <3> SUFFICES ASSUME g = f PROVE Above(p, rank[h] + 1)
      BY <2>1
    <3>1. TTL[f] \in Nat
      BY Constants DEF Byte
    <3>2. Above(p, rank[From[f]])
      BY <2>1, <3>1 DEF Above, Falls
    <3> QED BY <1>0, <2>1, <3>2, HopFalls
  <2> HIDE DEF h, r
  <2> QED BY <1>2, <2>1, <2>2, <2>3, <2>4
<1>4. ASSUME NEW r \in Router, Forward(r) PROVE HighEnough(f, rank)'
  <2> DEFINE p == hold[r][1]
             h == route[r][To[p.file]]
  <2>1. p \in Alive /\ hold[r] # <<>> /\ To[p.file] # r
    BY <1>0, <1>4, EmptySeq DEF Forward, Holding
  <2>2. h \in Router
    <3>1. To[p.file] \in Router
      BY <2>1, AlivePacket, Constants
    <3> QED BY <1>0, <3>1, DataAssumption
  <2>3. /\ r \notin down /\ hold' = [hold EXCEPT ![r] = <<>>]
        /\ Transmit(r, h, p) \/ Break(r, h, p) \/ NoSocket(r, h)
    BY <1>4 DEF Forward
  <2>4. p.file = f => Above(p, rank[h] + 1)
    <3> SUFFICES ASSUME p.file = f PROVE Above(p, rank[h] + 1)
      OBVIOUS
    <3>1. Above(p, rank[r])
      BY <2>1 DEF HighEnough
    <3> QED BY <2>1, <3>1, HopFalls
  <2>5. \A s \in Router : hold'[s] # <<>> => hold'[s] = hold[s]
    BY <1>0, <2>3 DEF Holding
  <2> HIDE DEF h, p
  <2> QED BY <1>2, <2>1, <2>2, <2>3, <2>4, <2>5
<1>5. ASSUME NEW s \in Router, NEW r \in Router, NEW p \in Alive, Reads(s, r, p)
      PROVE  HighEnough(f, rank)'
  <2>1. PICK q : OneLine(conns', conns, s, r, q) /\ Drops(q, conns[s][r], p)
    BY <1>5 DEF Reads
  <2>2. /\ Travels(conns, s, r, p)
        /\ \A a, b \in Router : \A x : Travels(conns', a, b, x) => Travels(conns, a, b, x)
    BY <2>1, DropsTravels
  <2>3. \A a, b \in Router : \A x :
          Travels(conns', a, b, x) /\ x.file = f => Above(x, rank[b] + 1)
    BY <2>2 DEF HighEnough
  <2>4. \A t \in Router : hold'[t] # <<>> /\ hold'[t][1].file = f =>
                             Above(hold'[t][1], rank[t])
    <3> DEFINE ttl == p.ttl - 1
               y == [p EXCEPT !.ttl = ttl]
    <3>1. /\ hold' = [hold EXCEPT ![r] = IF ttl > 0 /\ To[p.file] # r THEN <<y>> ELSE <<>>]
      BY <1>5 DEF Reads, Handle
    <3>2. \A t \in Router \ {r} : hold'[t] = hold[t]
      BY <1>0, <3>1 DEF Holding
    <3>3. hold'[r] \in {<<y>>, <<>>}
      BY <1>0, <3>1 DEF Holding
    <3>4. p.ttl \in Byte /\ y.file = p.file /\ y.ttl = ttl
      BY AlivePacket DEF Alive, Packet
    <3>5. p.file = f => Above(y, rank[r])
      <4> SUFFICES ASSUME p.file = f PROVE Above(y, rank[r])
        OBVIOUS
      <4>1. Above(p, rank[r] + 1)
        BY <2>2 DEF HighEnough
      <4>2. rank[r] \in Nat /\ TTL[f] \in Nat /\ p.ttl \in Nat
        BY <3>4, Constants DEF Byte
      <4> HIDE DEF y
      <4> QED BY <3>4, <4>1, <4>2 DEF Above
    <3> HIDE DEF y
    <3>6. hold'[r] # <<>> => hold'[r][1] = y
      BY <3>3
    <3> QED BY <3>2, <3>4, <3>5, <3>6 DEF HighEnough
  <2> QED BY <2>3, <2>4 DEF HighEnough, Above
<1> QED BY <1>1, <1>3, <1>4, <1>5, PacketSteps

-----------------------------------------------------------------------------
(***************************************************************************)
(* What is lost.                                                           *)
(***************************************************************************)

Countable(f) == IsFiniteSet(InHand(f)) /\ IsFiniteSet(Buffered(f, conns))

\* The packets of f that were sent and are nowhere.
Missing(f) == sent[f] - (Len(written[f]) + OnTheWay(f))

Faultless == failures = 0 /\ down = {}

\* No socket has been given up.
Working == \A r, h \in Router : sock[r][h] # "-1"

\* A file of which the destination knows nothing has not been written to.
Fresh == \A f \in Files : f \notin known[To[f]] => written[f] = <<>> /\ first[To[f]][f] = 0

LEMMA FaultsStay ==
  ASSUME DataInv, [Next]_vars, Faultless'
  PROVE  Faultless
<1>1. failures \in Nat /\ failures' \in Nat
  <2>1. Bounded /\ Bounded'
    BY NextKeeps DEF DataInv
  <2> QED BY <2>1, Constants DEF Bounded
<1>2. failures <= failures' /\ down \subseteq down'
  <2>1. CASE Rests
    BY <1>1, <2>1 DEF Rests
  <2>2. ASSUME NEW r, NEW h, NEW p, Transmit(r, h, p) \/ Break(r, h, p) \/ NoSocket(r, h)
        PROVE  failures <= failures' /\ down \subseteq down'
    BY <1>1, <2>2 DEF Transmit, Break, NoSocket, faults
  <2>3. ASSUME NEW f \in Files, SendNext(f)
        PROVE  failures <= failures' /\ down \subseteq down'
    BY <2>2, <2>3 DEF SendNext
  <2>4. ASSUME NEW r \in Router, Forward(r)
        PROVE  failures <= failures' /\ down \subseteq down'
    BY <2>2, <2>4 DEF Forward
  <2>5. ASSUME NEW s \in Router, NEW r \in Router, NEW p \in Alive, Reads(s, r, p)
        PROVE  failures <= failures' /\ down \subseteq down'
    <3>1. Holding /\ Noting /\ Writing /\ Linked
      BY DEF DataInv
    <3>2. Handle(r, p)
      BY <2>5 DEF Reads
    <3>3. UNCHANGED failures
      BY <3>2 DEF Handle, faults
    <3>4. down \subseteq down'
      BY <3>1, <3>2, HandleKeeps
    <3> QED BY <1>1, <3>3, <3>4
  <2> QED BY <2>1, <2>3, <2>4, <2>5, PacketSteps
<1> QED BY <1>1, <1>2 DEF Faultless

\* A packet is sent when connect succeeds and no router is dead.
LEMMA SendsFaultless ==
  ASSUME Bounded, NEW r \in Router, NEW h \in Router, NEW p,
         Transmit(r, h, p) \/ Break(r, h, p) \/ NoSocket(r, h),
         Faultless, Faultless', Working
  PROVE  Transmit(r, h, p)
<1>1. h \notin down /\ sock[r][h] # "-1" /\ failures = 0 /\ failures' = 0
  BY DEF Faultless, Working
<1>2. ~Break(r, h, p)
  BY <1>1 DEF Break
<1>3. ~NoSocket(r, h)
  BY <1>1 DEF NoSocket
<1> QED BY <1>2, <1>3

LEMMA WorkingKept ==
  ASSUME DataInv, [Next]_vars, Faultless, Faultless', Working
  PROVE  Working'
<1>0. Linked /\ Bounded /\ Sending /\ Holding /\ route \in Routes
  BY DEF DataInv
<1>1. CASE Rests
  BY <1>1 DEF Rests, Working
<1>2. ASSUME NEW r \in Router, NEW h \in Router, NEW p,
             Transmit(r, h, p) \/ Break(r, h, p) \/ NoSocket(r, h)
      PROVE  Working'
  <2>1. sock' = [sock EXCEPT ![r][h] = IF p.fin THEN "0" ELSE "open"]
    BY <1>0, <1>2, SendsFaultless DEF Transmit, CloseAfter
  <2> QED BY <1>0, <2>1 DEF Working, Linked
<1>3. ASSUME NEW f \in Files, SendNext(f) PROVE Working'
  <2>1. From[f] \in Router /\ route[From[f]][To[f]] \in Router
    BY <1>0, DataAssumption, Constants
  <2> QED BY <1>2, <1>3, <2>1 DEF SendNext
<1>4. ASSUME NEW r \in Router, Forward(r) PROVE Working'
  <2>1. hold[r][1] \in Alive
    BY <1>0, <1>4, EmptySeq DEF Forward, Holding
  <2>2. To[hold[r][1].file] \in Router
    BY <2>1, AlivePacket, Constants
  <2>3. route[r][To[hold[r][1].file]] \in Router
    BY <1>0, <2>2, DataAssumption
  <2> QED BY <1>2, <1>4, <2>3 DEF Forward
<1>5. ASSUME NEW s \in Router, NEW r \in Router, NEW p \in Alive, Reads(s, r, p)
      PROVE  Working'
  BY <1>5 DEF Reads, Handle, Working
<1> QED BY <1>1, <1>3, <1>4, <1>5, PacketSteps

LEMMA FreshKept ==
  ASSUME DataInv, [Next]_vars, Fresh
  PROVE  Fresh'
<1>0. Noting /\ Writing /\ \A f \in Files : To[f] \in Router
  BY Constants DEF DataInv
<1>1. CASE UNCHANGED <<known, first, seqs, latest, written>>
  BY <1>1 DEF Fresh
<1>2. ASSUME NEW r \in Router, NEW p \in Alive,
             r # To[p.file], NoteSent(r, p), UNCHANGED written
      PROVE  Fresh'
  <2>1. p.file \in Files
    BY AlivePacket
  <2>2. /\ known' = [known EXCEPT ![r] = known[r] \cup {p.file}]
        /\ first' = [first EXCEPT ![r][p.file] =
                        IF p.file \notin known[r] THEN p.seq ELSE @]
    BY <1>2 DEF NoteSent
  <2>3. ASSUME NEW f \in Files, f \notin known'[To[f]]
        PROVE  f \notin known[To[f]] /\ first'[To[f]][f] = first[To[f]][f]
    BY <1>0, <1>2, <2>1, <2>2, <2>3 DEF Noting
  <2> QED BY <1>2, <2>3 DEF Fresh
<1>3. ASSUME NEW r \in Router, NEW p \in Alive, r = To[p.file], Save(r, p)
      PROVE  Fresh'
  <2> DEFINE f == p.file
  <2>1. f \in Files
    BY AlivePacket
  <2>2. CASE open[f] \/ f \notin known[r]
    <3>1. /\ \E w : written' = [written EXCEPT ![f] = w]
          /\ first[r][f] = 0 =>
                /\ known' = [known EXCEPT ![r] = known[r] \cup {f}]
                /\ first' = [first EXCEPT ![r][f] = p.seq]
          /\ first[r][f] # 0 => UNCHANGED <<known, first>>
      BY <2>2 , <1>3 DEF Save
    <3> HIDE DEF f
    <3>2. f \in known'[r]
      BY <1>0, <1>3, <2>1, <3>1 DEF Fresh, Noting, f
    <3>3. ASSUME NEW g \in Files, g # f
          PROVE  /\ written'[g] = written[g]
                 /\ first'[To[g]][g] = first[To[g]][g]
                 /\ g \in known'[To[g]] <=> g \in known[To[g]]
      <4>1. written'[g] = written[g]
        BY <2>1, <3>1, <3>3 DEF Writing
      <4>2. CASE first[r][f] = 0
        <5>1. /\ known' = [known EXCEPT ![r] = known[r] \cup {f}]
              /\ first' = [first EXCEPT ![r][f] = p.seq]
          BY <3>1, <4>2
        <5>2. first'[To[g]][g] = first[To[g]][g]
          BY <1>0, <2>1, <3>3, <5>1 DEF Noting
        <5>3. g \in known'[To[g]] <=> g \in known[To[g]]
          BY <1>0, <2>1, <3>3, <5>1 DEF Noting
        <5> QED BY <4>1, <5>2, <5>3
      <4>3. CASE first[r][f] # 0
        BY <3>1, <4>1, <4>3
      <4> QED BY <4>2, <4>3
    <3> QED BY <1>3, <3>2, <3>3 DEF Fresh, f
  <2>3. CASE ~(open[f] \/ f \notin known[r])
    BY <1>3, <2>3 DEF Save, stats, file, Fresh
  <2> QED BY <2>2, <2>3
<1> QED BY <1>1, <1>2, <1>3, NotingSteps

\* Nothing goes wrong with the packets of f.
Smooth(f) ==
    /\ Faultless /\ Working /\ Fresh
    /\ \E rank \in [Router -> 0 .. TTL[f]] : HighEnough(f, rank)

\* A step loses packets of f, but makes none, and loses none if all is well.
Grows(f) ==
    /\ Countable(f)' /\ Missing(f)' >= Missing(f)
    /\ Smooth(f) /\ Faultless' => Missing(f)' = Missing(f)

LEMMA CountsAreNat ==
  ASSUME DataInv, NEW f \in Files, Countable(f)
  PROVE  /\ sent[f] \in Nat /\ Len(written[f]) \in Nat
         /\ Cardinality(InHand(f)) \in Nat /\ Cardinality(Buffered(f, conns)) \in Nat
<1>1. sent[f] \in Nat /\ Len(written[f]) \in Nat
  BY DEF DataInv, Sending, Writing
<1>2. Cardinality(InHand(f)) \in Nat /\ Cardinality(Buffered(f, conns)) \in Nat
  BY FS_CardinalityType DEF Countable
<1> QED BY <1>1, <1>2

LEMMA NoneMissing ==
  ASSUME DataInv, NEW f \in Files, Countable(f), Countable(f)', Missing(f)' = Missing(f)
  PROVE  Grows(f)
<1>1. Missing(f) \in Int
  BY CountsAreNat DEF Missing, OnTheWay
<1>2. Missing(f) >= Missing(f)
  BY <1>1
<1> QED BY <1>2 DEF Grows

LEMMA SendNextGrows ==
  ASSUME DataInv, NEW f \in Files, Countable(f), NEW g \in Files, SendNext(g)
  PROVE  Grows(f)
<1> DEFINE r == From[g]
           h == route[r][To[g]]
           i == sent[g] + 1
           p == [file |-> g, seq |-> Sequence(g)[i], ttl |-> TTL[g], fin |-> Final(g, i)]
           d == IF g = f THEN 1 ELSE 0
<1>0. /\ Linked /\ Bounded /\ Sending /\ route \in Routes
      /\ r \in Router /\ h \in Router
  BY DataAssumption, Constants DEF DataInv
<1>1. p \in Alive /\ p.file = g
  BY <1>0, NextPacket
<1>2. /\ r \notin down /\ UNCHANGED <<hold, written>>
      /\ \/ (Transmit(r, h, p) \/ Break(r, h, p)) /\ sent' = [sent EXCEPT ![g] = i]
         \/ NoSocket(r, h) /\ UNCHANGED sent
  BY DEF SendNext, file
<1> HIDE DEF p, h, r
<1>3. InHand(f)' = InHand(f)
  BY <1>2 DEF InHand
<1>4. PICK H, B, W, S \in Nat :
        /\ H = Cardinality(InHand(f)) /\ B = Cardinality(Buffered(f, conns))
        /\ W = Len(written[f]) /\ S = sent[f]
  BY CountsAreNat
<1>5. CASE (Transmit(r, h, p) \/ Break(r, h, p)) /\ sent' = [sent EXCEPT ![g] = i]
  <2>1. PICK B2 : B2 = Cardinality(Buffered(f, conns'))
    OBVIOUS
  <2>2. /\ IsFiniteSet(Buffered(f, conns'))
        /\ B2 \in {B, B + d}
        /\ h \notin down => B2 = B + d
    BY <1>0, <1>1, <1>2, <1>4, <1>5, <2>1, SendsCount DEF Countable
  <2>3. sent'[f] = S + d
    BY <1>0, <1>4, <1>5 DEF Sending
  <2>4. Missing(f) = S - (W + (H + B)) /\ Missing(f)' = (S + d) - (W + (H + B2))
    BY <1>2, <1>3, <1>4, <2>1, <2>3 DEF Missing, OnTheWay
  <2>5. d \in Nat
    OBVIOUS
  <2>6. Countable(f)'
    BY <1>3, <2>2 DEF Countable
  <2> HIDE DEF d
  <2>7. B2 = B + d => Missing(f)' = Missing(f)
    BY <2>4, <2>5
  <2>8. Missing(f)' >= Missing(f)
    BY <2>2, <2>4, <2>5
  <2>9. Smooth(f) => h \notin down
    BY DEF Smooth, Faultless
  <2> QED BY <2>2, <2>6, <2>7, <2>8, <2>9 DEF Grows
<1>6. CASE NoSocket(r, h) /\ UNCHANGED sent
  <2>1. UNCHANGED conns
    BY <1>6 DEF NoSocket
  <2>2. Missing(f)' = Missing(f) /\ Countable(f)'
    BY <1>2, <1>3, <1>6, <2>1 DEF Missing, OnTheWay, Countable
  <2> QED BY <2>2, NoneMissing
<1> QED BY <1>2, <1>5, <1>6

LEMMA ForwardGrows ==
  ASSUME DataInv, NEW f \in Files, Countable(f), NEW r \in Router, Forward(r)
  PROVE  Grows(f)
<1> DEFINE p == hold[r][1]
           h == route[r][To[p.file]]
           d == IF p.file = f THEN 1 ELSE 0
<1>0. Linked /\ Bounded /\ Holding /\ route \in Routes
  BY DEF DataInv
<1>1. p \in Alive /\ hold[r] # <<>>
  BY <1>0, EmptySeq DEF Forward, Holding
<1>2. h \in Router
  <2>1. To[p.file] \in Router
    BY <1>1, AlivePacket, Constants
  <2> QED BY <1>0, <2>1, DataAssumption
<1>3. /\ r \notin down /\ hold' = [hold EXCEPT ![r] = <<>>] /\ UNCHANGED <<sent, written>>
      /\ Transmit(r, h, p) \/ Break(r, h, p) \/ NoSocket(r, h)
  BY DEF Forward, file
<1>4. PICK H, B, W, S \in Nat :
        /\ H = Cardinality(InHand(f)) /\ B = Cardinality(Buffered(f, conns))
        /\ W = Len(written[f]) /\ S = sent[f]
  BY CountsAreNat
<1>5. PICK H2 : H2 = Cardinality(InHand(f)')
  OBVIOUS
<1>6. IsFiniteSet(InHand(f)') /\ H2 = H - d
  BY <1>0, <1>1, <1>3, <1>4, <1>5, HandsEmpty DEF Countable
<1> HIDE DEF h, p
<1>7. PICK B2 : B2 = Cardinality(Buffered(f, conns'))
  OBVIOUS
<1>8. IsFiniteSet(Buffered(f, conns')) /\ B2 \in {B, B + d}
  <2>1. CASE Transmit(r, h, p) \/ Break(r, h, p)
    BY <1>0, <1>1, <1>2, <1>3, <1>4, <1>7, <2>1, SendsCount DEF Countable
  <2>2. CASE NoSocket(r, h)
    BY <1>4, <1>7, <2>2 DEF NoSocket, Countable
  <2> QED BY <1>3, <2>1, <2>2
<1>9. Smooth(f) /\ Faultless' => B2 = B + d
  <2> SUFFICES ASSUME Smooth(f), Faultless' PROVE B2 = B + d
    OBVIOUS
  <2>1. Transmit(r, h, p) /\ h \notin down
    BY <1>0, <1>2, <1>3, SendsFaultless DEF Smooth, Transmit
  <2> QED BY <1>0, <1>1, <1>2, <1>3, <1>4, <1>7, <2>1, SendsCount DEF Countable
<1>10. Missing(f) = S - (W + (H + B)) /\ Missing(f)' = S - (W + (H2 + B2))
  BY <1>3, <1>4, <1>5, <1>7 DEF Missing, OnTheWay
<1>11. d \in Nat
  OBVIOUS
<1> HIDE DEF d
<1>12. Missing(f)' >= Missing(f)
  BY <1>6, <1>8, <1>10, <1>11
<1>13. B2 = B + d => Missing(f)' = Missing(f)
  BY <1>6, <1>10, <1>11
<1>14. Countable(f)'
  BY <1>6, <1>8 DEF Countable
<1> QED BY <1>9, <1>12, <1>13, <1>14 DEF Grows

LEMMA SaveCounts ==
  ASSUME DataInv, NEW f \in Files, NEW r \in Router, NEW p \in Alive, Save(r, p),
         r = To[p.file]
  PROVE  LET d == IF p.file = f THEN 1 ELSE 0
         IN  /\ Len(written'[f]) <= Len(written[f]) + d
             /\ Fresh /\ Faultless' => Len(written'[f]) = Len(written[f]) + d
<1> DEFINE g == p.file
           new == g \notin known[r]
           was == IF new THEN <<>> ELSE written[g]
<1>0. Writing /\ g \in Files /\ p.seq \in Word
  BY AlivePacket DEF DataInv
<1>1. written[f] \in Seq(Word) /\ Len(written[f]) \in Nat
  BY <1>0 DEF Writing
<1>2. CASE open[g] \/ new
  <2>1. written' = [written EXCEPT ![g] = Append(was, p.seq)]
    BY <1>2 DEF Save
  <2>2. was \in Seq(Word)
    BY <1>0, EmptySeq DEF Writing
  <2>3. Len(Append(was, p.seq)) = Len(was) + 1 /\ Len(was) \in Nat
    BY <1>0, <2>2, AppendProperties
  <2>4. CASE g = f
    <3>1. written'[f] = Append(was, p.seq)
      BY <1>0, <2>1, <2>4 DEF Writing
    <3>2. Len(was) <= Len(written[f])
      BY <1>1, <2>4, EmptySeq
    <3>3. Fresh => was = written[f]
      BY <2>4 DEF Fresh
    <3> HIDE DEF was
    <3> QED BY <1>1, <2>3, <2>4, <3>1, <3>2, <3>3
  <2>5. CASE g # f
    <3>1. written'[f] = written[f]
      BY <1>0, <2>1, <2>5 DEF Writing
    <3> QED BY <1>1, <2>5, <3>1
  <2> QED BY <2>4, <2>5
<1>3. CASE ~(open[g] \/ new)
  <2>1. r \in down' /\ UNCHANGED written
    BY <1>3 DEF Save, file
  <2>2. ~Faultless'
    BY <2>1 DEF Faultless
  <2>3. PICK W \in Nat : W = Len(written[f]) /\ W = Len(written'[f])
    BY <1>1, <2>1
  <2>4. W <= W + (IF p.file = f THEN 1 ELSE 0)
    OBVIOUS
  <2> QED BY <2>2, <2>3, <2>4
<1> QED BY <1>2, <1>3

LEMMA ReadsGrows ==
  ASSUME DataInv, NEW f \in Files, Countable(f),
         NEW s \in Router, NEW r \in Router, NEW p \in Alive, Reads(s, r, p)
  PROVE  Grows(f)
<1> DEFINE ttl == p.ttl - 1
           y == [p EXCEPT !.ttl = ttl]
           d == IF p.file = f THEN 1 ELSE 0
<1>0. Linked /\ Holding /\ Writing
  BY DEF DataInv
<1>1. PICK H, B, W, S \in Nat :
        /\ H = Cardinality(InHand(f)) /\ B = Cardinality(Buffered(f, conns))
        /\ W = Len(written[f]) /\ S = sent[f]
  BY CountsAreNat
<1>2. PICK H2, B2, W2 :
        /\ H2 = Cardinality(InHand(f)') /\ B2 = Cardinality(Buffered(f, conns'))
        /\ W2 = Len(written'[f])
  OBVIOUS
<1>3. IsFiniteSet(Buffered(f, conns')) /\ B2 = B - d
  BY <1>0, <1>1, <1>2, ReadsCount DEF Countable
<1>4. /\ hold[r] = <<>> /\ sent' = sent
      /\ hold' = [hold EXCEPT ![r] = IF ttl > 0 /\ To[p.file] # r THEN <<y>> ELSE <<>>]
      /\ ttl > 0 /\ To[p.file] = r => Save(r, y)
      /\ ~(ttl > 0 /\ To[p.file] = r) => UNCHANGED written
  BY DEF Reads, Handle, file
<1>5. ttl > 0 => y \in Alive /\ y.file = p.file
  BY OneHopLess
<1> HIDE DEF y
<1>6. Missing(f) = S - (W + (H + B)) /\ Missing(f)' = S - (W2 + (H2 + B2))
  BY <1>1, <1>2, <1>4 DEF Missing, OnTheWay
<1>7. d \in Nat
  OBVIOUS
<1>8. ASSUME ~(ttl > 0 /\ To[p.file] # r)
      PROVE  IsFiniteSet(InHand(f)') /\ H2 = H
  <2>1. hold' = hold
    BY <1>0, <1>4, <1>8 DEF Holding
  <2>2. InHand(f)' = InHand(f)
    BY <2>1 DEF InHand
  <2> QED BY <1>1, <1>2, <2>2 DEF Countable
<1>9. CASE ttl > 0 /\ To[p.file] # r
  <2>1. hold' = [hold EXCEPT ![r] = <<y>>]
    BY <1>4, <1>9
  <2>2. IsFiniteSet(InHand(f)') /\ H2 = H + d
    BY <1>0, <1>1, <1>2, <1>4, <1>5, <1>9, <2>1, HandsFill DEF Countable
  <2>3. W2 = W
    BY <1>1, <1>2, <1>4, <1>9
  <2> HIDE DEF d
  <2>4. Missing(f)' = Missing(f)
    BY <1>3, <1>6, <1>7, <2>2, <2>3
  <2>5. Countable(f)'
    BY <1>3, <2>2 DEF Countable
  <2> QED BY <2>4, <2>5, NoneMissing
<1>10. CASE ttl > 0 /\ To[p.file] = r
  <2>1. W2 <= W + d /\ (Fresh /\ Faultless' => W2 = W + d)
    BY <1>1, <1>2, <1>4, <1>5, <1>10, SaveCounts
  <2>2. IsFiniteSet(InHand(f)') /\ H2 = H
    BY <1>8, <1>10
  <2>3. Countable(f)'
    BY <1>3, <2>2 DEF Countable
  <2>4. W2 \in Nat
    <3>1. Writing'
      BY NextKeeps, HandleKeeps DEF Reads, DataInv
    <3> QED BY <1>2, <3>1 DEF Writing
  <2> HIDE DEF d
  <2>5. Missing(f)' >= Missing(f)
    BY <1>3, <1>6, <1>7, <2>1, <2>2, <2>4
  <2>6. W2 = W + d => Missing(f)' = Missing(f)
    BY <1>3, <1>6, <1>7, <2>2
  <2> QED BY <2>1, <2>3, <2>5, <2>6 DEF Grows, Smooth
<1>11. CASE ~(ttl > 0)
  <2>1. IsFiniteSet(InHand(f)') /\ H2 = H /\ W2 = W
    BY <1>1, <1>2, <1>4, <1>8, <1>11
  <2>2. Countable(f)'
    BY <1>3, <2>1 DEF Countable
  <2>3. Smooth(f) => p.file # f
    <3> SUFFICES ASSUME Smooth(f), p.file = f PROVE FALSE
      OBVIOUS
    <3>1. PICK rank \in [Router -> 0 .. TTL[f]] : HighEnough(f, rank)
      BY DEF Smooth
    <3>2. PICK q : OneLine(conns', conns, s, r, q) /\ Drops(q, conns[s][r], p)
      BY DEF Reads
    <3>3. Travels(conns, s, r, p)
      BY <3>2, DropsTravels
    <3>4. Above(p, rank[r] + 1)
      BY <3>1, <3>3 DEF HighEnough
    <3>5. rank[r] \in Nat
      BY <3>1, Constants DEF Byte
    <3>6. p.ttl \in Nat
      BY AlivePacket DEF Byte
    <3> QED BY <1>11, <3>4, <3>5, <3>6 DEF Above
  <2>4. p.file # f => d = 0
    OBVIOUS
  <2> HIDE DEF d
  <2>5. Missing(f)' >= Missing(f)
    BY <1>3, <1>6, <1>7, <2>1
  <2>6. d = 0 => Missing(f)' = Missing(f)
    BY <1>3, <1>6, <2>1
  <2> QED BY <2>2, <2>3, <2>4, <2>5, <2>6 DEF Grows
<1> QED BY <1>9, <1>10, <1>11

LEMMA MissingGrows ==
  ASSUME DataInv, [Next]_vars, NEW f \in Files, Countable(f)
  PROVE  Grows(f)
<1>1. CASE Rests
  <2>1. UNCHANGED <<sent, hold, written>> /\ Buffered(f, conns') = Buffered(f, conns)
    BY <1>1, SamePlacesCount DEF Rests
  <2>2. InHand(f)' = InHand(f)
    BY <2>1 DEF InHand
  <2>3. Missing(f)' = Missing(f) /\ Countable(f)'
    BY <2>1, <2>2 DEF Missing, OnTheWay, Countable
  <2> QED BY <2>3, NoneMissing
<1> QED BY <1>1, PacketSteps, SendNextGrows, ForwardGrows, ReadsGrows

\* No packet of a file is in two places, or written while it is still on its way, and
\* none is written twice, for any routers and routes, any number of transfers, failing
\* connects, dying routers and routes that change.
THEOREM NoneRepeated == Spec => []NothingRepeated
<1> DEFINE Inv == \A f \in Files : Countable(f) /\ Missing(f) >= 0
<1>1. Init => Inv
  <2> SUFFICES ASSUME Init, NEW f \in Files PROVE Countable(f) /\ Missing(f) >= 0
    OBVIOUS
  <2>1. sent[f] = 0 /\ written[f] = <<>>
        /\ \A r, h \in Router : hold[r] = <<>> /\ conns[r][h] = <<>>
    BY DEF Init
  <2>2. InHand(f) = {}
    BY <2>1 DEF InHand
  <2>3. \A x : x \notin Buffered(f, conns)
    BY <2>1, BufferedIs DEF Place
  <2>4. Buffered(f, conns) = {}
    BY <2>3
  <2> QED BY <2>1, <2>2, <2>4, FS_EmptySet DEF Countable, Missing, OnTheWay
<1>2. DataInv /\ Inv /\ [Next]_vars => Inv'
  <2> SUFFICES ASSUME DataInv, Inv, [Next]_vars, NEW f \in Files
               PROVE  Countable(f)' /\ Missing(f)' >= 0
    OBVIOUS
  <2>1. Grows(f) /\ Countable(f)' /\ DataInv'
    BY MissingGrows, NextKeeps DEF Grows
  <2>2. Missing(f) \in Int
    BY CountsAreNat DEF Missing, OnTheWay
  <2>3. Missing(f)' \in Int
    <3>1. PICK H, B, W, S : /\ H = Cardinality(InHand(f)') /\ B = Cardinality(Buffered(f, conns'))
                            /\ W = Len(written'[f]) /\ S = sent'[f]
      OBVIOUS
    <3>2. H \in Nat /\ B \in Nat
      BY <2>1, <3>1, FS_CardinalityType DEF Countable
    <3>3. W \in Nat /\ S \in Nat
      BY <2>1, <3>1 DEF DataInv, Sending, Writing
    <3>4. Missing(f)' = S - (W + (H + B))
      BY <3>1 DEF Missing, OnTheWay
    <3> QED BY <3>2, <3>3, <3>4
  <2> QED BY <2>1, <2>2, <2>3 DEF Grows
<1>3. DataInv /\ Inv => NothingRepeated
  <2> SUFFICES ASSUME DataInv, Inv, NEW f \in Files
               PROVE  Len(written[f]) + OnTheWay(f) <= sent[f]
    BY DEF NothingRepeated
  <2> QED BY CountsAreNat DEF Missing, OnTheWay
<1>4. Spec => []DataInv
  BY InitData, NextKeeps, PTL DEF Spec
<1> HIDE DEF Inv
<1> QED BY <1>1, <1>2, <1>3, <1>4, PTL DEF Spec

\* While connect succeeds and no router dies, every packet of a file whose TTL suffices
\* is written, or in one place on its way: for any number of transfers that share
\* sockets and close them for one another, and routes that change.
THEOREM NoneLost == Spec => []NothingLost
<1> DEFINE Lasts(f) == \E rank \in [Router -> 0 .. TTL[f]] :
                          Falls(f, rank) /\ HighEnough(f, rank)
           Inv == /\ Fresh /\ (Faultless => Working)
                  /\ \A f \in Files : Countable(f)
                  /\ \A f \in Lasting : Lasts(f) /\ (Faultless => Missing(f) = 0)
<1>0. \A f : f \in Lasting <=>
         f \in Files /\ \E rank \in [Router -> 0 .. TTL[f]] : Falls(f, rank)
  BY DEF Lasting, Falls
<1>1. Init => Inv
  <2> SUFFICES ASSUME Init PROVE Inv
    OBVIOUS
  <2>1. /\ \A f \in Files : sent[f] = 0 /\ written[f] = <<>>
        /\ \A r, h \in Router : hold[r] = <<>> /\ conns[r][h] = <<>> /\ sock[r][h] = "0"
        /\ \A f \in Files : \A r \in Router : first[r][f] = 0
    BY DEF Init
  <2>2. ASSUME NEW f PROVE InHand(f) = {} /\ Buffered(f, conns) = {}
    <3>1. \A x : x \notin Buffered(f, conns)
      BY <2>1, BufferedIs DEF Place
    <3> QED BY <2>1, <3>1 DEF InHand
  <2>3. \A s, r \in Router : \A x : ~Travels(conns, s, r, x)
    BY <2>1 DEF Travels, Place
  <2>4. \A f, rank : HighEnough(f, rank)
    BY <2>1, <2>3 DEF HighEnough
  <2>5. ASSUME NEW f \in Files PROVE Countable(f) /\ Missing(f) = 0
    <3>1. sent[f] = 0 /\ written[f] = <<>> /\ InHand(f) = {} /\ Buffered(f, conns) = {}
      BY <2>1, <2>2
    <3>2. Len(<<>>) = 0 /\ IsFiniteSet({}) /\ Cardinality({}) = 0
      BY FS_EmptySet
    <3>3. sent[f] = 0 /\ Len(written[f]) = 0 /\ OnTheWay(f) = 0
      BY <3>1, <3>2 DEF OnTheWay
    <3>4. Countable(f)
      BY <3>1, <3>2 DEF Countable
    <3>5. Missing(f) = 0 - (0 + 0)
      BY <3>3 DEF Missing
    <3> QED BY <3>4, <3>5
  <2>6. Fresh /\ Working
    BY <2>1, Constants DEF Fresh, Working
  <2>7. \A f \in Lasting : f \in Files /\ Lasts(f)
    BY <1>0, <2>4
  <2> HIDE DEF Lasts
  <2> QED BY <2>5, <2>6, <2>7
<1>2. DataInv /\ Inv /\ [Next]_vars => Inv'
  <2> SUFFICES ASSUME DataInv, Inv, [Next]_vars PROVE Inv'
    OBVIOUS
  <2>1. Fresh' /\ (Faultless' => Faultless)
    BY FreshKept, FaultsStay
  <2>2. (Faultless => Working)'
    BY <2>1, WorkingKept
  <2>3. ASSUME NEW f \in Files PROVE Grows(f) /\ Countable(f)'
    BY MissingGrows DEF Grows
  <2>4. ASSUME NEW f \in Lasting PROVE Lasts(f)'
    <3>1. PICK rank \in [Router -> 0 .. TTL[f]] : Falls(f, rank) /\ HighEnough(f, rank)
      BY <2>4
    <3>2. f \in Files
      BY <1>0
    <3>3. HighEnough(f, rank)'
      BY <3>1, <3>2, HighEnoughKept
    <3>4. Falls(f, rank)'
      BY <3>1 DEF Falls
    <3> QED BY <3>3, <3>4
  <2>5. ASSUME NEW f \in Lasting, Faultless' PROVE Missing(f)' = 0
    <3>1. f \in Files
      BY <1>0
    <3>2. Smooth(f) /\ Missing(f) = 0
      BY <2>1, <2>5 DEF Smooth
    <3> HIDE DEF Inv
    <3> QED BY <2>3, <2>5, <3>1, <3>2 DEF Grows
  <2> HIDE DEF Lasts
  <2>6. Lasting' = Lasting
    BY DEF Lasting
  <2> QED BY <2>1, <2>2, <2>3, <2>4, <2>5, <2>6
<1>3. DataInv /\ Inv => NothingLost
  <2> SUFFICES ASSUME DataInv, Inv, Faultless, NEW f \in Lasting
               PROVE  sent[f] = Len(written[f]) + OnTheWay(f)
    BY DEF NothingLost, Faultless
  <2>1. f \in Files
    BY <1>0
  <2>2. Countable(f) /\ Missing(f) = 0
    BY <2>1
  <2>3. PICK H, B, W, S \in Nat :
          /\ H = Cardinality(InHand(f)) /\ B = Cardinality(Buffered(f, conns))
          /\ W = Len(written[f]) /\ S = sent[f]
    BY <2>1, <2>2, CountsAreNat
  <2>4. Missing(f) = S - (W + (H + B)) /\ OnTheWay(f) = H + B
    BY <2>3 DEF Missing, OnTheWay
  <2> HIDE DEF Inv
  <2>5. S - (W + (H + B)) = 0
    BY <2>2, <2>4
  <2>6. S = W + (H + B)
    BY <2>5
  <2> QED BY <2>3, <2>4, <2>6
<1>4. Spec => []DataInv
  BY InitData, NextKeeps, PTL DEF Spec
<1> HIDE DEF Inv
<1> QED BY <1>1, <1>2, <1>3, <1>4, PTL DEF Spec

=============================================================================
