----------------------------- MODULE DataPlane ------------------------------
(***************************************************************************)
(* Files on their way through the routers.  send_file sends the packets of *)
(* a file to the next hop of its destination; handle_data reads one packet *)
(* and sends it on, or writes it to a file if it is for this router.       *)
(*                                                                         *)
(* A router keeps one socket for each next hop, whatever the transfers, and *)
(* closes it after any packet with the FIN bit.  All sockets are blocking: *)
(* a router waits in sendALL until the next hop has made room, and does    *)
(* nothing else meanwhile.  What changes the routes, module DVRouting, is  *)
(* here a choice among the next hops a router may have for a destination.  *)
(*                                                                         *)
(* A connection is the sequence of packets that are on it: TCP loses and   *)
(* reorders nothing, and recvALL reads packet by packet.                   *)
(*                                                                         *)
(* A router dies of a write to a closed file, of CRASH, or of a write on a *)
(* connection whose other end is dead: SIGPIPE is not caught.  What it has *)
(* sent before still arrives.                                              *)
(*                                                                         *)
(* The operators Slip... are the code with a mistake in it; nothing here   *)
(* uses them.  They show that the properties tell it from the code.        *)
(***************************************************************************)
EXTENDS Integers, Sequences, SequencesExt, FiniteSetsExt

CONSTANTS
    Router,       \* the routers
    Routes,       \* the next hops there may be: [r][d] is the one of r for d
    Files,        \* the transfers, each named by its transfer ID
    From, To,     \* From[f], To[f]: the first router of f and its destination
    Count,        \* Count[f]: the whole packets in the file, file_len / 1024
    TTL,          \* TTL[f]: the TTL the controller gives to the packets
    FirstSeq,     \* FirstSeq[f]: the sequence number of the first packet
    Capacity,     \* the packets that the buffers of a connection hold
    MaxTransfers, \* bound: the files that are sent
    MaxFailures,  \* bound: how often connect fails between two live routers
    MaxCrashes,   \* bound: the CRASH messages
    MaxMoves      \* bound: how often a next hop changes

Byte == 0 .. 255
Word == 0 .. 65535

ASSUME DataAssumption ==
    /\ Routes \subseteq [Router -> [Router -> Router]]
    /\ Files \subseteq Byte
    /\ From \in [Files -> Router] /\ To \in [Files -> Router]
    /\ \A f \in Files : From[f] # To[f]
    /\ Count \in [Files -> Nat]
    /\ TTL \in [Files -> Byte]
    /\ FirstSeq \in [Files -> Word]
    /\ Capacity \in Nat \ {0} /\ MaxTransfers \in Nat
    /\ MaxFailures \in Nat /\ MaxCrashes \in Nat /\ MaxMoves \in Nat

VARIABLES
    started,   \* the files of which SENDFILE has come
    sent,      \* sent[f]: the packets send_file has sent
    job,       \* job[r]: the file r is sending in send_file, {} if none
    hold,      \* hold[r]: the packet r is forwarding in handle_data, <<>> if none
    sock,      \* sock[r][h]: data_socket_fd of h at r: 0, open or -1
    conns,     \* conns[r][h]: the connections from r to h, the latest last
    known,     \* known[r]: the files f with fileStatArray[f].transfer_id = f
    first,     \* first[r][f]: first_seq_num
    ttls,      \* ttls[r][f]: the ttl in fileStatArray[f]
    seqs,      \* seqs[r][f]: seq_num_array, as far as index
    open,      \* open[f]: fptr # NULL at the destination of f
    written,   \* written[f]: the packets in the file at the destination
    latest,    \* latest[r]: lastDataPacket and penultimateDataPacket
    down,      \* the routers that are dead
    route,     \* route[r][d]: routers[d].nextHopID at r
    failures, crashes, moves

stats == <<known, first, ttls, seqs, latest>>
file == <<open, written>>
faults == <<failures, crashes, moves>>
vars == <<started, sent, job, hold, sock, conns, stats, file, down, route, faults>>

Packet == [file : Files, seq : Word, ttl : Byte, fin : BOOLEAN]

Init ==
    /\ started = {}
    /\ sent = [f \in Files |-> 0]
    /\ job = [r \in Router |-> {}]
    /\ hold = [r \in Router |-> <<>>]
    /\ sock = [r \in Router |-> [h \in Router |-> "0"]]
    /\ conns = [r \in Router |-> [h \in Router |-> <<>>]]
    /\ known = [r \in Router |-> Files \cap {0}]
    /\ first = [r \in Router |-> [f \in Files |-> 0]]
    /\ ttls = [r \in Router |-> [f \in Files |-> 0]]
    /\ seqs = [r \in Router |-> [f \in Files |-> <<>>]]
    /\ open = [f \in Files |-> FALSE]
    /\ written = [f \in Files |-> <<>>]
    /\ latest = [r \in Router |-> <<>>]
    /\ down = {}
    /\ route \in Routes
    /\ failures = 0 /\ crashes = 0 /\ moves = 0

\* r is in select.
Idle(r) == r \notin down /\ job[r] = {} /\ hold[r] = <<>>

-----------------------------------------------------------------------------
\* Sending.

\* The last packet is replaced before it is saved as the last but one.
SlipRemember(r, seq, fin) ==
    LET p == [seq |-> seq, fin |-> fin]
    IN  latest' = [latest EXCEPT ![r] = IF @ = <<>> THEN <<p>> ELSE <<p, p>>]

\* The last two packets a router sent or wrote.
Remember(r, seq, fin) ==
    latest' = [latest EXCEPT ![r] =
        IF @ = <<>> THEN <<[seq |-> seq, fin |-> fin]>>
                    ELSE <<[seq |-> seq, fin |-> fin], @[1]>>]

\* The two bytes of a number change places, on the machines this runs on.
Htons(n) == 256 * (n % 256) + n \div 256

\* The entry of f is reset for every packet.
SlipNoteSent(r, p) ==
    LET f == p.file
    IN  /\ Remember(r, p.seq, p.fin)
        /\ known' = [known EXCEPT ![r] = @ \cup {f}]
        /\ first' = [first EXCEPT ![r][f] = p.seq]
        /\ ttls' = [ttls EXCEPT ![r][f] = p.ttl]
        /\ seqs' = [seqs EXCEPT ![r][f] = <<Htons(p.seq)>>]

\* sending_file, before the packet goes out.  seq_num is in network order by now.
NoteSent(r, p) ==
    LET f == p.file
        new == f \notin known[r]
    IN  /\ Remember(r, p.seq, p.fin)
        /\ known' = [known EXCEPT ![r] = @ \cup {f}]
        /\ first' = [first EXCEPT ![r][f] = IF new THEN p.seq ELSE @]
        /\ ttls' = [ttls EXCEPT ![r][f] = IF new THEN p.ttl ELSE @]
        /\ seqs' = [seqs EXCEPT ![r][f] =
                       Append(IF new THEN <<>> ELSE @, Htons(p.seq))]

\* The buffers of a connection have no end.
SlipRoom(r, h) == TRUE

\* send does not wait: the connection is new, or has room.
Room(r, h) == sock[r][h] = "open" => Len(Last(conns[r][h]).buf) < Capacity

\* The packet that closes the connection is not on it.
SlipPut(r, h, p) ==
    conns' = [conns EXCEPT ![r][h] =
        IF sock[r][h] = "0" THEN Append(@, [buf |-> <<p>>, fd |-> "backlog"])
        ELSE IF p.fin THEN @ ELSE [@ EXCEPT ![Len(@)].buf = Append(@, p)]]

\* What is left after a partial send is sent from the beginning of the packet.
SlipResend(r, h, p) ==
    conns' = [conns EXCEPT ![r][h] =
        IF sock[r][h] = "0" THEN Append(@, [buf |-> <<p, p>>, fd |-> "backlog"])
        ELSE [@ EXCEPT ![Len(@)].buf = @ \o <<p, p>>]]

\* The packet is on the connection, which is made if there is none.
Put(r, h, p) ==
    \/ /\ sock[r][h] = "0"
       /\ conns' = [conns EXCEPT ![r][h] =
                       Append(@, [buf |-> <<p>>, fd |-> "backlog"])]
    \/ /\ sock[r][h] = "open"
       /\ conns' = [conns EXCEPT ![r][h][Len(conns[r][h])].buf = Append(@, p)]

\* FIN does not close the socket.
SlipCloseAfter(r, h, p) == sock' = [sock EXCEPT ![r][h] = "open"]

\* FIN closes the socket.
CloseAfter(r, h, p) == sock' = [sock EXCEPT ![r][h] = IF p.fin THEN "0" ELSE "open"]

\* A new socket, if there is none, and sendALL.
Transmit(r, h, p) ==
    /\ h \notin down
    /\ sock[r][h] # "-1" /\ Room(r, h)
    /\ Put(r, h, p) /\ CloseAfter(r, h, p)
    /\ UNCHANGED <<down, faults>>

\* The other end is dead: the packet vanishes, or r dies of SIGPIPE.
Break(r, h, p) ==
    /\ h \in down /\ sock[r][h] = "open"
    /\ \/ down' = down \cup {r} /\ UNCHANGED sock
       \/ CloseAfter(r, h, p) /\ UNCHANGED down
    /\ UNCHANGED <<conns, faults>>

\* A connect that failed is tried again for the next packet.
SlipGiveUpSocket(r, h) == UNCHANGED sock

\* data_socket_fd is -1 from now on.
GiveUpSocket(r, h) == sock' = [sock EXCEPT ![r][h] = "-1"]

\* connect fails, or has failed before.
NoSocket(r, h) ==
    /\ \/ sock[r][h] = "0" /\ h \in down /\ UNCHANGED failures
       \/ sock[r][h] = "0" /\ failures < MaxFailures /\ failures' = failures + 1
       \/ sock[r][h] = "-1" /\ UNCHANGED failures
    /\ GiveUpSocket(r, h)
    /\ UNCHANGED <<conns, down, crashes, moves>>

\* SENDFILE: send_file begins.
SendFile(f) ==
    /\ f \notin started /\ Cardinality(started) < MaxTransfers
    /\ Idle(From[f])
    /\ started' = started \cup {f}
    /\ job' = [job EXCEPT ![From[f]] = IF TTL[f] > 0 /\ Count[f] > 0 THEN {f}
                                                                    ELSE {}]
    /\ UNCHANGED <<sent, hold, sock, conns, stats, file, down, route, faults>>

Sequence(f) == [i \in 1 .. Count[f] |-> (FirstSeq[f] + i - 1) % 65536]

\* The last packet but one carries FIN, too.
SlipFinal(f, i) == i + 1 >= Count[f]

\* finbit of packet i of f.
Final(f, i) == i = Count[f]

\* The loop of send_file: the next packet goes out, or send_file gives up.
SendNext(f) ==
    LET r == From[f]
        h == route[r][To[f]]
        i == sent[f] + 1
        p == [file |-> f, seq |-> Sequence(f)[i], ttl |-> TTL[f], fin |-> Final(f, i)]
    IN  /\ f \in job[r] /\ r \notin down
        /\ NoteSent(r, p)
        /\ \/ /\ Transmit(r, h, p) \/ Break(r, h, p)
              /\ sent' = [sent EXCEPT ![f] = i]
              /\ job' = [job EXCEPT ![r] = IF i = Count[f] THEN {} ELSE @]
           \/ /\ NoSocket(r, h)
              /\ job' = [job EXCEPT ![r] = {}]
              /\ UNCHANGED sent
        /\ UNCHANGED <<started, hold, file, route>>

\* handle_data, the packet is for another router: sending_file.
Forward(r) ==
    /\ hold[r] # <<>> /\ r \notin down
    /\ LET p == hold[r][1]
           h == route[r][To[p.file]]
       IN  /\ NoteSent(r, p)
           /\ Transmit(r, h, p) \/ Break(r, h, p) \/ NoSocket(r, h)
    /\ hold' = [hold EXCEPT ![r] = <<>>]
    /\ UNCHANGED <<started, sent, job, file, route>>

-----------------------------------------------------------------------------
\* Receiving.

\* handle_data, the packet is for this router.  The file is opened by the first
\* packet of a transfer ID and closed by FIN.  What counts as the first packet
\* in fileStatArray is another matter: first_seq_num = 0.  seq_num is in host
\* order here.  The FIN field of lastDataPacket is computed from a variable that was
\* never set.
Save(r, p) ==
    LET f == p.file
        new == f \notin known[r]
    IN  IF open[f] \/ new
        THEN /\ written' = [written EXCEPT ![f] =
                               Append(IF new THEN <<>> ELSE @, p.seq)]
             /\ open' = [open EXCEPT ![f] = ~p.fin]
             /\ IF first[r][f] = 0
                THEN /\ known' = [known EXCEPT ![r] = @ \cup {f}]
                     /\ first' = [first EXCEPT ![r][f] = p.seq]
                     /\ ttls' = [ttls EXCEPT ![r][f] = p.ttl]
                     /\ seqs' = [seqs EXCEPT ![r][f] = <<p.seq>>]
                ELSE /\ seqs' = [seqs EXCEPT ![r][f] = Append(@, p.seq)]
                     /\ UNCHANGED <<known, first, ttls>>
             /\ \E fin \in BOOLEAN : Remember(r, p.seq, fin)
             /\ UNCHANGED down
        ELSE /\ down' = down \cup {r}
             /\ UNCHANGED <<stats, file>>

\* handle_data, once the packet p is read.
Handle(r, p) ==
    LET ttl == p.ttl - 1
    IN  /\ hold' = [hold EXCEPT ![r] = IF ttl > 0 /\ To[p.file] # r
                                       THEN <<[p EXCEPT !.ttl = ttl]>> ELSE <<>>]
        /\ IF ttl > 0 /\ To[p.file] = r THEN Save(r, [p EXCEPT !.ttl = ttl])
                                        ELSE UNCHANGED <<stats, file, down>>
        /\ UNCHANGED <<started, sent, job, sock, route, faults>>

\* The data socket of r is ready: the connection is accepted and its first
\* packet handled at once.  The return value of handle_data is ignored.
Accept(s, r, c) ==
    LET conn == conns[s][r][c]
    IN  /\ Idle(r)
        /\ conn.fd = "backlog"
        /\ \A b \in 1 .. c - 1 : conns[s][r][b].fd # "backlog"
        /\ conns' = [conns EXCEPT ![s][r][c] =
                        [buf |-> Tail(conn.buf), fd |-> "watched"]]
        /\ Handle(r, Head(conn.buf))

\* handle_data returns 0 after every packet.
SlipRead(s, r, c) ==
    LET conn == conns[s][r][c]
    IN  /\ Idle(r)
        /\ conn.fd = "watched" /\ conn.buf # <<>>
        /\ conns' = [conns EXCEPT ![s][r][c] =
                        [buf |-> Tail(conn.buf), fd |-> "cleared"]]
        /\ Handle(r, Head(conn.buf))

\* An accepted connection is ready, with a packet: after one with FIN the
\* descriptor is not looked at again.
Read(s, r, c) ==
    LET conn == conns[s][r][c]
    IN  /\ Idle(r)
        /\ conn.fd = "watched" /\ conn.buf # <<>>
        /\ conns' = [conns EXCEPT ![s][r][c] =
               [buf |-> Tail(conn.buf),
                fd  |-> IF Head(conn.buf).fin THEN "cleared" ELSE "watched"]]
        /\ Handle(r, Head(conn.buf))

\* ... or with its end.
ReadEnd(s, r, c) ==
    /\ Idle(r)
    /\ conns[s][r][c] = [buf |-> <<>>, fd |-> "watched"]
    /\ c < Len(conns[s][r]) \/ sock[s][r] # "open" \/ s \in down
    /\ conns' = [conns EXCEPT ![s][r][c].fd = "cleared"]
    /\ UNCHANGED <<started, sent, job, hold, sock, stats, file, down, route, faults>>

Receive(r) ==
    \E s \in Router : \E c \in 1 .. Len(conns[s][r]) :
        Accept(s, r, c) \/ Read(s, r, c) \/ ReadEnd(s, r, c)

-----------------------------------------------------------------------------
\* CRASH.
Crash(r) ==
    /\ Idle(r) /\ crashes < MaxCrashes
    /\ crashes' = crashes + 1
    /\ down' = down \cup {r}
    /\ UNCHANGED <<started, sent, job, hold, sock, conns, stats, file, route,
                   failures, moves>>

\* A handler of r changes its next hops.  No socket follows.
Reroute(r) ==
    /\ Idle(r) /\ moves < MaxMoves
    /\ moves' = moves + 1
    /\ route' \in Routes /\ route'[r] # route[r]
    /\ \A s \in Router \ {r} : route'[s] = route[s]
    /\ UNCHANGED <<started, sent, job, hold, sock, conns, stats, file, down,
                   failures, crashes>>

Next ==
    \/ \E f \in Files : SendFile(f) \/ SendNext(f)
    \/ \E r \in Router : Forward(r) \/ Receive(r) \/ Crash(r) \/ Reroute(r)

Spec == Init /\ [][Next]_vars

-----------------------------------------------------------------------------
(***************************************************************************)
(* Safety.                                                                 *)
(***************************************************************************)

IsAlive(p) == p \in Packet /\ p.ttl > 0

\* Of every variable; no more packets are on a connection than fit, no router has
\* more than one packet in hand, and no packet that travels has a TTL of 0.
TypeOK ==
    /\ started \subseteq Files
    /\ \A f \in Files : sent[f] \in 0 .. Count[f]
    /\ \A r \in Router :
        /\ job[r] \in SUBSET Files
        /\ Len(hold[r]) <= 1 /\ \A k \in 1 .. Len(hold[r]) : IsAlive(hold[r][k])
        /\ \A h \in Router :
            /\ sock[r][h] \in {"0", "open", "-1"}
            /\ \A c \in 1 .. Len(conns[r][h]) :
                /\ Len(conns[r][h][c].buf) <= Capacity
                /\ conns[r][h][c].fd \in {"backlog", "watched", "cleared"}
                /\ \A k \in 1 .. Len(conns[r][h][c].buf) :
                      IsAlive(conns[r][h][c].buf[k])
        /\ known[r] \subseteq Files
        /\ \A f \in Files : first[r][f] \in Word /\ ttls[r][f] \in Byte
        /\ \A f \in Files : seqs[r][f] \in Seq(Word)
        /\ Len(latest[r]) <= 2
    /\ \A f \in Files : open[f] \in BOOLEAN /\ written[f] \in Seq(Word)
    /\ down \subseteq Router
    /\ route \in Routes
    /\ failures \in 0 .. MaxFailures /\ crashes \in 0 .. MaxCrashes
    /\ moves \in 0 .. MaxMoves

\* A descriptor is only cleared when its connection is read to the end: whatever
\* transfers share a connection, the packet with the FIN bit is the last on it.
NothingUnread ==
    \A s, r \in Router : \A c \in 1 .. Len(conns[s][r]) :
        conns[s][r][c].fd = "cleared" => conns[s][r][c].buf = <<>>

\* The places where packets of f are that have left send_file and are not yet
\* handled: the hands of a router, and places on connections, lines being conns.
InHand(f) == {r \in Router : hold[r] # <<>> /\ hold[r][1].file = f}

Buffered(f, lines) ==
    LET OnConn(s, r, c) ==
            {<<s, r, c, k>> : k \in {k \in 1 .. Len(lines[s][r][c].buf) :
                                       lines[s][r][c].buf[k].file = f}}
        OnLine(s, r) == UNION {OnConn(s, r, c) : c \in 1 .. Len(lines[s][r])}
    IN  UNION {OnLine(s, r) : s \in Router, r \in Router}

OnTheWay(f) == Cardinality(InHand(f)) + Cardinality(Buffered(f, conns))

\* The files whose TTL suffices whatever routes there may be: with each hop the
\* rank of a router goes down, and it starts below the TTL.
Lasting ==
    {f \in Files : \E rank \in [Router -> 0 .. TTL[f]] :
        /\ rank[From[f]] < TTL[f]
        /\ \A table \in Routes, r \in Router \ {To[f]} :
              rank[r] < TTL[f] => rank[table[r][To[f]]] < rank[r]}

\* While the TTL suffices, connect succeeds and no router dies, every packet is
\* written once, or is on one connection or in the hands of one router: sockets
\* that several transfers share, that one of them closes or a change of the routes
\* leaves behind, lose and repeat nothing.
NothingLost ==
    failures = 0 /\ down = {} =>
        \A f \in Lasting : sent[f] = Len(written[f]) + OnTheWay(f)

\* Whatever fails, no packet is in two places, or written and still on its way: what
\* a router has not sent, or not read, before it dies is not sent again by another.
NothingRepeated == \A f \in Files : Len(written[f]) + OnTheWay(f) <= sent[f]

\* What the controller reads in the answers to SENDFILE-STATS, where it takes the
\* numbers to be in network order, and to LAST- and PENULTIMATE-DATA-PACKET.
SendfileStats(r, f) == [i \in DOMAIN seqs[r][f] |-> Htons(seqs[r][f][i])]
LastDataPacket(r) == IF latest[r] = <<>> THEN <<>> ELSE <<latest[r][1]>>
PenultimateDataPacket(r) == IF latest[r] = <<>> THEN <<>> ELSE Tail(latest[r])

\* The numbers r has noted of f: a destination answers with their bytes swapped.
Noted(r, f) ==
    IF r = To[f] THEN [i \in DOMAIN seqs[r][f] |-> Htons(SendfileStats(r, f)[i])]
                 ELSE SendfileStats(r, f)

\* The routers f comes by: its first router, the next hop of that one, and so on up to
\* the destination, if the routes lead there.
Hop(f, r) == route[r][To[f]]
Passes(f) ==
    {r \in Router : \A S \in SUBSET Router :
        From[f] \in S /\ (\A s \in S \ {To[f]} : Hop(f, s) \in S) => r \in S}
OnItsWay(f) == To[f] \in Passes(f)

\* SENDFILE-STATS: what a router on the way of a file has noted of it is the
\* beginning of what the router before it has noted, in the same order and with a
\* TTL that is one less, once the numbers of the destination are swapped back.  The
\* exception is a file that is numbered from 0: its destination forgets the first
\* number.
TrailsAgree ==
    \A f \in Files : OnItsWay(f) => \A r \in Passes(f) \ {To[f]} :
        LET next == Hop(f, r)
        IN  /\ \/ IsPrefix(Noted(next, f), Noted(r, f))
               \/ /\ FirstSeq[f] = 0 /\ next = To[f]
                  /\ IsPrefix(<<0>> \o Noted(next, f), Noted(r, f))
            /\ Noted(next, f) # <<>> /\ f # 0 => ttls[next][f] = ttls[r][f] - 1

\* The last packet is the last that was noted of some transfer, and the one
\* before it is the last but one of the same transfer or the last of another.
LatestAreNoted ==
    \A r \in Router : LastDataPacket(r) # <<>> =>
        \E f \in Files :
            /\ Noted(r, f) # <<>> /\ LastDataPacket(r)[1].seq = Last(Noted(r, f))
            /\ PenultimateDataPacket(r) # <<>> =>
                 LET seq == PenultimateDataPacket(r)[1].seq
                 IN  \/ Len(Noted(r, f)) >= 2 /\ seq = Last(Front(Noted(r, f)))
                     \/ \E g \in Files \ {f} :
                          Noted(r, g) # <<>> /\ seq = Last(Noted(r, g))

\* Without CRASH no router dies of a single transfer: the file is open whenever a
\* packet is written to it.  The exception is ID 0, the ID that every entry of
\* fileStatArray has from the start; and a router that dies takes those with it that
\* send to it.
DiesOfID0 == crashes = 0 /\ down # {} => 0 \in started

\* A single file arrives packet by packet, in order, even if connect fails at
\* some hop: that socket is given up for good, so that no later packet comes
\* through after a lost one.
Channel == INSTANCE FileChannel WITH Packets <- [f \in Files |-> Sequence(f)]
IsChannel == Channel!Spec

\* "file received, close" (data_handler.c:450): a file that is closed at its
\* destination has been received, every packet in its place.
ReceivedWhenClosed ==
    \A f \in Files : f \in known[To[f]] /\ ~open[f] => written[f] = Sequence(f)

-----------------------------------------------------------------------------
(***************************************************************************)
(* Liveness.                                                               *)
(***************************************************************************)

\* A router goes on as long as it can, and every connection on which there is
\* something to read is read in the end: a pass of main_loop looks at all the
\* descriptors that are ready.
Fairness ==
    /\ \A f \in Files : WF_vars(SendFile(f)) /\ WF_vars(SendNext(f))
    /\ \A r \in Router :
        /\ WF_vars(Forward(r))
        /\ \A s \in Router : SF_vars(\E c \in 1 .. Len(conns[s][r]) :
               Accept(s, r, c) \/ Read(s, r, c) \/ ReadEnd(s, r, c))

FairSpec == Spec /\ Fairness

\* Unless connect fails or a router dies, a file whose routes lead to its
\* destination, and whose TTL lets it get there, arrives as a whole, and no socket to a
\* next hop and no descriptor in master is left behind: no send waits for ever.
Arrived(f) ==
    /\ written[f] = Sequence(f) /\ ~open[f]
    /\ \A r, h \in Router :
        /\ sock[r][h] = "0"
        /\ \A c \in 1 .. Len(conns[r][h]) : conns[r][h][c].fd = "cleared"

FilesArrive ==
    [](failures = 0 /\ down = {}) =>
        \A f \in Files :
            f \in started /\ OnItsWay(f) /\ TTL[f] >= Cardinality(Router) ~> Arrived(f)

\* r is done: it neither sends nor forwards, and has read everything sent to it.
AtRest(r) ==
    /\ job[r] = {} /\ hold[r] = <<>>
    /\ \A s \in Router : \A c \in 1 .. Len(conns[s][r]) :
          /\ conns[s][r][c].buf = <<>>
          /\ \/ conns[s][r][c].fd = "cleared"
             \/ s \notin down /\ sock[s][r] = "open"

\* r waits in send until h reads.
Waits(r, h) ==
    /\ ~Room(r, h) /\ h \notin down
    /\ \/ \E f \in job[r] : h = route[r][To[f]]
       \/ hold[r] # <<>> /\ h = route[r][To[hold[r][1].file]]

\* Whatever becomes of a single file, the routers that live come to rest: when its
\* routes run in a circle its TTL ends it, and a router that dies leaves none waiting for
\* it.  The exception are routers that wait for one another, in a circle of next hops
\* that is too small for a file longer than the buffers on it; then they wait for ever,
\* and no file on the way to its destination does that.
ComesToRest ==
    \E ring \in SUBSET Router :
        <>[](/\ \A r \in ring : r \notin down /\ \E h \in ring : Waits(r, h)
             /\ ring # {} => \E f \in started : ~OnItsWay(f)
             /\ \A r \in Router \ down : r \in ring \/ AtRest(r))

\* "send/recvALL are simple wrappers [...] to ensure nbytes are always
\* sent/received" (network_util.c:21): a SENDFILE that was begun is finished.
AlwaysSent == \A f \in Files : <>(f \in started /\ job[From[f]] = {})
=============================================================================
