--------------------------- MODULE ControlSession ---------------------------
(***************************************************************************)
(* The connections of the controller to one router.  main_loop accepts     *)
(* them, keeps each in a list, and hands a descriptor that is ready to     *)
(* control_recv_hook, which reads one command with recvALL, header and then *)
(* payload, performs it and answers it.  recvALL waits until it has what it *)
(* wants: meanwhile the router does nothing else.                          *)
(*                                                                         *)
(* A command is a sequence of units, those of its header first; a unit is  *)
(* what may arrive by itself.  A connection is used by one controller, who *)
(* may hang up at any time.                                                *)
(*                                                                         *)
(* remove_control_conn frees every entry it passes and goes on from the    *)
(* freed one.  What becomes of the process then is not determined by the   *)
(* program: each use of a freed entry may have any of the outcomes named   *)
(* where it is made.                                                       *)
(*                                                                         *)
(* The operators Slip... are the code with a mistake in it; nothing here   *)
(* uses them.  They show that the properties tell it from the code.        *)
(***************************************************************************)
EXTENDS Integers, Sequences, FiniteSetsExt

CONSTANTS
    Ctl,          \* the connections of controllers, each used once
    Command,      \* the commands a controller sends
    MaxCommands,  \* bound: the commands sent on all connections
    HeaderUnits,  \* the units of a header
    PayloadUnits  \* PayloadUnits[k]: the units of the payload of k, maybe none

\* "crash" is CRASH, "sendfile" SENDFILE, "other" a code the switch does not
\* know; every other command is answered, and the process goes on.
Known == {"query", "update", "sendfile", "crash"}
AnyCommand == Known \cup {"other"}
Silent == {"sendfile", "other"}

ASSUME SessionAssumption ==
    /\ Command \subseteq AnyCommand
    /\ MaxCommands \in Nat
    /\ HeaderUnits \in Nat \ {0}
    /\ PayloadUnits \in [AnyCommand -> Nat]

VARIABLES
    up,         \* "on"; "exited" by CRASH; "hung" in a loop; "dead" of a signal
    keepsNext,  \* free leaves le_next of the entry as it is
    peer,       \* peer[c]: the controller's end of c
    asked,      \* asked[c]: the commands begun by the controller
    rest,       \* rest[c]: the units of the last of them not sent yet
    stream,     \* stream[c]: the units sent and not read
    fd,         \* fd[c]: the descriptor of c at the router
    listed,     \* the connections that conn_list has an entry of
    reader,     \* what control_recv_hook is reading, NoReader in select
    taken,      \* taken[c]: the commands performed
    answers     \* answers[c]: the answers sent

controller == <<peer, asked, rest>>
process == <<up, keepsNext>>
done == <<taken, answers>>
vars == <<process, controller, stream, fd, listed, reader, done>>

NoReader == [conn |-> {}, command |-> {}, got |-> <<>>]
Units(k) == [i \in 1 .. HeaderUnits + PayloadUnits[k] |-> <<k, i>>]
Ended(c) == peer[c] \in {"fin", "reset", "finreset"}

\* Freed entries that conn_list still leads to.
Forgotten == {c \in Ctl : fd[c] = "watched"} \ listed

\* Before gcc 10, with which the headers no longer link, the C library is one that
\* leaves le_next alone or one that writes over it.
Init ==
    /\ up = "on" /\ keepsNext \in BOOLEAN
    /\ peer = [c \in Ctl |-> "none"]
    /\ asked = [c \in Ctl |-> <<>>] /\ rest = [c \in Ctl |-> <<>>]
    /\ stream = [c \in Ctl |-> <<>>]
    /\ fd = [c \in Ctl |-> "none"]
    /\ listed = {}
    /\ reader = NoReader
    /\ taken = [c \in Ctl |-> 0] /\ answers = [c \in Ctl |-> <<>>]

-----------------------------------------------------------------------------
\* The controller.

Connect(c) ==
    /\ peer[c] = "none"
    /\ peer' = [peer EXCEPT ![c] = "here"]
    /\ fd' = [fd EXCEPT ![c] = "backlog"]
    /\ UNCHANGED <<process, asked, rest, stream, listed, reader, done>>

\* A controller may send commands without waiting for answers.
Ask(c, k) ==
    /\ peer[c] = "here" /\ rest[c] = <<>>
    /\ MapThenSumSet(LAMBDA d : Len(asked[d]), Ctl) < MaxCommands
    /\ asked' = [asked EXCEPT ![c] = Append(@, k)]
    /\ rest' = [rest EXCEPT ![c] = Units(k)]
    /\ UNCHANGED <<process, peer, stream, fd, listed, reader, done>>

Arrive(c) ==
    /\ peer[c] = "here" /\ rest[c] # <<>>
    /\ stream' = [stream EXCEPT ![c] = Append(@, Head(rest[c]))]
    /\ rest' = [rest EXCEPT ![c] = Tail(@)]
    /\ UNCHANGED <<process, peer, asked, fd, listed, reader, done>>

\* With answers left unread TCP resets the connection.
HangUp(c) ==
    /\ peer[c] = "here"
    /\ \/ peer' = [peer EXCEPT ![c] = "fin"]
       \/ answers[c] # <<>> /\ peer' = [peer EXCEPT ![c] = "reset"]
    /\ UNCHANGED <<process, asked, rest, stream, fd, listed, reader, done>>

-----------------------------------------------------------------------------
\* The router.

Idle == up = "on" /\ reader = NoReader

\* The control socket is ready: new_control_conn.
Accept(c) ==
    /\ Idle /\ fd[c] = "backlog"
    /\ fd' = [fd EXCEPT ![c] = "watched"]
    /\ listed' = listed \cup {c}
    /\ UNCHANGED <<process, controller, stream, reader, done>>

\* select reports it: there is something to read, or the end.
Ready(c) == fd[c] = "watched" /\ (stream[c] # <<>> \/ Ended(c))

\* isControl finds the connection, in front of any freed entry.
Begin(c) ==
    /\ Idle /\ Ready(c)
    /\ c \in listed
    /\ reader' = [NoReader EXCEPT !.conn = {c}]
    /\ UNCHANGED <<process, controller, stream, fd, listed, done>>

\* isControl walks over freed entries.  At best it does not find the connection,
\* nobody reads it, and select reports it again at once; but an entry that malloc
\* gave away again may lead back into the list, or nowhere.
Stray(c) ==
    /\ Idle /\ Ready(c)
    /\ c \notin listed
    /\ up' \in {"hung", "dead"}
    /\ UNCHANGED <<keepsNext, controller, stream, fd, listed, reader, done>>

-----------------------------------------------------------------------------
\* recvALL.

\* The units that recvALL is called for: a header, or the payload after it.
Wanted == IF reader.command = {} THEN HeaderUnits
          ELSE PayloadUnits[CHOOSE k \in reader.command : TRUE]

\* recv returned something: recvALL is content.
SlipComplete == reader.got # <<>>

\* bytes = nbytes.
Complete == reader.conn # {} /\ Len(reader.got) = Wanted

\* The control code, and the length of the payload with it, are where the header
\* has them.
CodeOf(header) ==
    IF \E k \in AnyCommand : header[1] = <<k, 1>> THEN header[1][1] ELSE "other"

\* Once the header is read, its payload is, if it has any.
Parsed(got) ==
    IF reader.command = {} /\ Len(got) = HeaderUnits /\ PayloadUnits[CodeOf(got)] > 0
    THEN [reader EXCEPT !.command = {CodeOf(got)}, !.got = <<>>]
    ELSE [reader EXCEPT !.got = got]

\* recv returns as many units as there are and are wanted.
Receive(c) ==
    LET n == Min({Wanted - Len(reader.got), Len(stream[c])})
    IN  /\ up = "on" /\ reader.conn = {c}
        /\ n > 0
        /\ reader' = Parsed(reader.got \o SubSeq(stream[c], 1, n))
        /\ stream' = [stream EXCEPT ![c] = SubSeq(@, n + 1, Len(@))]
        /\ UNCHANGED <<process, controller, fd, listed, done>>

\* The connection has ended and there is nothing more to read.
AtEnd(c) == reader.conn = {c} /\ stream[c] = <<>> /\ Ended(c) /\ ~Complete

\* The result of the first recv is not looked at.
SlipNoMessage(c) == FALSE

\* The first recv of recvALL returns 0.
NoMessage(c) == AtEnd(c) /\ reader.got = <<>> /\ peer[c] # "reset"

\* recv returns 0, or once -1 and then 0, and recvALL goes on for ever.
RecvForEver(c) ==
    /\ up = "on"
    /\ AtEnd(c) /\ ~NoMessage(c)
    /\ up' = "hung"
    /\ UNCHANGED <<keepsNext, controller, stream, fd, listed, reader, done>>

\* The entry stays.
SlipFreeEntries == UNCHANGED listed

\* LIST_FOREACH of remove_control_conn: every entry is freed, not only the one that
\* is unlinked.
FreeEntries == listed' = {}

\* remove_control_conn.  The walk goes from each entry to the next after the entry
\* is freed.
Remove(c) ==
    /\ up = "on"
    /\ NoMessage(c)
    /\ fd' = [fd EXCEPT ![c] = "closed"]
    /\ FreeEntries
    /\ up' \in IF Forgotten # {} THEN {"on", "hung", "dead"}
              ELSE IF keepsNext THEN {"on"} ELSE {"dead"}
    /\ reader' = NoReader
    /\ UNCHANGED <<keepsNext, controller, stream, done>>

-----------------------------------------------------------------------------
\* Performing a command.

\* The command that has been read to its end, once there is one.
Read == IF reader.command # {} THEN reader.command ELSE {CodeOf(reader.got)}

AnswerHeader(c, k) == [to |-> c, code |-> k]

\* sendALL: a controller that has hung up resets the connection, and the next
\* answer on it is the death of the process.
Respond(c, k, after) ==
    IF peer[c] \in {"reset", "finreset"}
    THEN up' = "dead" /\ UNCHANGED <<peer, done>>
    ELSE /\ answers' = [answers EXCEPT ![c] = Append(@, AnswerHeader(c, k))]
         /\ peer' \in IF peer[c] = "fin" THEN {peer, [peer EXCEPT ![c] = "finreset"]}
                                        ELSE {peer}
         /\ taken' = [taken EXCEPT ![c] = @ + 1]
         /\ up' = after

\* The switch.  SENDFILE is not answered when there is no connection to the next
\* hop, and a code that is not known never.
Triage(c, k) ==
    \/ k # "other" /\ Respond(c, k, IF k = "crash" THEN "exited" ELSE "on")
    \/ /\ k \in Silent
       /\ taken' = [taken EXCEPT ![c] = @ + 1]
       /\ UNCHANGED <<up, peer, answers>>

\* control_recv_hook returns 0.
SlipStay(c) == fd' = [fd EXCEPT ![c] = "closed"]

\* control_recv_hook returns 1: the descriptor stays in master.
Stay(c) == UNCHANGED fd

\* The whole command is read.
Perform(c) ==
    /\ up = "on" /\ reader.conn = {c} /\ Complete
    /\ \E k \in Read : Triage(c, k)
    /\ reader' = NoReader
    /\ Stay(c)
    /\ UNCHANGED <<keepsNext, asked, rest, stream, listed>>

Serve(c) ==
    Accept(c) \/ Begin(c) \/ Receive(c) \/ RecvForEver(c) \/ Remove(c)
        \/ Perform(c)

Next ==
    \E c \in Ctl :
        \/ Connect(c) \/ Arrive(c) \/ HangUp(c) \/ \E k \in Command : Ask(c, k)
        \/ Serve(c) \/ Stray(c)

Spec == Init /\ [][Next]_vars

-----------------------------------------------------------------------------
(***************************************************************************)
(* Safety.                                                                 *)
(***************************************************************************)

\* Of every variable; whoever is read from is watched and has an entry, and what
\* is on a connection and what has been read of a command fit together.
TypeOK ==
    /\ up \in {"on", "exited", "hung", "dead"} /\ keepsNext \in BOOLEAN
    /\ \A c \in Ctl :
        /\ peer[c] \in {"none", "here", "fin", "reset", "finreset"}
        /\ fd[c] \in {"none", "backlog", "watched", "closed"}
        /\ asked[c] \in Seq(Command)
        /\ taken[c] \in 0 .. Len(asked[c])
        /\ Len(answers[c]) <= taken[c]
    /\ listed \subseteq {c \in Ctl : fd[c] = "watched"}
    /\ reader.conn \subseteq listed
    /\ reader.conn # {} => Len(reader.got) <= Wanted

\* However the bytes of the commands arrive, and whatever other controllers do
\* meanwhile, each command is read as the controller wrote it, and answered once,
\* on its own connection, in its turn: one recvALL too short or too long, and
\* every later header would be read from the wrong place.
Promise == INSTANCE Dialogue
IsDialogue == Promise!Spec

\* A controller that hung up in the middle of a command, or without having read
\* what it was answered.
LeftEarly(c) == Ended(c) /\ (rest[c] # <<>> \/ peer[c] # "fin")

\* The controllers alone cannot stop the router but by leaving early, or by being
\* connected while another one is removed (with a C library that keeps le_next).
StopsForAReason ==
    up \in {"hung", "dead"} =>
        ~keepsNext \/ Forgotten # {} \/ \E c \in Ctl : LeftEarly(c)

-----------------------------------------------------------------------------
(***************************************************************************)
(* Liveness.                                                               *)
(***************************************************************************)

\* A controller sends the rest of a command it has begun, unless it hangs up.
\* The router goes on as long as it can, and looks at every descriptor in every
\* pass.
Fairness ==
    \A c \in Ctl : WF_vars(Arrive(c)) /\ SF_vars(Serve(c))

FairSpec == Spec /\ Fairness

\* Every command is performed in the end, however slowly other controllers send
\* theirs, unless the router stops, the controller leaves, or its connection was
\* forgotten when another one was removed: a router that has not got to it yet
\* does.
CaughtUp(c) == taken[c] = Len(asked[c]) \/ Ended(c) \/ c \in Forgotten

CommandsAreTaken == \A c \in Ctl : []<>(CaughtUp(c) \/ up # "on")
=============================================================================
