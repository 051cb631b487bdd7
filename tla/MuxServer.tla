----------------------------- MODULE MuxServer ------------------------------
(***************************************************************************)
(* The programs that wait for many descriptors at once: the multiplexing   *)
(* echo servers, and the programs about the two modes of epoll.            *)
(***************************************************************************)
EXTENDS Integers, Sequences, FiniteSets

(***************************************************************************)
(* The echo servers in which one process serves all connections: with      *)
(* select, poll or epoll in src/多路IO转接服务器, with select or poll in     *)
(* src/unpv13e (tcpcliserv, nonblock).                                     *)
(*                                                                         *)
(* The process waits, accepts at most one connection, and reads once from  *)
(* every slot that the wait has reported.  Descriptor numbers are small    *)
(* integers, given out lowest first; a connection sends lines.             *)
(***************************************************************************)

CONSTANTS
    Peers,          \* the connections, 1 .. n
    FD_SETSIZE,     \* descriptors that an fd_set holds, and slots of client[]
    OPEN_MAX,       \* the array of poll has 2 .. OPEN_MAX slots
    MaxLines        \* bound: lines that a connection sends at once

ASSUME MuxAssumption ==
    /\ Peers \subseteq Nat \ {0} /\ IsFiniteSet(Peers)
    /\ FD_SETSIZE \in Nat /\ OPEN_MAX \in Nat /\ MaxLines \in Nat

(***************************************************************************)
(*   table   "client": an array of descriptors beside the fd_set;          *)
(*           "pollfd": the array of poll; "fd": the descriptor is the index*)
(*   counts  the loop ends when nready descriptors have been seen          *)
(*   failed  accept returns -1: "exit" or "unchecked"                      *)
(*   reset   read fails: "close", "exit", "ignore"                         *)
(*   ended   what is done with the descriptor: "close" or "forget"         *)
(*   read    "all" there is, or a "line" through the buffer of readline    *)
(***************************************************************************)
Mux(table, counts, failed, reset, ended, read) ==
    [table |-> table, counts |-> counts, failed |-> failed, reset |-> reset, ended |-> ended, read |-> read]

select_c == Mux("fd", "no", "unchecked", "ignore", "close", "all")
select_opt == Mux("client", "yes", "exit", "ignore", "close", "all")
poll_c == Mux("pollfd", "no", "exit", "close", "close", "all")
epoll_c == Mux("epoll", "no", "exit", "close", "forget", "all")
tcpservselect01 == Mux("client", "yes", "exit", "exit", "close", "all")
tcpservpoll01 == Mux("pollfd", "yes", "exit", "close", "close", "all")
tcpservselect03 == Mux("client", "yes", "exit", "exit", "close", "line")

Muxes == {select_c, select_opt, poll_c, epoll_c, tcpservselect01, tcpservpoll01, tcpservselect03}

VARIABLES
    mux, limit, size,   \* the server, how many descriptors it may have, and slots
    peer,               \* of each connection: "none", "queued", "open", "closed", "aborted"
    lines, end,         \* its lines that wait to be read; "no", "fin", "rst" or "eof"
    slot,               \* the descriptor in each slot, -1 in a free one
    conn,               \* the connection of each descriptor, 0 without one
    maxi, nready,
    hot,                \* the slots whose revents, or bit in rset, is set
    new,                \* whether the listening socket has been reported
    next,               \* the slot that the loop looks at next
    muxAt,              \* "wait", "accept", "scan", "write", or how the server ended
    stash,              \* readline's static buffer: whose lines stand there
    astray              \* lines written to another client than their sender's

net == <<peer, lines, end>>
tables == <<slot, conn, maxi>>
muxVars == <<mux, limit, size, net, tables, nready, hot, new, next, muxAt, stash, astray>>

Fds == 2 .. limit - 1
Sizes == CASE mux.table = "pollfd" -> 2 .. OPEN_MAX [] mux.table = "client" -> {FD_SETSIZE} [] OTHER -> {limit}
FirstSlot == IF mux.table = "pollfd" THEN 1 ELSE 0
Slots == FirstSlot .. size - 1

\* The revents of a slot that poll has never been given are not initialised.
MuxInit ==
    /\ mux \in Muxes /\ limit \in {FD_SETSIZE, FD_SETSIZE + 1} /\ size \in Sizes
    /\ peer = [c \in Peers |-> "none"] /\ lines = [c \in Peers |-> 0] /\ end = [c \in Peers |-> "no"]
    /\ slot = [i \in Slots |-> -1] /\ conn = [d \in Fds |-> 0] /\ maxi = FirstSlot - 1
    /\ hot \in IF mux.table = "pollfd" THEN {{}, Slots} ELSE {{}}
    /\ nready = 0 /\ new = "no" /\ next = 0 /\ muxAt = "wait" /\ stash = <<>> /\ astray = {}

(***************************************************************************)
(* The clients and the kernel.                                             *)
(***************************************************************************)
serverState == <<mux, limit, size, tables, nready, hot, new, next, muxAt, stash, astray>>

MuxConnects(c) ==
    /\ peer[c] = "none" /\ \A b \in Peers : b < c => peer[b] # "none"
    /\ peer' = [peer EXCEPT ![c] = "queued"] /\ UNCHANGED <<lines, end, serverState>>

PeerSends(c) ==
    /\ peer[c] \in {"queued", "open"} /\ end[c] = "no" /\ lines[c] = 0
    /\ \E n \in 1 .. MaxLines : lines' = [lines EXCEPT ![c] = n]
    /\ UNCHANGED <<peer, end, serverState>>

\* A reset discards what has not been read; a system may also take a reset connection
\* off the queue.
PeerLeaves(c) ==
    /\ peer[c] \in {"queued", "open"}
    /\ \/ end[c] = "no" /\ end' = [end EXCEPT ![c] = "fin"] /\ UNCHANGED <<peer, lines>>
       \/ /\ end[c] \in {"no", "fin"} /\ end' = [end EXCEPT ![c] = "rst"]
          /\ lines' = [lines EXCEPT ![c] = 0] /\ UNCHANGED peer
       \/ /\ peer[c] = "queued" /\ peer' = [peer EXCEPT ![c] = "aborted"]
          /\ lines' = [lines EXCEPT ![c] = 0] /\ end' = [end EXCEPT ![c] = "eof"]
    /\ UNCHANGED serverState

(***************************************************************************)
(* The wait.                                                               *)
(***************************************************************************)
Open(i) == slot[i] # -1
Of(i) == conn[slot[i]]
Ready(i) == Open(i) /\ (lines[Of(i)] > 0 \/ end[Of(i)] # "no")
Queue == {c \in Peers : peer[c] = "queued"}

\* rset is assigned anew, revents are set up to maxi.
WaitMux ==
    /\ muxAt = "wait"
    /\ LET ready == {i \in Slots : i <= maxi /\ Ready(i)} IN
       /\ hot' = ready \cup IF mux.table = "pollfd" THEN {i \in hot : i > maxi} ELSE {}
       /\ new' = IF Queue # {} THEN "yes" ELSE "no"
       /\ nready' = Cardinality(ready) + IF Queue # {} THEN 1 ELSE 0
    /\ nready' > 0 /\ next' = FirstSlot
    /\ muxAt' = IF new' = "yes" /\ mux.table # "epoll" THEN "accept" ELSE "scan"
    /\ UNCHANGED <<mux, limit, size, net, tables, stash, astray>>

(***************************************************************************)
(* accept: the lowest descriptor, and the first free slot.                 *)
(***************************************************************************)
FreeFds == {d \in Fds : conn[d] = 0}
LowestOf(d, S) == d \in S /\ \A e \in S : d <= e
FreeSlots == {i \in Slots : ~ Open(i)}
SlotFor(i, d) == IF mux.table \in {"fd", "epoll"} THEN i = d ELSE LowestOf(i, FreeSlots)

InAccept == muxAt = "accept" \/ (muxAt = "scan" /\ new = "yes" /\ mux.table = "epoll")
AfterAcceptMux == IF muxAt = "accept" /\ nready - 1 = 0 THEN "wait" ELSE "scan"

TopSlot(i) == IF i > maxi THEN i ELSE maxi

AcceptMux(c) ==
    /\ InAccept /\ LowestOf(c, Queue) /\ new' = "no"
    /\ \E d \in Fds : \E i \in Slots :
          /\ LowestOf(d, FreeFds) /\ SlotFor(i, d)
          /\ peer' = [peer EXCEPT ![c] = "open"]
          /\ conn' = [conn EXCEPT ![d] = c] /\ slot' = [slot EXCEPT ![i] = d] /\ maxi' = TopSlot(i)
          /\ muxAt' = IF d >= FD_SETSIZE /\ mux.table \in {"fd", "client"} THEN "undefined" ELSE AfterAcceptMux
    /\ nready' = nready - 1
    /\ UNCHANGED <<mux, limit, size, lines, end, hot, next, stash, astray>>

\* No descriptor: FD_SET(-1) where the result is not tested.
AcceptFails ==
    /\ InAccept /\ Queue # {} /\ FreeFds = {}
    /\ muxAt' = IF mux.failed = "exit" THEN "exit" ELSE "undefined"
    /\ UNCHANGED <<mux, limit, size, net, tables, nready, hot, new, next, stash, astray>>

\* No slot: "too many clients".
TooMany ==
    /\ InAccept /\ Queue # {} /\ FreeFds # {} /\ FreeSlots = {}
    /\ muxAt' = "exit"
    /\ UNCHANGED <<mux, limit, size, net, tables, nready, hot, new, next, stash, astray>>

(***************************************************************************)
(* The loop over the slots.                                                *)
(***************************************************************************)
Seen == nready - 1
\* Back to the wait, which sets the variables of the loop anew.
Again == muxAt' = "wait" /\ nready' = 0 /\ next' = 0
\* After slot i: the end of the loop, or the next slot.
Onward(i) ==
    IF mux.counts = "yes" /\ Seen <= 0 THEN Again ELSE muxAt' = "scan" /\ nready' = Seen /\ next' = i + 1

\* Slots that are free or not reported are passed over.
AtSlot(i) ==
    /\ muxAt = "scan" /\ i >= next /\ i <= maxi /\ Open(i) /\ i \in hot
    /\ \A j \in Slots : next <= j /\ j < i => ~ Open(j) \/ j \notin hot

LoopEnds ==
    /\ muxAt = "scan" /\ \A i \in Slots : next <= i /\ i <= maxi => ~ Open(i) \/ i \notin hot
    /\ mux.table = "epoll" => new = "no"
    /\ Again
    /\ UNCHANGED <<mux, limit, size, net, tables, hot, new, stash, astray>>

\* The descriptor is closed and its slot is free; epoll.c only deletes it from the tree.
Drop(i) ==
    /\ slot' = [slot EXCEPT ![i] = -1]
    /\ IF mux.ended = "close"
       THEN conn' = [conn EXCEPT ![slot[i]] = 0] /\ peer' = [peer EXCEPT ![Of(i)] = "closed"]
       ELSE UNCHANGED <<conn, peer>>
    /\ end' = [end EXCEPT ![Of(i)] = "eof"] /\ UNCHANGED maxi

\* read returns lines: they are echoed; a line left in readline's buffer comes first,
\* whosever it is.
ReadLines(i) ==
    /\ AtSlot(i) /\ (lines[Of(i)] > 0 \/ stash # <<>>)
    /\ muxAt' = "write"
    /\ IF mux.read = "all" \/ stash = <<>>
       THEN /\ lines' = [lines EXCEPT ![Of(i)] = 0]
            /\ stash' = IF mux.read = "all" THEN <<Of(i)>> ELSE [k \in 1 .. lines[Of(i)] |-> Of(i)]
       ELSE UNCHANGED <<lines, stash>>
    /\ next' = i /\ UNCHANGED <<mux, limit, size, peer, end, tables, nready, hot, new, astray>>

\* write, or Writen: to a client that has reset it raises SIGPIPE.
WriteBack(i) ==
    /\ muxAt = "write" /\ i = next
    /\ IF end[Of(i)] = "rst"
       THEN muxAt' = "sigpipe" /\ UNCHANGED <<nready, next, stash, astray>>
       ELSE /\ astray' = astray \cup ({<<Head(stash), Of(i)>>} \ {<<Of(i), Of(i)>>})
            /\ stash' = Tail(stash) /\ Onward(i)
    /\ UNCHANGED <<mux, limit, size, net, tables, hot, new>>

\* Mutant: the slot keeps the descriptor that was closed.
ReadEnd_kept(i) ==
    /\ AtSlot(i) /\ lines[Of(i)] = 0 /\ stash = <<>> /\ end[Of(i)] \in {"fin", "eof"}
    /\ conn' = [conn EXCEPT ![slot[i]] = 0] /\ peer' = [peer EXCEPT ![Of(i)] = "closed"]
    /\ Onward(i)
    /\ UNCHANGED <<mux, limit, size, lines, end, slot, maxi, hot, new, stash, astray>>

\* read returns 0.
ReadEnd(i) ==
    /\ AtSlot(i) /\ lines[Of(i)] = 0 /\ stash = <<>> /\ end[Of(i)] \in {"fin", "eof"}
    /\ Drop(i) /\ Onward(i)
    /\ UNCHANGED <<mux, limit, size, lines, hot, new, stash, astray>>

\* ECONNRESET; where it is ignored the next read returns 0.
ReadError(i) ==
    /\ AtSlot(i) /\ lines[Of(i)] = 0 /\ stash = <<>> /\ end[Of(i)] = "rst"
    /\ CASE mux.reset = "close" -> Drop(i) /\ Onward(i)
         [] mux.reset = "ignore" -> end' = [end EXCEPT ![Of(i)] = "eof"] /\ Onward(i) /\ UNCHANGED <<slot, conn, maxi, peer>>
         [] OTHER -> muxAt' = "exit" /\ UNCHANGED <<slot, conn, maxi, peer, end, nready, next>>
    /\ UNCHANGED <<mux, limit, size, lines, hot, new, stash, astray>>

muxMain ==
    \/ WaitMux \/ AcceptFails \/ TooMany \/ LoopEnds
    \/ \E c \in Peers : AcceptMux(c)
    \/ \E i \in Slots : ReadLines(i) \/ WriteBack(i) \/ ReadEnd(i) \/ ReadError(i)

MuxNext == muxMain \/ \E c \in Peers : MuxConnects(c) \/ PeerSends(c) \/ PeerLeaves(c)
MuxSpec == MuxInit /\ [][MuxNext]_muxVars

(***************************************************************************)
(* Properties.                                                             *)
(***************************************************************************)
MuxOver == muxAt \in {"exit", "undefined", "sigpipe"}

\* The table and the descriptors agree: a slot that is not free holds a descriptor that is
\* open, no two hold the same one, none of them is above maxi, and an open descriptor has a
\* slot; only epoll.c keeps descriptors it has no use for.
TableAgrees ==
    /\ \A i \in Slots : Open(i) => i <= maxi /\ slot[i] \in Fds /\ Of(i) # 0
    /\ \A i, j \in Slots : Open(i) /\ slot[i] = slot[j] => i = j
    /\ mux # epoll_c => \A d \in Fds : conn[d] # 0 => \E i \in Slots : slot[i] = d

\* The server never waits in read for one client while others wait for it: the loop looks
\* only at what poll has set.  poll.c does not end its loop at the count and may look at
\* the revents of a slot that poll has not seen yet.
BlockedInRead == \E i \in Slots : AtSlot(i) /\ ~ Ready(i) /\ stash = <<>>
NeverBlocks == mux # poll_c => ~ BlockedInRead

\* FD_SET stays inside the set while the process may have no more descriptors than the set
\* has room for; the table of slots does not ensure it.  select.c also passes it the -1 of
\* a failed accept.
SetInRange == muxAt = "undefined" => limit > FD_SETSIZE \/ mux = select_c

\* Every line goes back to the client that sent it; tcpservselect03.c reads its clients
\* through one buffer.
EchoToSender == mux # tcpservselect03 => astray = {}

\* The servers' tables and loops, while clients come, send, end and reset: TableAgrees,
\* NeverBlocks, SetInRange and EchoToSender, each with the servers it does not hold for.
MuxSound == TableAgrees /\ NeverBlocks /\ SetInRange /\ EchoToSender

\* The listening socket is blocking: a connection that goes between select and accept.
StuckInAccept == muxAt = "accept" /\ Queue = {}

\* A connection that has sent a line, or has ended, is answered or closed, unless the
\* server has ended or hangs in accept or in poll.c's read.
MuxServes ==
    \A c \in Peers :
        peer[c] \in {"queued", "open"} /\ (lines[c] > 0 \/ end[c] # "no") ~>
            \/ lines[c] = 0 /\ (end[c] = "no" \/ peer[c] \in {"closed", "aborted"})
            \/ MuxOver \/ StuckInAccept \/ BlockedInRead \/ mux \in {epoll_c, tcpservselect03}

(***************************************************************************)
(* The programs about the modes of epoll in src/多路IO转接服务器/epoll:    *)
(* "ET非阻塞模式.c" reads a connection in edge-triggered mode until read    *)
(* would block, "ET和LT.c" reads a pipe once per level-triggered event.    *)
(*                                                                         *)
(* An edge is raised when data arrives, and by EPOLL_CTL_ADD if there is   *)
(* data already.                                                           *)
(***************************************************************************)

CONSTANTS
    ModeWrites, \* bound: how often the peer writes
    ModeWrite,  \* bytes of one write, MAXLINE
    ModeRead    \* bytes asked for by one read, MAXLINE / 2

ASSUME ModeAssumption == ModeWrites \in Nat /\ ModeWrite \in Nat /\ ModeRead \in Nat \ {0}

VARIABLES
    mode,       \* the program
    modeSent, modeShown,    \* bytes written by the peer, and to standard output
    modeEdge,   \* an edge that epoll_wait has not reported yet
    modeAt      \* "add", "wait", "read"

modeVars == <<mode, modeSent, modeShown, modeEdge, modeAt>>

\* Whether EPOLLET is set, and whether read is called until it fails.
ET_nonblock == [name |-> "ET", edge |-> TRUE, drain |-> TRUE]
ET_and_LT == [name |-> "LT", edge |-> FALSE, drain |-> FALSE]

ModeInit ==
    /\ mode \in {ET_nonblock, ET_and_LT}
    /\ modeSent = 0 /\ modeShown = 0 /\ modeEdge = "no" /\ modeAt = "add"

\* The peer writes; ET_and_LT's parent process writes MAXLINE bytes at a time.
ModePeer ==
    /\ modeSent < ModeWrites * ModeWrite
    /\ modeSent' = modeSent + ModeWrite
    /\ modeEdge' = IF modeAt = "add" THEN modeEdge ELSE "yes"
    /\ UNCHANGED <<mode, modeShown, modeAt>>

ModeAdd ==
    /\ modeAt = "add" /\ modeAt' = "wait"
    /\ modeEdge' = IF modeSent > 0 THEN "yes" ELSE "no"
    /\ UNCHANGED <<mode, modeSent, modeShown>>

ModeWait ==
    /\ modeAt = "wait" /\ modeAt' = "read"
    /\ IF mode.edge THEN modeEdge = "yes" ELSE modeShown < modeSent
    /\ modeEdge' = "no"
    /\ UNCHANGED <<mode, modeSent, modeShown>>

\* read and write(1): at most ModeRead bytes; the drain goes on until read fails.
ModeReads ==
    /\ modeAt = "read"
    /\ IF modeShown < modeSent
       THEN modeShown' = modeShown + (IF modeSent - modeShown < ModeRead THEN modeSent - modeShown ELSE ModeRead)
       ELSE UNCHANGED modeShown
    /\ modeAt' = IF mode.drain /\ modeShown < modeSent THEN "read" ELSE "wait"
    /\ UNCHANGED <<mode, modeSent, modeEdge>>

ModeRuns == ModeAdd \/ ModeWait \/ ModeReads
ModeNext == ModePeer \/ ModeRuns

(***************************************************************************)
(* Properties.                                                             *)
(***************************************************************************)

\* Again and again all that the peer has written is shown, without a further write to
\* raise another edge; in level-triggered mode one read for an event is enough.
ModeShowsAll == []<>(modeShown = modeSent)
=============================================================================
