--------------------------- MODULE EpollReactor ---------------------------
(***************************************************************************)
(* The single-threaded epoll "reactor" echo server                         *)
(* (src/多路IO转接服务器/epoll反应堆: epoll反应堆.c and test.c).            *)
(*                                                                         *)
(* g is the array g_events, tree the kernel's interest list of g_efd, and  *)
(* batch the part of the array events[] that main's for loop has not yet   *)
(* dispatched.  Every callback is one action: nothing else of the server   *)
(* runs meanwhile, and the clients only interact through the sockets.      *)
(*                                                                         *)
(* The two files differ in one pointer: acceptconn gives a new event the   *)
(* argument &g_events (slot 0) in epoll反应堆.c and &g_events[i] in        *)
(* test.c.  AcceptArg selects the file.                                    *)
(***************************************************************************)
EXTENDS Integers, Sequences, FiniteSets

CONSTANTS
    Conn,        \* the client connections
    MaxEvents,   \* MAX_EVENTS: slots 0 .. MaxEvents-1, and the listener's slot
    MaxFd,       \* RLIMIT_NOFILE: descriptors are 0 .. MaxFd
    BufLen,      \* BUFLEN, in bytes
    OutCap,      \* free room of an empty socket send buffer, in bytes
    MaxBytes,    \* bound: bytes one client sends
    AcceptArg    \* "base" (epoll反应堆.c) or "slot" (test.c)

NoConn == "noconn"
NoSlot == -1
Lfd == 1         \* the listening descriptor; 0 is the value of a zeroed fd field
Slot == 0 .. MaxEvents
Fd == 0 .. MaxFd

ASSUME ReactorAssumption ==
    /\ MaxEvents \in Nat \ {0}
    /\ MaxFd \in Nat /\ MaxFd > Lfd
    /\ BufLen \in Nat \ {0}
    /\ OutCap \in Nat \ {0}
    /\ MaxBytes \in Nat
    /\ AcceptArg \in {"base", "slot"}
    /\ NoConn \notin Conn

VARIABLES
    g,        \* g_events: Slot -> the record struct myevent_s
    tree,     \* the red-black tree: Fd -> [ptr, events], ptr = NoSlot if absent
    batch,    \* events returned by epoll_wait and not yet dispatched
    up,       \* the server process runs
    open,     \* Fd -> the connection it denotes, or NoConn
    backlog,  \* completed connections waiting in the accept queue
    phase,    \* Conn -> "idle" | "backlog" | "open" | "closed" (by the server)
    sent,     \* Conn -> number of bytes the client has sent (byte k is k-th)
    taken,    \* Conn -> number of those the server has received
    echo,     \* Conn -> the bytes <<c, k>> the server sent it, in order
    unread,   \* Conn -> how many of them still occupy the send buffer
    fin, rst  \* Conn -> the client closed its side / reset the connection

server == <<g, tree, batch, up>>
client == <<sent, unread, fin, rst>>
vars == <<g, tree, batch, up, open, backlog, phase, sent, taken, echo,
          unread, fin, rst>>

Byte == Conn \X (1 .. MaxBytes)
CallBack == {"NULL", "acceptconn", "recvdata", "senddata"}
Events == {"none", "in", "out"}
Absent == [ptr |-> NoSlot, events |-> "none"]

\* The struct; len is Len(buf), and last_active is never read.
myevent_s(fd, events, arg, call_back, status, buf) ==
    [fd |-> fd, events |-> events, arg |-> arg, call_back |-> call_back,
     status |-> status, buf |-> buf]

(***************************************************************************)
(* Operations on the pair s = [g, tree].                                   *)
(***************************************************************************)

\* eventset: events and status are cleared; buf is kept (len > 0 is kept too).
eventset(s, i, fd, cb, arg) ==
    [g |-> [s.g EXCEPT ![i] = myevent_s(fd, "none", arg, cb, 0, @.buf)],
     tree |-> s.tree]

\* epoll_ctl ADD fails on a descriptor already in the tree or not open.
CtlAdd(t, opened, fd, i, ev) ==
    IF t[fd] = Absent /\ opened THEN [t EXCEPT ![fd] = [ptr |-> i, events |-> ev]]
                                ELSE t

\* eventadd: always after eventset, so status is 0 and the operation is ADD;
\* a failing epoll_ctl is only reported, status stays 1.
eventadd(s, i, ev, opened) ==
    [g |-> [s.g EXCEPT ![i] = myevent_s(@.fd, ev, @.arg, @.call_back, 1, @.buf)],
     tree |-> CtlAdd(s.tree, opened, s.g[i].fd, i, ev)]

\* eventdel: returns early unless status is 1.
eventdel(s, i) ==
    IF s.g[i].status = 1
    THEN [g |-> [s.g EXCEPT ![i].status = 0],
          tree |-> [s.tree EXCEPT ![s.g[i].fd] = Absent]]
    ELSE s

State == [g |-> g, tree |-> tree]
Become(s) == g' = s.g /\ tree' = s.tree

IsOpen(fd) == fd = Lfd \/ open[fd] # NoConn

\* close(fd): the kernel drops the descriptor from the interest list.
Close(s, fd) ==
    /\ g' = s.g
    /\ tree' = [s.tree EXCEPT ![fd] = Absent]
    /\ open' = [open EXCEPT ![fd] = NoConn]
    /\ phase' = [c \in Conn |-> IF c = open[fd] THEN "closed" ELSE phase[c]]

(***************************************************************************)
(* initlistensocket.                                                       *)
(***************************************************************************)
Zeroed == myevent_s(0, "none", NoSlot, "NULL", 0, <<>>)

initlistensocket ==
    LET zero == [g |-> [i \in Slot |-> Zeroed], tree |-> [f \in Fd |-> Absent]]
    IN  eventadd(eventset(zero, MaxEvents, Lfd, "acceptconn", MaxEvents),
                 MaxEvents, "in", TRUE)

Init ==
    /\ g = initlistensocket.g
    /\ tree = initlistensocket.tree
    /\ batch = {}
    /\ up = TRUE
    /\ open = [f \in Fd |-> NoConn]
    /\ backlog = <<>>
    /\ phase = [c \in Conn |-> "idle"]
    /\ sent = [c \in Conn |-> 0]
    /\ taken = [c \in Conn |-> 0]
    /\ echo = [c \in Conn |-> <<>>]
    /\ unread = [c \in Conn |-> 0]
    /\ fin = [c \in Conn |-> FALSE]
    /\ rst = [c \in Conn |-> FALSE]

(***************************************************************************)
(* Level-triggered readiness, as epoll_wait reports it.                    *)
(***************************************************************************)
Readable(f) ==
    IF f = Lfd THEN backlog # <<>>
    ELSE LET c == open[f] IN taken[c] < sent[c] \/ fin[c] \/ rst[c]

Writable(f) == LET c == open[f] IN unread[c] < OutCap \/ rst[c]

Ready(f) ==
    /\ tree[f] # Absent
    /\ IF tree[f].events = "in" THEN Readable(f) ELSE Writable(f)

\* epoll_wait: the array has room for every descriptor in the tree.
EpollWait ==
    /\ up /\ batch = {}
    /\ \E f \in Fd : Ready(f)
    /\ batch' = {tree[f] : f \in {h \in Fd : Ready(h)}}
    /\ UNCHANGED <<g, tree, up, open, backlog, phase, taken, echo, client>>

\* epoll_wait fails: main leaves the loop (epoll反应堆.c) or exits (test.c).
EpollError ==
    /\ up /\ batch = {}
    /\ up' = FALSE
    /\ UNCHANGED <<g, tree, batch, open, backlog, phase, taken, echo, client>>

(***************************************************************************)
(* The callbacks, run for the event e of the batch.                        *)
(***************************************************************************)

\* main's loop body: the callback runs only if the slot still waits for the
\* event that was reported.
Calls(e, cb) ==
    /\ up /\ e \in batch
    /\ e.events = g[e.ptr].events
    /\ g[e.ptr].call_back = cb
    /\ batch' = batch \ {e}

Skip(e) ==
    /\ up /\ e \in batch
    /\ e.events # g[e.ptr].events
    /\ batch' = batch \ {e}
    /\ UNCHANGED <<g, tree, up, open, backlog, phase, taken, echo, client>>

FreeFd == {f \in Fd : f > Lfd /\ open[f] = NoConn}

FreeSlot == {i \in 0 .. MaxEvents - 1 : g[i].status = 0}
IsLowest(x, S) == x \in S /\ \A y \in S : x <= y

\* Mutant: the argument of the sibling file.
AcceptArgOf_base(i) == 0

AcceptArgOf(i) == IF AcceptArg = "slot" THEN i ELSE 0

\* accept fails when the queue is empty or no descriptor is free.
acceptconn_fails(e) ==
    /\ Calls(e, "acceptconn")
    /\ backlog = <<>> \/ FreeFd = {}
    /\ UNCHANGED <<g, tree, up, open, backlog, phase, taken, echo, client>>

acceptconn(e) ==
    /\ Calls(e, "acceptconn")
    /\ backlog # <<>>
    /\ \E cfd \in Fd :
        /\ IsLowest(cfd, FreeFd)
        /\ open' = [open EXCEPT ![cfd] = Head(backlog)]
        /\ \/ FreeSlot = {} /\ UNCHANGED <<g, tree>>   \* cfd is not closed
           \/ \E i \in Slot :
                /\ IsLowest(i, FreeSlot)
                /\ Become(eventadd(eventset(State, i, cfd, "recvdata", AcceptArgOf(i)),
                                   i, "in", TRUE))
    /\ backlog' = Tail(backlog)
    /\ phase' = [phase EXCEPT ![Head(backlog)] = "open"]
    /\ UNCHANGED <<up, taken, echo, client>>

\* What recv and send do on connection c (NoConn: the descriptor is closed).
HasData(c) == c # NoConn /\ taken[c] < sent[c]
HasRoom(c) == c # NoConn /\ ~rst[c] /\ unread[c] < OutCap
BrokenPipe(c) == c # NoConn /\ rst[c] /\ fin[c]

\* The callback works on the descriptor fd and on the slot ev = arg.
recvdata_data(e) ==
    LET fd == g[e.ptr].fd
        ev == g[e.ptr].arg
        c == open[fd]
        avail == sent[c] - taken[c]
        len == IF avail < BufLen THEN avail ELSE BufLen
        del == eventdel(State, ev)
        buf == [k \in 1 .. len |-> <<c, taken[c] + k>>]
        got == [g |-> [del.g EXCEPT ![ev].buf = buf], tree |-> del.tree]
    IN  /\ Calls(e, "recvdata")
        /\ HasData(c)
        /\ taken' = [taken EXCEPT ![c] = @ + len]
        /\ Become(eventadd(eventset(got, ev, fd, "senddata", ev), ev, "out", IsOpen(fd)))
        /\ UNCHANGED <<up, open, backlog, phase, echo, client>>

\* Mutant: the slot is freed but its descriptor is not closed.
recvdata_close_leak(e) ==
    /\ Calls(e, "recvdata")
    /\ ~HasData(open[g[e.ptr].fd])
    /\ Become(eventdel(State, g[e.ptr].arg))
    /\ UNCHANGED <<up, open, backlog, phase, taken, echo, client>>

\* recv returns 0 (end of stream) or -1 (reset, EAGAIN, EBADF): the slot's
\* descriptor is closed, which is ev->fd and not the parameter fd.
recvdata_close(e) ==
    LET c == open[g[e.ptr].fd]
        ev == g[e.ptr].arg
    IN  /\ Calls(e, "recvdata")
        /\ ~HasData(c)
        /\ Close(eventdel(State, ev), g[ev].fd)
        /\ UNCHANGED <<up, backlog, taken, echo, client>>

\* Mutant: the slot is not registered for reading again.
senddata_data_forgets(e) ==
    LET fd == g[e.ptr].fd
        ev == g[e.ptr].arg
        c == open[fd]
    IN  /\ Calls(e, "senddata")
        /\ HasRoom(c)
        /\ echo' = [echo EXCEPT ![c] = @ \o SubSeq(g[ev].buf, 1, 1)]
        /\ unread' = [unread EXCEPT ![c] = @ + 1]
        /\ Become(eventset(eventdel(State, ev), ev, fd, "recvdata", ev))
        /\ UNCHANGED <<up, open, backlog, phase, taken, sent, fin, rst>>

\* send copies what fits; the rest of buf is not sent again.
senddata_data(e) ==
    LET fd == g[e.ptr].fd
        ev == g[e.ptr].arg
        c == open[fd]
        room == OutCap - unread[c]
        len == IF Len(g[ev].buf) < room THEN Len(g[ev].buf) ELSE room
    IN  /\ Calls(e, "senddata")
        /\ HasRoom(c)
        /\ echo' = [echo EXCEPT ![c] = @ \o SubSeq(g[ev].buf, 1, len)]
        /\ unread' = [unread EXCEPT ![c] = @ + len]
        /\ Become(eventadd(eventset(eventdel(State, ev), ev, fd, "recvdata", ev),
                           ev, "in", IsOpen(fd)))
        /\ UNCHANGED <<up, open, backlog, phase, taken, sent, fin, rst>>

\* send returns -1 (reset, EAGAIN, EBADF).
senddata_close(e) ==
    LET c == open[g[e.ptr].fd]
        ev == g[e.ptr].arg
    IN  /\ Calls(e, "senddata")
        /\ ~HasRoom(c) /\ ~BrokenPipe(c)
        /\ Close(eventdel(State, ev), g[ev].fd)
        /\ UNCHANGED <<up, backlog, taken, echo, client>>

\* send on a connection reset after its end of stream raises SIGPIPE, whose
\* default action ends the process.
senddata_sigpipe(e) ==
    LET c == open[g[e.ptr].fd]
    IN  /\ Calls(e, "senddata")
        /\ BrokenPipe(c)
        /\ up' = FALSE
        /\ UNCHANGED <<g, tree, open, backlog, phase, taken, echo, client>>

Dispatch(e) ==
    \/ Skip(e)
    \/ acceptconn_fails(e) \/ acceptconn(e)
    \/ recvdata_data(e) \/ recvdata_close(e)
    \/ senddata_data(e) \/ senddata_close(e) \/ senddata_sigpipe(e)

Server == EpollWait \/ \E e \in batch : Dispatch(e)

(***************************************************************************)
(* The clients (external): connect, send, read, shut down, reset.          *)
(***************************************************************************)
Live(c) == up /\ phase[c] \in {"backlog", "open"} /\ ~rst[c]

Connect(c) ==
    /\ up /\ phase[c] = "idle"
    /\ phase' = [phase EXCEPT ![c] = "backlog"]
    /\ backlog' = Append(backlog, c)
    /\ UNCHANGED <<server, open, taken, echo, client>>

ClientSend(c) ==
    /\ Live(c) /\ ~fin[c] /\ sent[c] < MaxBytes
    /\ sent' = [sent EXCEPT ![c] = @ + 1]
    /\ UNCHANGED <<server, open, backlog, phase, taken, echo, unread, fin, rst>>

ClientRead(c) ==
    /\ ~rst[c] /\ unread[c] > 0
    /\ unread' = [unread EXCEPT ![c] = 0]
    /\ UNCHANGED <<server, open, backlog, phase, taken, echo, sent, fin, rst>>

ClientShut(c) ==
    /\ Live(c) /\ ~fin[c]
    /\ fin' = [fin EXCEPT ![c] = TRUE]
    /\ UNCHANGED <<server, open, backlog, phase, taken, echo, sent, unread, rst>>

ClientReset(c) ==
    /\ Live(c)
    /\ rst' = [rst EXCEPT ![c] = TRUE]
    /\ UNCHANGED <<server, open, backlog, phase, taken, echo, sent, unread, fin>>

Next ==
    \/ EpollWait
    \/ EpollError
    \/ \E e \in batch : Dispatch(e)
    \/ \E c \in Conn : \/ Connect(c) \/ ClientSend(c) \/ ClientRead(c)
                       \/ ClientShut(c) \/ ClientReset(c)

Spec == Init /\ [][Next]_vars

\* The process is scheduled while it can run; a client reads what it is sent.
FairSpec ==
    /\ Spec
    /\ WF_vars(Server)
    /\ \A c \in Conn : WF_vars(ClientRead(c))

(***************************************************************************)
(* Properties.                                                             *)
(***************************************************************************)
SlotRecord ==
    [fd : Fd, events : Events, arg : Slot \cup {NoSlot}, call_back : CallBack,
     status : {0, 1}, buf : Seq(Byte)]
TreeEntry == [ptr : Slot \cup {NoSlot}, events : Events]

\* Every variable of the reactor keeps its type.
TypeOK ==
    /\ g \in [Slot -> SlotRecord]
    /\ tree \in [Fd -> TreeEntry]
    /\ batch \subseteq [ptr : Slot, events : {"in", "out"}]
    /\ up \in BOOLEAN
    /\ open \in [Fd -> Conn \cup {NoConn}]
    /\ backlog \in Seq(Conn)
    /\ phase \in [Conn -> {"idle", "backlog", "open", "closed"}]
    /\ sent \in [Conn -> 0 .. MaxBytes]
    /\ taken \in [Conn -> 0 .. MaxBytes]
    /\ echo \in [Conn -> Seq(Byte)]
    /\ unread \in [Conn -> 0 .. OutCap]
    /\ fin \in [Conn -> BOOLEAN]
    /\ rst \in [Conn -> BOOLEAN]

\* The comment on the field status ("1: on the red-black tree, 0: not"): a slot
\* has status 1 exactly when the kernel's entry for its descriptor points back
\* to it and waits for the slot's events, and no other entry points to it.
StatusMirrorsTree ==
    /\ \A i \in Slot : g[i].status = 1 =>
          tree[g[i].fd] = [ptr |-> i, events |-> g[i].events]
    /\ \A f \in Fd : tree[f] # Absent =>
          tree[f].ptr \in Slot /\ g[tree[f].ptr].fd = f /\ g[tree[f].ptr].status = 1

\* A client is only ever sent bytes of its own, in the order it sent them and
\* none twice, however the callbacks of several clients interleave.
EchoInOrder ==
    \A c \in Conn :
        /\ \A k \in DOMAIN echo[c] : echo[c][k][1] = c /\ echo[c][k][2] <= taken[c]
        /\ \A j, k \in DOMAIN echo[c] : j < k => echo[c][j][2] < echo[c][k][2]

\* The listening socket stays in the tree for as long as the server runs, so
\* the server never becomes deaf to new clients, whatever the callbacks of the
\* clients do to slots and descriptors.
ListenerRegistered == tree[Lfd] = [ptr |-> MaxEvents, events |-> "in"]

\* The server closes a connection only after its client has shut it down or
\* reset it, never because another client's callback closed its descriptor or
\* because a readiness report was stale (recv or send with EAGAIN).
ClosesOnlyEnded ==
    [][\A c \in Conn : phase[c] = "open" /\ phase'[c] = "closed" => fin[c] \/ rst[c]]_vars

\* Open descriptors that no listening slot holds: nobody will ever close them.
Leaked == {f \in Fd : open[f] # NoConn /\ \A i \in Slot : ~(g[i].status = 1 /\ g[i].fd = f)}

\* The only step that loses a descriptor is acceptconn with every slot taken
\* (its break leaves cfd open); no callback loses one.
LeakOnlyAtLimit ==
    [][Leaked' \subseteq Leaked \/ (FreeSlot = {} /\ backlog' # backlog)]_vars

Registered(c) == \E i \in Slot : g[i].status = 1 /\ open[g[i].fd] = c

\* The reactor starves nobody: every byte that reaches a registered connection
\* is received, unless the connection is closed or the process ends.
EveryByteServed ==
    \A c \in Conn :
        (Registered(c) /\ taken[c] < sent[c]) ~> (taken[c] = sent[c] \/ phase[c] = "closed" \/ ~up)

\* A connection whose client ended it is eventually closed and its slot freed.
EndedIsClosed ==
    \A c \in Conn : (Registered(c) /\ (fin[c] \/ rst[c])) ~> (phase[c] = "closed" \/ ~up)

(***************************************************************************)
(* The inductive invariant of the "slot" variant.                          *)
(***************************************************************************)

\* A listening slot is its own callback argument, waits for the event its
\* callback handles, and holds an accepted connection or the listener.
SlotShape ==
    /\ g[MaxEvents].status = 1
    /\ \A i \in Slot : g[i].status = 1 =>
        /\ g[i].arg = i
        /\ g[i].events = IF g[i].call_back = "senddata" THEN "out" ELSE "in"
        /\ IF i = MaxEvents
           THEN g[i].fd = Lfd /\ g[i].call_back = "acceptconn"
           ELSE open[g[i].fd] \in Conn /\ g[i].call_back \in {"recvdata", "senddata"}

\* An event not yet dispatched is still true: only its own callback can
\* consume what it reports.
BatchFresh ==
    \A e \in batch :
        /\ g[e.ptr].status = 1
        /\ e.events = g[e.ptr].events
        /\ LET c == open[g[e.ptr].fd]
           IN  /\ g[e.ptr].call_back = "recvdata" => taken[c] < sent[c] \/ fin[c] \/ rst[c]
               /\ g[e.ptr].call_back = "senddata" => unread[c] < OutCap \/ rst[c]

\* A connection waits once in the accept queue, then has one descriptor.
ConnOnce ==
    /\ \A f \in Fd : open[f] # NoConn => f > Lfd /\ phase[open[f]] = "open"
    /\ \A f, h \in Fd : open[f] # NoConn /\ open[f] = open[h] => f = h
    /\ \A k \in 1 .. Len(backlog) : phase[backlog[k]] = "backlog"
    /\ \A j, k \in 1 .. Len(backlog) : backlog[j] = backlog[k] => j = k
    /\ \A c \in Conn : taken[c] <= sent[c]

\* What a slot is about to send continues what its client was already sent.
BufferNext ==
    \A i \in Slot : g[i].status = 1 /\ g[i].call_back = "senddata" =>
        LET c == open[g[i].fd]
            buf == g[i].buf
        IN  /\ buf # <<>>
            /\ \A k \in 1 .. Len(buf) : buf[k][1] = c /\ buf[k][2] <= taken[c]
            /\ \A j, k \in 1 .. Len(buf) : j < k => buf[j][2] < buf[k][2]
            /\ \A j \in 1 .. Len(echo[c]), k \in 1 .. Len(buf) : echo[c][j][2] < buf[k][2]

\* The conjunction that every step of the "slot" variant (test.c) preserves:
\* acceptconn and the callbacks keep slots, tree, descriptors, pending events
\* and buffers consistent with each other.
ReactorInv ==
    /\ StatusMirrorsTree
    /\ SlotShape
    /\ BatchFresh
    /\ ConnOnce
    /\ BufferNext
    /\ EchoInOrder

\* Descriptors are neither closed under a client nor lost: ClosesOnlyEnded and
\* LeakOnlyAtLimit.
DescriptorsSound == ClosesOnlyEnded /\ LeakOnlyAtLimit

\* Every client is served to its end, whatever the others do: EveryByteServed and
\* EndedIsClosed.
ReactorLive == EveryByteServed /\ EndedIsClosed
=============================================================================
