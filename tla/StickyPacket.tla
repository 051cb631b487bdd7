--------------------------- MODULE StickyPacket ---------------------------
(***************************************************************************)
(* Length-prefixed messages over TCP (src/TCP数据粘包问题处理: socket.c,    *)
(* serve.c, client.c; the lab programs carry copies of the same functions). *)
(*                                                                         *)
(* stream[c] is every byte sent on connection c that was not lost by a     *)
(* reset, rd[c] how many of them the server has read: TCP joins and splits *)
(* what the client wrote, and recv takes what is there.  The server is one *)
(* thread; recvMsg blocks inside it, one recv per action.                  *)
(***************************************************************************)
EXTENDS Integers, Sequences, FiniteSets

CONSTANTS
    Conn,      \* the client connections
    Base,      \* number of values of a byte
    Msg,       \* the messages a client may send
    MaxMsgs    \* bound: messages per client

Digit == 0 .. Base - 1
HLen == 4      \* sizeof(int)
None == "none"
Listener == "listener"

ASSUME StickyAssumption ==
    /\ Base \in Nat /\ Base > 1
    /\ Msg \subseteq Seq(Digit)
    /\ \A m \in Msg : Len(m) > 0 /\ Len(m) < Base * Base * Base * Base
    /\ MaxMsgs \in Nat
    /\ None \notin Conn /\ Listener \notin Conn

VARIABLES
    data,     \* Conn -> the bytes the client's writen has still to write
    sent,     \* Conn -> the calls of sendMsg: [at |-> stream offset, msg]
    peer,     \* Conn -> the client's end: "up", "fin", "rst"
    stream, rd,
    link,     \* Conn -> the server's end: "idle", "queued", "open", "closed"
    queue,    \* the accept queue
    batch,    \* what epoll_wait returned and main has not handled yet
    cur,      \* the connection recvMsg is reading, or None
    step,     \* "head" | "body": which readn of recvMsg runs
    got,      \* the bytes that readn has so far
    len,      \* recvMsg's len
    log       \* Conn -> the messages main printed: [ret, len, buf]

client == <<data, sent>>
reader == <<cur, step, got, len>>
vars == <<data, sent, peer, stream, rd, link, queue, batch, reader, log>>

(***************************************************************************)
(* The frame of a message: htonl(len), most significant byte first, then   *)
(* the message.                                                            *)
(***************************************************************************)

htonl(n) ==
    LET q1 == n \div Base
        q2 == q1 \div Base
        q3 == q2 \div Base
    IN  <<q3 % Base, q2 % Base, q1 % Base, n % Base>>

ntohl(h) == ((h[1] * Base + h[2]) * Base + h[3]) * Base + h[4]

Frame(m) == htonl(Len(m)) \o m

\* The int len starts as 0 and readn stores the bytes it gets at its front.
HeaderInt(h) == ntohl([k \in 1 .. HLen |-> IF k <= Len(h) THEN h[k] ELSE 0])

Init ==
    /\ data = [c \in Conn |-> <<>>]
    /\ sent = [c \in Conn |-> <<>>]
    /\ peer = [c \in Conn |-> "up"]
    /\ stream = [c \in Conn |-> <<>>]
    /\ rd = [c \in Conn |-> 0]
    /\ link = [c \in Conn |-> "idle"]
    /\ queue = <<>>
    /\ batch = {}
    /\ cur = None /\ step = "head" /\ got = <<>> /\ len = 0
    /\ log = [c \in Conn |-> <<>>]

(***************************************************************************)
(* The client.                                                             *)
(***************************************************************************)
connectToHost(c) ==
    /\ link[c] = "idle"
    /\ link' = [link EXCEPT ![c] = "queued"]
    /\ queue' = Append(queue, c)
    /\ UNCHANGED <<client, peer, stream, rd, batch, reader, log>>

\* sendMsg up to its call of writen; a message of length <= 0 is rejected.
sendMsg(c, m) ==
    /\ link[c] # "idle" /\ peer[c] = "up" /\ data[c] = <<>>
    /\ Len(sent[c]) < MaxMsgs
    /\ Len(m) > 0
    /\ data' = [data EXCEPT ![c] = Frame(m)]
    /\ sent' = [sent EXCEPT ![c] = Append(@, [at |-> Len(stream[c]), msg |-> m])]
    /\ UNCHANGED <<peer, stream, rd, link, queue, batch, reader, log>>

\* One round of writen's loop: send takes n bytes.
writen(c) ==
    /\ peer[c] = "up"
    /\ \E n \in 1 .. Len(data[c]) :
        /\ stream' = [stream EXCEPT ![c] = @ \o SubSeq(data[c], 1, n)]
        /\ data' = [data EXCEPT ![c] = SubSeq(@, n + 1, Len(@))]
    /\ UNCHANGED <<sent, peer, rd, link, queue, batch, reader, log>>

\* send returns -1: writen and sendMsg give up and sendMsg closes the socket.
sendMsg_fails(c) ==
    /\ peer[c] # "up" /\ data[c] # <<>>
    /\ data' = [data EXCEPT ![c] = <<>>]
    /\ UNCHANGED <<sent, peer, stream, rd, link, queue, batch, reader, log>>

\* The client process ends, at any point of writen.
Exit(c) ==
    /\ link[c] # "idle" /\ peer[c] = "up"
    /\ peer' = [peer EXCEPT ![c] = "fin"]
    /\ data' = [data EXCEPT ![c] = <<>>]
    /\ UNCHANGED <<sent, stream, rd, link, queue, batch, reader, log>>

\* The network resets the connection: what is still under way is lost, and recv
\* will return -1 once, then 0.
Reset(c) ==
    /\ link[c] # "idle" /\ peer[c] = "up"
    /\ peer' = [peer EXCEPT ![c] = "rst"]
    /\ \E n \in rd[c] .. Len(stream[c]) : stream' = [stream EXCEPT ![c] = SubSeq(@, 1, n)]
    /\ UNCHANGED <<client, rd, link, queue, batch, reader, log>>

(***************************************************************************)
(* The server's main loop.                                                 *)
(***************************************************************************)
Avail(c) == Len(stream[c]) - rd[c]

Ready ==
    {c \in Conn : link[c] = "open" /\ (Avail(c) > 0 \/ peer[c] # "up")}
    \cup {l \in {Listener} : queue # <<>>}

EpollWait ==
    /\ cur = None /\ batch = {}
    /\ Ready # {}
    /\ batch' = Ready
    /\ UNCHANGED <<client, peer, stream, rd, link, queue, reader, log>>

\* Mutant: the new descriptor is not added to the interest list.
acceptConn_unregistered ==
    /\ cur = None /\ Listener \in batch
    /\ queue' = Tail(queue)
    /\ batch' = batch \ {Listener}
    /\ UNCHANGED <<client, peer, stream, rd, link, reader, log>>

acceptConn ==
    /\ cur = None /\ Listener \in batch
    /\ link' = [link EXCEPT ![Head(queue)] = "open"]
    /\ queue' = Tail(queue)
    /\ batch' = batch \ {Listener}
    /\ UNCHANGED <<client, peer, stream, rd, reader, log>>

(***************************************************************************)
(* recvMsg on connection cur.                                              *)
(***************************************************************************)
recvMsg(c) ==
    /\ cur = None /\ c \in batch
    /\ cur' = c /\ step' = "head" /\ got' = <<>> /\ len' = 0
    /\ batch' = batch \ {c}
    /\ UNCHANGED <<client, peer, stream, rd, link, queue, log>>

\* How many bytes the running readn wants.
Want == IF step = "head" THEN HLen ELSE len

\* recv with data: it returns what is there, up to the count.
readn_data ==
    /\ cur # None
    /\ Len(got) < Want /\ Avail(cur) > 0
    /\ LET count == Want - Len(got)
           n == IF Avail(cur) < count THEN Avail(cur) ELSE count
       IN  /\ got' = got \o SubSeq(stream[cur], rd[cur] + 1, rd[cur] + n)
           /\ rd' = [rd EXCEPT ![cur] = @ + n]
    /\ UNCHANGED <<client, peer, stream, link, queue, batch, cur, step, len, log>>

\* Mutant: the end is acted on before the data is read.
Ended_hangup == cur # None /\ Len(got) < Want /\ peer[cur] # "up"

\* recv returns 0, or -1 the first time after a reset.
Ended == cur # None /\ Len(got) < Want /\ Avail(cur) = 0 /\ peer[cur] # "up"
AfterEnd == peer' = [peer EXCEPT ![cur] = IF @ = "rst" THEN "fin" ELSE @]

BodyBegins ==
    /\ step' = "body" /\ len' = HeaderInt(got) /\ got' = <<>>
    /\ UNCHANGED <<client, stream, rd, link, queue, batch, cur, log>>

\* The result of the first readn is not looked at.
header_read == cur # None /\ step = "head" /\ Len(got) = HLen /\ BodyBegins /\ UNCHANGED peer
header_ends == step = "head" /\ Ended /\ AfterEnd /\ BodyBegins

\* recvMsg returns ret.  At 0 it has closed the socket (main's EPOLL_CTL_DEL
\* then fails); any other value makes main print the buffer.
Return(ret) ==
    /\ IF ret = 0
       THEN link' = [link EXCEPT ![cur] = "closed"] /\ UNCHANGED log
       ELSE log' = [log EXCEPT ![cur] = Append(@, [ret |-> ret, len |-> len, buf |-> got])]
            /\ UNCHANGED link
    /\ cur' = None
    /\ UNCHANGED <<client, stream, rd, queue, batch, step, got, len>>

\* Mutant: readn without its loop, one recv per message.
body_read_once ==
    /\ cur # None /\ step = "body" /\ Len(got) > 0
    /\ Return(Len(got)) /\ UNCHANGED peer

body_read == cur # None /\ step = "body" /\ Len(got) = len /\ Return(len) /\ UNCHANGED peer
body_ends ==
    /\ step = "body" /\ Ended /\ AfterEnd
    /\ Return(IF peer[cur] = "rst" THEN -1 ELSE Len(got))

Server ==
    \/ EpollWait \/ acceptConn \/ (\E c \in Conn : recvMsg(c))
    \/ readn_data \/ header_read \/ header_ends \/ body_read \/ body_ends

Client(c) ==
    \/ connectToHost(c) \/ (\E m \in Msg : sendMsg(c, m))
    \/ writen(c) \/ sendMsg_fails(c) \/ Exit(c) \/ Reset(c)

Next == Server \/ \E c \in Conn : Client(c)

Spec == Init /\ [][Next]_vars

\* The server thread is scheduled; a client does not stop inside writen.
FairSpec ==
    /\ Spec
    /\ WF_vars(Server)
    /\ \A c \in Conn : WF_vars(writen(c))

(***************************************************************************)
(* Properties.                                                             *)
(***************************************************************************)

Bytes == Seq(Digit)
Calls == Seq([at : Nat, msg : Msg])
Printed == Seq([ret : Int, len : Nat, buf : Bytes])

\* Every variable keeps its type.
TypeOK ==
    /\ data \in [Conn -> Bytes]
    /\ sent \in [Conn -> Calls]
    /\ peer \in [Conn -> {"up", "fin", "rst"}]
    /\ stream \in [Conn -> Bytes]
    /\ rd \in [Conn -> Nat]
    /\ link \in [Conn -> {"idle", "queued", "open", "closed"}]
    /\ queue \in Seq(Conn)
    /\ batch \subseteq Conn \cup {Listener}
    /\ cur \in Conn \cup {None}
    /\ step \in {"head", "body"}
    /\ got \in Bytes
    /\ len \in Nat
    /\ log \in [Conn -> Printed]

Whole(r) == r.ret = r.len

\* However TCP joins and splits the writes, the i-th message recvMsg returns in
\* full is the i-th message given to sendMsg.
FramesIntact ==
    \A c \in Conn : \A i \in 1 .. Len(log[c]) : Whole(log[c][i]) =>
        i <= Len(sent[c]) /\ log[c][i].buf = sent[c][i].msg

\* The frame of the i-th message has reached the server completely.
Arrived(c, i) ==
    i <= Len(sent[c]) /\ sent[c][i].at + HLen + Len(sent[c][i].msg) <= Len(stream[c])

\* A message that recvMsg could not complete ("数据接收失败"), which main prints
\* all the same, is the last one of its connection, is a part of the message
\* sent, and means that the connection ended before all of it arrived.
DamagedLast ==
    \A c \in Conn : \A i \in 1 .. Len(log[c]) : ~Whole(log[c][i]) =>
        /\ i = Len(log[c]) /\ i <= Len(sent[c])
        /\ peer[c] # "up" /\ ~Arrived(c, i)
        /\ log[c][i].buf = SubSeq(sent[c][i].msg, 1, Len(log[c][i].buf))

\* recvMsg takes length 0 for "the peer disconnected" and closes the socket:
\* that only happens to a client that has ended, and after every message that
\* arrived in full was handed over.
ClosedAfterAll ==
    \A c \in Conn : link[c] = "closed" =>
        /\ peer[c] # "up"
        /\ \A i \in 1 .. Len(sent[c]) : Arrived(c, i) => i <= Len(log[c]) /\ Whole(log[c][i])

\* Although recvMsg blocks the only thread on one client's bytes, every message
\* that arrives is eventually handed over, unless a reset loses it.
ArrivedIsPrinted ==
    \A c \in Conn : \A i \in 1 .. MaxMsgs : Arrived(c, i) ~> (i <= Len(log[c]) \/ ~Arrived(c, i))

\* An ended connection is eventually closed, reset or not.
EndedIsClosed == \A c \in Conn : (link[c] = "open" /\ peer[c] # "up") ~> (link[c] = "closed")

\* Where the frame of the i-th message of c ends in the stream.
End(c, i) == IF i = 0 THEN 0 ELSE sent[c][i].at + HLen + Len(sent[c][i].msg)

\* The frames of c lie one behind the other.
Layout(c) ==
    /\ \A i \in 1 .. Len(sent[c]) : sent[c][i].at = End(c, i - 1)
    /\ \A i, j \in 1 .. Len(sent[c]) : i < j => End(c, i) <= sent[c][j].at

\* They are in the stream as far as they were written and not lost.
Written(c) ==
    /\ Len(stream[c]) <= End(c, Len(sent[c]))
    /\ \A i \in 1 .. Len(sent[c]) : \A k \in 1 .. HLen + Len(sent[c][i].msg) :
          sent[c][i].at + k <= Len(stream[c]) =>
              stream[c][sent[c][i].at + k] = Frame(sent[c][i].msg)[k]

\* What writen has still to write is the rest of the last frame.
Unwritten(c) ==
    LET n == Len(sent[c])
    IN  /\ Len(stream[c]) + Len(data[c]) = End(c, n)
        /\ n > 0 => Len(data[c]) <= HLen + Len(sent[c][n].msg)
        /\ \A k \in 1 .. Len(data[c]) :
              data[c][k] = Frame(sent[c][n].msg)[(HLen + Len(sent[c][n].msg)) - Len(data[c]) + k]

FramesInStream(c) == Layout(c) /\ Written(c) /\ (peer[c] = "up" => Unwritten(c))

\* The connection has ended, all of its stream is read, and every message that arrived
\* in full was handed over.
Exhausted(c) ==
    /\ peer[c] = "fin" /\ rd[c] = Len(stream[c])
    /\ \A i \in 1 .. Len(sent[c]) : Arrived(c, i) => i <= Len(log[c]) /\ Whole(log[c][i])

\* What was handed over: whole messages as they were sent, and after them at most one
\* that is cut short.
Handed(c) ==
    /\ Len(log[c]) <= Len(sent[c])
    /\ \A i \in 1 .. Len(log[c]) :
          \/ /\ Whole(log[c][i]) /\ log[c][i].buf = sent[c][i].msg /\ End(c, i) <= rd[c]
          \/ /\ ~Whole(log[c][i]) /\ i = Len(log[c]) /\ Exhausted(c) /\ ~Arrived(c, i)
             /\ \E n \in 0 .. Len(sent[c][i].msg) - 1 : log[c][i].buf = SubSeq(sent[c][i].msg, 1, n)

\* The server has read c's stream up to n bytes behind the last message handed over.
ReadTo(c, n) ==
    /\ rd[c] = End(c, Len(log[c])) + n
    /\ \A i \in 1 .. Len(log[c]) : Whole(log[c][i])

InHeader(c) ==
    /\ ReadTo(c, Len(got)) /\ Len(got) <= HLen
    /\ \A k \in 1 .. Len(got) : got[k] = stream[c][End(c, Len(log[c])) + k]

InBody(c) ==
    /\ ReadTo(c, HLen + Len(got)) /\ Len(log[c]) < Len(sent[c])
    /\ LET m == sent[c][Len(log[c]) + 1].msg
       IN  /\ len = Len(m) /\ Len(got) <= len
           /\ \A k \in 1 .. Len(got) : got[k] = m[k]

\* Where recvMsg is in the frames of c; once the connection is exhausted it can only
\* find a length of zero, or a length without a byte behind it.
ReaderPlace(c) ==
    /\ cur # c => ReadTo(c, 0) \/ Exhausted(c)
    /\ cur = c => \/ Exhausted(c) /\ got = <<>>
                  \/ step = "head" /\ InHeader(c)
                  \/ step = "body" /\ InBody(c)

ConnInv(c) ==
    /\ rd[c] <= Len(stream[c])
    /\ FramesInStream(c) /\ Handed(c) /\ ReaderPlace(c)
    /\ link[c] = "closed" => Exhausted(c)

\* The inductive invariant: the frames are in the stream, what was handed over is what
\* was sent, and recvMsg is at the place in the frames that its variables say.
FrameInv == (Listener \in batch => queue # <<>>) /\ \A c \in Conn : ConnInv(c)

\* What recvMsg hands over, for whatever cuts of the stream and ends of the clients:
\* FramesIntact, DamagedLast, ClosedAfterAll, and the invariants they follow from.
FramesSound == TypeOK /\ FrameInv /\ FramesIntact /\ DamagedLast /\ ClosedAfterAll

\* Messages that arrive are handed over and ended connections closed: ArrivedIsPrinted and
\* EndedIsClosed.
StickyLive == ArrivedIsPrinted /\ EndedIsClosed

(***************************************************************************)
(* The promise: the channel of messages.                                   *)
(***************************************************************************)
InFlight == [c \in Conn |-> [i \in 1 .. Len(sent[c]) - Len(log[c]) |->
                                sent[c][Len(log[c]) + i].msg]]
Received == [c \in Conn |-> [i \in 1 .. Len(log[c]) |->
                                [whole |-> Whole(log[c][i]), buf |-> log[c][i].buf]]]

Channel == INSTANCE MsgChannel
    WITH chan <- InFlight, recvd <- Received, cut <- [c \in Conn |-> peer[c] # "up"]

\* sendMsg, TCP, the blocking recvMsg and the loop of main implement the
\* channel of whole messages.
ImplementsChannel == Channel!ChSpec
=============================================================================
