----------------------------- MODULE Connecting -----------------------------
(***************************************************************************)
(* From a host name to a connection: the loops over lists of addresses, and*)
(* the time limits on connect.                                             *)
(***************************************************************************)
EXTENDS Integers, Sequences

(***************************************************************************)
(* How the programs of src/unpv13e come to a socket from a host name and a *)
(* service: the loops over a list of addresses in lib (tcp_connect,        *)
(* tcp_listen, udp_client, udp_connect, udp_server) and in names, and the  *)
(* daytime clients that go on to read from it.  A socket is known by the   *)
(* place in the list of the address it was made for, a byte (for UDP a     *)
(* datagram) by its number.                                                *)
(***************************************************************************)

CONSTANTS
    AlMax,      \* bound: addresses in a list
    AlBytes     \* bound: bytes or datagrams the server sends

(***************************************************************************)
(* The functions.                                                          *)
(*   op       what is tried with the socket                                *)
(*   failed   what a failed socket() leads to: the next address, the end   *)
(*   list     "addrinfo" must be freed, "hostent" and "own" are not        *)
(*   takes    what is kept of the entry that worked                        *)
(***************************************************************************)
Opener(op, failed, list, takes) == [op |-> op, failed |-> failed, list |-> list, takes |-> takes]

tcp_connect == Opener("connect", "next", "addrinfo", "nothing")
tcp_listen == Opener("bind", "next", "addrinfo", "addrlen")
udp_client == Opener("none", "next", "addrinfo", "address")
udp_connect == Opener("connect", "next", "addrinfo", "nothing")
udp_server == Opener("bind", "next", "addrinfo", "addrlen")
udp_server_reuseaddr == Opener("bind", "next", "addrinfo", "addrlen")
gethostbyname_loop == Opener("connect", "exit", "hostent", "nothing")
inet_pton_connect == Opener("connect", "exit", "own", "nothing")

(***************************************************************************)
(* The programs: the function that finds the socket, and what follows.     *)
(*   body     "return" to the caller; "read" until end-of-file; "query":   *)
(*            one datagram out, one in                                     *)
(*   peek     MSG_PEEK before the data is taken                            *)
(***************************************************************************)
Program(opener, body, peek) == [opener |-> opener, body |-> body, peek |-> peek]

\* The library functions as they are called by the servers.
Library(opener) == Program(opener, "return", FALSE)

intro_cli == Program(inet_pton_connect, "read", FALSE)
intro_cli1 == Program(inet_pton_connect, "read", FALSE)
intro_cli2 == Program(inet_pton_connect, "read", FALSE)
intro_cli3 == Program(inet_pton_connect, "read", FALSE)
intro_cliv6 == Program(inet_pton_connect, "read", FALSE)
names_cli == Program(tcp_connect, "read", FALSE)
names_cli1 == Program(gethostbyname_loop, "read", FALSE)
names_cli2 == Program(gethostbyname_loop, "read", FALSE)
names_cli3 == Program(gethostbyname_loop, "read", FALSE)
unixdomain_cli == Program(tcp_connect, "read", FALSE)
advio_cli == Program(tcp_connect, "read", TRUE)
udpcli1 == Program(udp_client, "query", FALSE)
udpcli2 == Program(udp_connect, "query", FALSE)
udpcli3 == Program(udp_client, "query", TRUE)
udpcli4 == Program(udp_connect, "query", TRUE)

AlPrograms ==
    {intro_cli, intro_cli1, intro_cli2, intro_cli3, intro_cliv6, names_cli, names_cli1, names_cli2,
     names_cli3, unixdomain_cli, advio_cli, udpcli1, udpcli2, udpcli3, udpcli4,
     Library(tcp_connect), Library(tcp_listen), Library(udp_server), Library(udp_server_reuseaddr)}

VARIABLES
    al,         \* the program that runs
    alAt,       \* where it is
    alN, alI,   \* the length of the list and the place in it; alN + 1 is NULL
    alOpen,     \* the sockets that are open
    alTried,    \* for each address, what came of it
    alList,     \* "none", "live", "freed"
    alTaken,    \* the entry that addrlen or address was copied from and the list's state then
    alSent,     \* bytes or datagrams at the socket so far
    alFin,      \* the server has closed the connection
    alShown     \* what has been printed

alLoop == <<alN, alI, alOpen, alTried, alList, alTaken>>
alData == <<alSent, alFin, alShown>>
alVars == <<al, alAt, alLoop, alData>>

AlInit ==
    /\ al \in AlPrograms
    /\ alAt = "resolve" /\ alN = 0 /\ alI = 1
    /\ alOpen = {} /\ alTried = [i \in 1 .. AlMax |-> "no"]
    /\ alList = "none" /\ alTaken = <<>>
    /\ alSent = 0 /\ alFin = "open" /\ alShown = <<>>

Op == al.opener
AlMove(from, to) == alAt = from /\ alAt' = to /\ UNCHANGED al

(***************************************************************************)
(* The loop.                                                               *)
(***************************************************************************)

\* getaddrinfo or gethostbyname: no address ends the program.
AlResolve ==
    /\ \/ AlMove("resolve", "exited") /\ UNCHANGED <<alN, alList>>
       \/ /\ AlMove("resolve", "socket")
          /\ alN' \in IF Op.list = "own" THEN {1} ELSE 1 .. AlMax
          /\ alList' = IF Op.list = "addrinfo" THEN "live" ELSE alList
    /\ UNCHANGED <<alI, alOpen, alTried, alTaken, alData>>

\* `continue` and the end of the body both go on to res = res->ai_next.
AlNextAddress(why) ==
    /\ alI' = alI + 1
    /\ alTried' = [alTried EXCEPT ![alI] = why]
    /\ alAt' = IF alI = alN THEN "null" ELSE "socket"

AlSocketFails ==
    /\ alAt = "socket"
    /\ IF Op.failed = "next" THEN AlNextAddress("no socket")
                             ELSE alAt' = "exited" /\ UNCHANGED <<alI, alTried>>
    /\ UNCHANGED <<al, alN, alOpen, alList, alTaken, alData>>

AlSocket ==
    /\ AlMove("socket", IF Op.op = "none" THEN "found" ELSE "try")
    /\ alOpen' = alOpen \union {alI}
    /\ alTried' = IF Op.op = "none" THEN [alTried EXCEPT ![alI] = "ok"] ELSE alTried
    /\ UNCHANGED <<alN, alI, alList, alTaken, alData>>

\* connect or bind.
AlTryWorks ==
    /\ AlMove("try", "found")
    /\ alTried' = [alTried EXCEPT ![alI] = "ok"]
    /\ UNCHANGED <<alN, alI, alOpen, alList, alTaken, alData>>

AlTryFails ==
    /\ alAt = "try"
    /\ AlNextAddress("refused")
    /\ alOpen' = alOpen \ {alI}
    /\ UNCHANGED <<al, alN, alList, alTaken, alData>>

\* err_sys: the list is at its end.
AlNoneLeft == AlMove("null", "exited") /\ UNCHANGED <<alLoop, alData>>

AlTakes == IF Op.takes = "nothing" THEN <<>> ELSE <<alI, alList>>
AlBody == IF al.body = "return" THEN "returned" ELSE IF al.body = "query" THEN "send" ELSE "read"

\* Listen, the copy for the caller, freeaddrinfo(ressave).
AlFound ==
    /\ AlMove("found", AlBody)
    /\ alTaken' = AlTakes
    /\ alList' = IF alList = "live" THEN "freed" ELSE alList
    /\ UNCHANGED <<alN, alI, alOpen, alTried, alData>>

(***************************************************************************)
(* The clients.                                                            *)
(***************************************************************************)
Tcp == al.body = "read"

AlServer ==
    /\ alAt \in {"read", "peeked"} \/ alAt = "recv"
    /\ alFin = "open"
    /\ \/ alSent < AlBytes /\ alSent' = alSent + 1 /\ UNCHANGED alFin
       \/ Tcp /\ alFin' \in {"fin", "reset"} /\ UNCHANGED alSent
    /\ UNCHANGED <<al, alAt, alLoop, alShown>>

AlSend == AlMove("send", "recv") /\ UNCHANGED <<alLoop, alData>>

AlUnread == (Len(alShown) + 1) .. alSent
AlWaits == IF Tcp THEN "read" ELSE "recv"
AlShows(k) == alShown' = alShown \o [i \in 1 .. k |-> Len(alShown) + i]

\* MSG_PEEK returns what is there and leaves it there.
AlPeek ==
    /\ al.peek /\ AlUnread # {}
    /\ AlMove(AlWaits, "peeked")
    /\ UNCHANGED <<alLoop, alData>>

\* The data is printed as it comes; a datagram is the last thing that is read.
AlTake ==
    /\ AlMove(IF al.peek THEN "peeked" ELSE AlWaits, IF Tcp THEN "read" ELSE "done")
    /\ \E k \in IF Tcp THEN 1 .. AlBytes ELSE {1} : k <= alSent - Len(alShown) /\ AlShows(k)
    /\ UNCHANGED <<alLoop, alSent, alFin>>

AlEof ==
    /\ AlMove("read", "done")
    /\ alFin = "fin" /\ AlUnread = {}
    /\ UNCHANGED <<alLoop, alData>>

\* A reset discards what has not been read.
AlReadError ==
    /\ alAt \in {"read", "peeked"} /\ alFin = "reset" /\ alAt' = "exited"
    /\ UNCHANGED <<al, alLoop, alData>>

AlRuns ==
    \/ AlResolve \/ AlSocketFails \/ AlSocket \/ AlTryWorks \/ AlTryFails \/ AlNoneLeft \/ AlFound
    \/ AlSend \/ AlPeek \/ AlTake \/ AlEof \/ AlReadError

AlNext == AlRuns \/ AlServer

(***************************************************************************)
(* Properties.                                                             *)
(***************************************************************************)
AlHasSocket == alAt \notin {"resolve", "socket", "try", "null", "exited"}

\* The caller of a loop gets one open socket, made for the first address in the list with
\* which both calls worked; the sockets of the addresses before it have been closed.
AlFirstThatWorks ==
    AlHasSocket =>
        /\ alOpen = {alI} /\ alI <= alN /\ alTried[alI] = "ok"
        /\ \A i \in 1 .. alI - 1 : alTried[i] \in {"no socket", "refused"}

\* udp_client's address and the others' addrlen are copied from the entry that worked
\* while the list is still there, and the list is freed before the caller goes on.
AlTakenFromLiveList ==
    /\ alTaken # <<>> => alTaken = <<alI, "live">>
    /\ AlHasSocket /\ alAt # "found" => alList # "live"

\* A client prints what the server sent, in order and once, peeked or not; if it ends
\* with success, a TCP client has printed all of it.
AlShowsAnswer ==
    /\ Len(alShown) <= alSent
    /\ alAt = "done" /\ Tcp => Len(alShown) = alSent

\* Every loop comes to its end, whatever calls fail; after it only the server can keep
\* a client waiting.
AlEnds == <>[](alAt \in {"returned", "exited", "done", "read", "recv"})

(***************************************************************************)
(* Connecting with a time limit: connect_timeo and connect_nonb of         *)
(* src/unpv13e/lib, and a plain connect.  The peer may accept, refuse or   *)
(* never answer; the alarm may go off at any time.                         *)
(***************************************************************************)

(***************************************************************************)
(* The ways to connect: with SIGALRM, with a nonblocking socket (with and  *)
(* without a time limit; 0 seconds is none), and neither.                  *)
(***************************************************************************)
CtWay(by, limit) == [by |-> by, limit |-> limit]

connect_timeo == CtWay("alarm", "some")
connect_nonb == CtWay("select", "some")
nonblock_daytimetcpcli == CtWay("select", "none")
plain_connect == CtWay("connect", "none")

CtWays == {connect_timeo, connect_nonb, nonblock_daytimetcpcli, plain_connect}

VARIABLES
    ct,         \* the way
    ctAt,       \* where it is
    ctPeer,     \* "idle", "asked" (SYN sent), "up", "refused", "silent"
    ctFd,       \* the socket: "open", "closed"
    ctFlags,    \* "block", "nonblock"
    ctAlarm,    \* "off", "set", "rang"
    ctHandler,  \* who handles SIGALRM: "old", "connect_alarm"
    ctErr,      \* error, or what select's return tells
    ctRet       \* the value returned, 1 while there is none

ctSig == <<ctAlarm, ctHandler>>
ctVars == <<ct, ctAt, ctPeer, ctFd, ctFlags, ctSig, ctErr, ctRet>>

CtInit ==
    /\ ct \in CtWays
    /\ ctAt = "start" /\ ctPeer = "idle" /\ ctFd = "open" /\ ctFlags = "block"
    /\ ctAlarm = "off" /\ ctHandler = "old" /\ ctErr = "none" /\ ctRet = 1

CtAlarmed == ct.by \in {"alarm", "alarm, handler kept"}

CtReturn(n) == ctAt' = "returned" /\ ctRet' = n

\* Signal and alarm; or fcntl.
CtStart ==
    /\ ctAt = "start" /\ ctAt' = "connect"
    /\ IF CtAlarmed THEN ctAlarm' = "set" /\ ctHandler' = "connect_alarm" ELSE UNCHANGED ctSig
    /\ ctFlags' = IF ct.by = "select" THEN "nonblock" ELSE ctFlags
    /\ UNCHANGED <<ct, ctPeer, ctFd, ctErr, ctRet>>

\* connect() begins: a blocking one waits, a nonblocking one says EINPROGRESS, or is
\* done or refused at once.  connect_nonb then returns without any clean-up.
CtConnect ==
    /\ ctAt = "connect"
    /\ \/ /\ ctPeer' \in {"asked", "silent"}
          /\ ctAt' = IF ctFlags = "block" THEN "wait" ELSE "select"
          /\ UNCHANGED <<ctErr, ctRet>>
       \/ /\ ctFlags = "nonblock"
          /\ \/ ctPeer' = "up" /\ ctAt' = "done" /\ UNCHANGED <<ctErr, ctRet>>
             \/ ctPeer' = "refused" /\ ctErr' = "at once" /\ CtReturn(-1)
    /\ UNCHANGED <<ct, ctFd, ctFlags, ctSig>>

\* The peer answers one that it has heard.
CtAnswer ==
    /\ ctPeer = "asked" /\ ctPeer' \in {"up", "refused"}
    /\ UNCHANGED <<ct, ctAt, ctFd, ctFlags, ctSig, ctErr, ctRet>>

\* SIGALRM: it interrupts a connect that waits; before that it is lost.
CtRings ==
    /\ ctAlarm = "set" /\ ctAlarm' = "rang"
    /\ IF ctAt = "wait" THEN ctErr' = "EINTR" /\ ctAt' = "failed" ELSE UNCHANGED <<ctErr, ctAt>>
    /\ UNCHANGED <<ct, ctPeer, ctFd, ctFlags, ctHandler, ctRet>>

CtWaited ==
    /\ ctAt = "wait"
    /\ \/ ctPeer = "up" /\ ctAt' = "clean" /\ UNCHANGED ctErr
       \/ ctPeer = "refused" /\ ctErr' = "ECONNREFUSED"
          /\ ctAt' = IF CtAlarmed THEN "failed" ELSE "clean"
    /\ UNCHANGED <<ct, ctPeer, ctFd, ctFlags, ctSig, ctRet>>

\* close; EINTR becomes ETIMEDOUT.
CtFailed ==
    /\ ctAt = "failed" /\ ctAt' = "clean"
    /\ ctFd' = "closed"
    /\ ctErr' = IF ctErr = "EINTR" THEN "ETIMEDOUT" ELSE ctErr
    /\ UNCHANGED <<ct, ctPeer, ctFlags, ctSig, ctRet>>

\* alarm(0), the old handler, the result of connect.
CtClean ==
    /\ ctAt = "clean"
    /\ ctAlarm' = "off"
    /\ ctHandler' = IF ct.by = "alarm, handler kept" /\ ctErr # "none" THEN ctHandler ELSE "old"
    /\ CtReturn(IF ctErr = "none" THEN 0 ELSE -1)
    /\ UNCHANGED <<ct, ctPeer, ctFd, ctFlags, ctErr>>

CtSelectTimeout ==
    /\ ctAt = "select" /\ ct.limit = "some" /\ ctPeer \in {"asked", "silent"}
    /\ ctFd' = "closed" /\ ctErr' = "ETIMEDOUT" /\ CtReturn(-1)
    /\ UNCHANGED <<ct, ctPeer, ctFlags, ctSig>>

\* Mutant: a socket that is writable is taken for a connection.
CtSelected_writable ==
    /\ ctAt = "select" /\ ctPeer \in {"up", "refused"}
    /\ ctAt' = "done" /\ UNCHANGED <<ctErr, ctRet>>
    /\ UNCHANGED <<ct, ctPeer, ctFd, ctFlags, ctSig>>

\* Ready: SO_ERROR tells a connection from a failure; where getsockopt itself returns
\* the pending error, connect_nonb returns at once.
CtSelected ==
    /\ ctAt = "select" /\ ctPeer \in {"up", "refused"}
    /\ \/ /\ ctAt' = "done"
          /\ ctErr' = IF ctPeer = "up" THEN "none" ELSE "SO_ERROR"
          /\ UNCHANGED ctRet
       \/ ctPeer = "refused" /\ ctErr' = "getsockopt" /\ CtReturn(-1)
    /\ UNCHANGED <<ct, ctPeer, ctFd, ctFlags, ctSig>>

\* done: the flags, then close if there is an error.
CtDone ==
    /\ ctAt = "done"
    /\ ctFlags' = "block"
    /\ ctFd' = IF ctErr = "none" THEN ctFd ELSE "closed"
    /\ CtReturn(IF ctErr = "none" THEN 0 ELSE -1)
    /\ UNCHANGED <<ct, ctPeer, ctSig, ctErr>>

CtRuns ==
    \/ CtStart \/ CtConnect \/ CtWaited \/ CtFailed \/ CtClean \/ CtSelectTimeout \/ CtSelected
    \/ CtDone

CtNext == CtRuns \/ CtAnswer \/ CtRings

(***************************************************************************)
(* Properties.                                                             *)
(***************************************************************************)
CtReturned == ctAt = "returned"

\* 0 is returned only for a connection: socket open and blocking again.
CtSuccessIsConnected ==
    CtReturned /\ ctRet = 0 => ctPeer = "up" /\ ctFd = "open" /\ ctFlags = "block"

\* However connect_timeo ends, no alarm is left running and SIGALRM has its old handler.
CtSignalsRestored == CtReturned => ctAlarm = "off" /\ ctHandler = "old"

\* A failed call of the timed functions has closed the socket, except where connect_nonb
\* returns early: then the socket stays open, and nonblocking.
CtFailureCloses ==
    CtReturned /\ ctRet = -1 /\ ct # plain_connect =>
        \/ ctFd = "closed"
        \/ ctErr \in {"at once", "getsockopt"} /\ ctFlags = "nonblock"

\* A limit ends the wait for a peer that never answers.  Where it does not: there is no
\* limit, or SIGALRM came before connect was entered and is lost.
CtStuck ==
    ctPeer = "silent" /\ IF CtAlarmed THEN ctAt = "wait" /\ ctAlarm = "rang" ELSE ct.limit = "none"
CtEnds == <>(CtReturned \/ CtStuck)

\* A socket is handed on only when it is what its user takes it for, whatever calls fail
\* and whenever a time limit passes: AlFirstThatWorks, AlTakenFromLiveList and
\* AlShowsAnswer for the loops over addresses; CtSuccessIsConnected, CtSignalsRestored and
\* CtFailureCloses for the timed connects.
ConnectSound ==
    /\ AlFirstThatWorks /\ AlTakenFromLiveList /\ AlShowsAnswer
    /\ CtSuccessIsConnected /\ CtSignalsRestored /\ CtFailureCloses
=============================================================================
