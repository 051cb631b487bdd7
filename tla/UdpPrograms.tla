---------------------------- MODULE UdpPrograms ----------------------------
(***************************************************************************)
(* The UDP and Unix datagram programs of src/unpv13e as pairs: a client's  *)
(* main sets up its socket and calls dg_cli, a server's main binds its own *)
(* and calls dg_echo.  What the versions of dg_cli with timers and filters *)
(* do is in DgCli; here a client sends lines and waits for one reply each, *)
(* or sends without waiting.  A datagram is known by the line it carries.  *)
(***************************************************************************)
EXTENDS Integers, Sequences

CONSTANTS
    UpLines,    \* bound: lines or datagrams a client sends
    UpBuffer    \* datagrams the server's receive buffer holds

(***************************************************************************)
(* The clients.                                                            *)
(*   port    where the datagrams go                                        *)
(*   local   the client's own address: "auto" (given by the kernel with    *)
(*           the first sendto), "any" (bind, port 0), "peer" (bind, the    *)
(*           server's address and port 0), "path" (bind, a Unix pathname), *)
(*           "connect"                                                     *)
(*   body    "line" (a reply for each line), "flood", "exit" (nothing)     *)
(***************************************************************************)
dgcliloop1 == "flood"
dgcliloop3 == "flood"
dgclibig == "line"
UpClient(port, local, body) == [port |-> port, local |-> local, body |-> body]

udpcliserv_udpcli01 == UpClient("SERV_PORT", "auto", "line")
udpcliserv_udpcli02 == UpClient("echo", "auto", "line")
udpcliserv_udpcli03 == UpClient("echo", "auto", "line")
udpcliserv_udpcli04 == UpClient("SERV_PORT", "auto", "line")
udpcliserv_udpcli05 == UpClient("SERV_PORT", "any", "line")
udpcliserv_udpcli06 == UpClient("SERV_PORT", "auto", dgcliloop1)
udpcliserv_udpcli08 == UpClient("discard", "auto", dgcliloop3)
udpcliserv_udpcli09 == UpClient("SERV_PORT", "connect", "exit")
udpcliserv_udpcli10 == UpClient("argument", "auto", dgclibig)
bcast_udpcli01 == UpClient("daytime", "auto", "line")
bcast_udpcli02 == UpClient("daytime", "auto", "line")
bcast_udpcli03 == UpClient("daytime", "auto", "line")
bcast_udpcli04 == UpClient("daytime", "auto", "line")
bcast_udpcli05 == UpClient("daytime", "auto", "line")
bcast_udpcli06 == UpClient("daytime", "auto", "line")
mcast_udpcli01 == UpClient("SERV_PORT", "auto", "line")
mcast_udpcli05 == UpClient("daytime", "auto", "line")
mcast_udpcli06 == UpClient("daytime", "peer", "line")
sigio_udpcli01 == UpClient("SERV_PORT", "auto", "line")
rtt_udpcli01 == UpClient("echo", "auto", "line")
advio_udpcli01 == UpClient("echo", "auto", "line")
advio_udpcli02 == UpClient("echo", "auto", "line")
advio_udpcli03 == UpClient("echo", "auto", "line")
icmpd_udpcli01 == UpClient("argument", "auto", "line")
ipopts_udpcli01 == UpClient("SERV_PORT", "auto", "line")
unixdgcli01 == UpClient("UNIXDG_PATH", "path", "line")

UpClients ==
    {udpcliserv_udpcli01, udpcliserv_udpcli02, udpcliserv_udpcli03, udpcliserv_udpcli04,
     udpcliserv_udpcli05, udpcliserv_udpcli06, udpcliserv_udpcli08, udpcliserv_udpcli09,
     udpcliserv_udpcli10, bcast_udpcli01, bcast_udpcli02, bcast_udpcli03, bcast_udpcli04,
     bcast_udpcli05, bcast_udpcli06, mcast_udpcli01, mcast_udpcli05, mcast_udpcli06,
     sigio_udpcli01, rtt_udpcli01, advio_udpcli01, advio_udpcli02, advio_udpcli03,
     icmpd_udpcli01, ipopts_udpcli01, unixdgcli01}

(***************************************************************************)
(* The servers.                                                            *)
(*   port    where it listens                                              *)
(*   body    "echo", "answer" (daytime), "count" (no reply), "select" (TCP *)
(*           connections too)                                              *)
(*   clears  a pathname left by an earlier run is removed before bind      *)
(***************************************************************************)
dg_echo == "echo"
dgecholoop1 == "count"
dgecholoop2 == "count"
UpServer(port, body, clears) == [port |-> port, body |-> body, clears |-> clears]

udpcliserv_udpserv01 == UpServer("SERV_PORT", dg_echo, FALSE)
udpcliserv_udpserv06 == UpServer("SERV_PORT", dgecholoop1, FALSE)
udpcliserv_udpserv07 == UpServer("SERV_PORT", dgecholoop2, FALSE)
advio_udpserv01 == UpServer("SERV_PORT", dg_echo, FALSE)
ipopts_udpserv01 == UpServer("SERV_PORT", dg_echo, FALSE)
mcast_udpserv01 == UpServer("SERV_PORT", dg_echo, FALSE)
unixdgserv01 == UpServer("UNIXDG_PATH", dg_echo, TRUE)
daytimeudpsrv2 == UpServer("daytime", "answer", FALSE)
daytimeudpsrv3 == UpServer("daytime", "answer", FALSE)
udpservselect01 == UpServer("SERV_PORT", "select", FALSE)
\* inetd's own servers.
inetd_echo == UpServer("echo", "echo", FALSE)
inetd_discard == UpServer("discard", "count", FALSE)

UpServers ==
    {udpcliserv_udpserv01, udpcliserv_udpserv06, udpcliserv_udpserv07, advio_udpserv01,
     ipopts_udpserv01, mcast_udpserv01, unixdgserv01, daytimeudpsrv2, daytimeudpsrv3,
     udpservselect01, inetd_echo, inetd_discard}

\* A service on the command line is an Internet one.
UpMeet(c, s) == c.port = s.port \/ (c.port = "argument" /\ s.port # "UNIXDG_PATH")

VARIABLES
    upC, upS,       \* the client and the server
    upArg,          \* the address on the client's command line: "remote", "own", "group"
    upCAt, upSAt,   \* where they are
    upLocal,        \* the client's address: "none", "unicast", "group", "path"
    upPath,         \* the server's pathname: "none", "stale", "bound"
    upToS, upToC,   \* receive buffers: lines, with the address to reply to
    upGot,          \* the datagram the server is at
    upSent, upShown,
    upLost,         \* datagrams that the network or a full buffer has dropped
    upTook, upCount,    \* dgecholoop: recvfrom's returns; count
    upTcp,          \* connections at the listening socket: "none", "pending", "aborted"
    upReady         \* what select has found

upClientVars == <<upCAt, upLocal, upSent, upShown>>
upServerVars == <<upSAt, upPath, upGot, upTook, upCount, upReady>>
upVars ==
    <<upC, upS, upArg, upClientVars, upServerVars, upToS, upToC, upLost, upTcp>>

UpUnix == upS.port = "UNIXDG_PATH"
UpNoDg == [line |-> 0, from |-> "none"]

UpInit ==
    /\ upC \in UpClients /\ upS \in UpServers /\ UpMeet(upC, upS)
    /\ upArg \in IF upC.local = "peer" THEN {"remote", "own", "group"} ELSE {"remote"}
    /\ upCAt = "setup" /\ upSAt = "setup" /\ upLocal = "none"
    /\ upPath \in IF UpUnix THEN {"none", "stale"} ELSE {"none"}
    /\ upToS = <<>> /\ upToC = <<>> /\ upGot = UpNoDg
    /\ upSent = 0 /\ upShown = 0 /\ upLost = {} /\ upTook = 0 /\ upCount = 0
    /\ upTcp = "none" /\ upReady = {}

UpC(from, to) == upCAt = from /\ upCAt' = to /\ UNCHANGED <<upC, upS, upArg, upServerVars, upTcp>>
UpS(from, to) == upSAt = from /\ upSAt' = to /\ UNCHANGED <<upC, upS, upArg, upClientVars>>

(***************************************************************************)
(* The client.                                                             *)
(***************************************************************************)

\* bind fails for an address that is not this host's.
UpSetup ==
    /\ \/ /\ upC.local = "peer" /\ upArg = "remote"
          /\ UpC("setup", "exited") /\ UNCHANGED upLocal
       \/ /\ ~(upC.local = "peer" /\ upArg = "remote")
          /\ UpC("setup", IF upC.body = "exit" THEN "exited" ELSE "fgets")
          /\ upLocal' = CASE upC.local = "auto" -> "none"
                          [] upC.local = "path" -> "path"
                          [] upC.local = "peer" /\ upArg = "group" -> "group"
                          [] OTHER -> "unicast"
    /\ UNCHANGED <<upSent, upShown, upToS, upToC, upLost>>

\* The kernel binds an Internet socket when it first sends.
UpFrom == IF upLocal = "none" /\ ~UpUnix THEN "unicast" ELSE upLocal
UpListening == upSAt \notin {"setup", "exited"}
UpDelivered == Append(upToS, [line |-> upSent + 1, from |-> UpFrom])

\* A full buffer, the network or the absence of a server loses a datagram without a
\* word; a Unix socket blocks while the buffer is full and fails without a server.
UpSendto ==
    /\ upSent < UpLines
    /\ UpUnix => UpListening /\ Len(upToS) < UpBuffer
    /\ UpC("fgets", IF upC.body = "flood" THEN "fgets" ELSE "recv")
    /\ upSent' = upSent + 1 /\ upLocal' = UpFrom
    /\ \/ UpListening /\ Len(upToS) < UpBuffer /\ upToS' = UpDelivered /\ UNCHANGED upLost
       \/ ~UpUnix /\ upLost' = upLost \union {upSent + 1} /\ UNCHANGED upToS
    /\ UNCHANGED <<upShown, upToC>>

UpSendFails ==
    /\ UpUnix /\ ~UpListening
    /\ UpC("fgets", "exited")
    /\ UNCHANGED <<upLocal, upSent, upShown, upToS, upToC, upLost>>

UpRecvfrom ==
    /\ upToC # <<>>
    /\ UpC("recv", "fgets")
    /\ upToC' = Tail(upToC) /\ upShown' = Head(upToC).line
    /\ UNCHANGED <<upLocal, upSent, upToS, upLost>>

UpEof ==
    /\ upSent = UpLines
    /\ UpC("fgets", "exited")
    /\ UNCHANGED <<upLocal, upSent, upShown, upToS, upToC, upLost>>

(***************************************************************************)
(* The server.                                                             *)
(***************************************************************************)
UpTop == IF upS.body = "select" THEN "select" ELSE "recv"

\* unlink, bind.
UpBind ==
    /\ UpS("setup", IF upPath = "stale" /\ ~upS.clears THEN "exited" ELSE UpTop)
    /\ upPath' = IF UpUnix THEN "bound" ELSE upPath
    /\ UNCHANGED <<upGot, upTook, upCount, upReady, upToS, upToC, upLost, upTcp>>

\* Mutant: the signal of a child's end ends the server.
UpSelect_eintr ==
    /\ UpS("select", "exited")
    /\ UNCHANGED <<upPath, upGot, upTook, upCount, upToS, upToC, upLost, upTcp, upReady>>

\* select, or EINTR from a child's end and round again.
UpSelect ==
    /\ upTcp # "none" \/ upToS # <<>>
    /\ UpS("select", "tested")
    /\ upReady' = {fd \in {"listenfd", "udpfd"} :
                      IF fd = "listenfd" THEN upTcp # "none" ELSE upToS # <<>>}
    /\ UNCHANGED <<upPath, upGot, upTook, upCount, upToS, upToC, upLost, upTcp>>

\* Accept, a child for the connection; a connection that is gone is waited for.
UpAccept ==
    /\ upSAt = "tested" /\ "listenfd" \in upReady /\ upTcp = "pending"
    /\ upReady' = upReady \ {"listenfd"} /\ upTcp' = "none"
    /\ UNCHANGED <<upC, upS, upArg, upClientVars, upSAt, upPath, upGot, upTook, upCount, upToS, upToC, upLost>>

UpTested ==
    /\ "listenfd" \notin upReady
    /\ UpS("tested", IF "udpfd" \in upReady THEN "recv" ELSE "select")
    /\ upReady' = {}
    /\ UNCHANGED <<upPath, upGot, upTook, upCount, upToS, upToC, upLost, upTcp>>

UpConnects ==
    /\ UpListening /\ upS.body = "select"
    /\ \/ upTcp = "none" /\ upTcp' = "pending"
       \/ upTcp = "pending" /\ upTcp' = "aborted"
    /\ UNCHANGED <<upC, upS, upArg, upClientVars, upServerVars, upToS, upToC, upLost>>

UpServerRecv ==
    /\ upToS # <<>>
    /\ UpS("recv", IF upS.body = "count" THEN "count" ELSE "send")
    /\ upToS' = Tail(upToS)
    /\ upGot' = Head(upToS)
    /\ upTook' = IF upS.body = "count" THEN upTook + 1 ELSE upTook
    /\ UNCHANGED <<upPath, upCount, upReady, upToC, upLost, upTcp>>

UpCountOne ==
    /\ UpS("count", "recv")
    /\ upCount' = upCount + 1 /\ upGot' = UpNoDg
    /\ UNCHANGED <<upPath, upTook, upReady, upToS, upToC, upLost, upTcp>>

\* SIGINT: the count is printed and the server ends.
UpInterrupt ==
    /\ upS.body = "count" /\ UpListening
    /\ upSAt' = "exited"
    /\ UNCHANGED <<upC, upS, upArg, upClientVars, upPath, upGot, upTook, upCount, upReady, upToS, upToC, upLost, upTcp>>

\* The reply goes to where the datagram came from.  There is no way to a sender without
\* an address: Sendto ends the server.  What is sent to this host does not reach a
\* socket that is bound to a group.
UpServerSend ==
    /\ UpS("send", IF upGot.from = "none" THEN "exited" ELSE UpTop)
    /\ upGot' = UpNoDg
    /\ \/ upGot.from \in {"unicast", "path"} /\ upToC' = Append(upToC, upGot) /\ UNCHANGED upLost
       \/ upGot.from # "path" /\ upLost' = upLost \union {upGot.line} /\ UNCHANGED upToC
    /\ UNCHANGED <<upPath, upTook, upCount, upReady, upToS, upTcp>>

UpClientRuns == UpSetup \/ UpSendto \/ UpSendFails \/ UpRecvfrom \/ UpEof
UpServerRuns == UpBind \/ UpSelect \/ UpAccept \/ UpTested \/ UpServerRecv \/ UpCountOne \/ UpServerSend
UpNext == UpClientRuns \/ UpServerRuns \/ UpConnects \/ UpInterrupt

(***************************************************************************)
(* Properties.                                                             *)
(***************************************************************************)

\* dgecholoop's handler prints the number of datagrams received, or one less when the
\* signal comes between recvfrom and count++.
CountIsReceived == upCount \in {upTook - 1, upTook} /\ upTook <= upSent

\* A server stays up whatever its clients do; only SIGINT ends a counting one.  A
\* pathname left by an earlier run and a client without an address would end it.
ServerStaysUp == upSAt = "exited" => upS.body = "count"

\* What select has found at the listening socket is gone, and Accept waits.
UpAcceptBlocks == upSAt = "tested" /\ "listenfd" \in upReady /\ upTcp = "aborted"

\* A line that is not lost is answered and the answer shown.  What stands in the way:
\* nobody answers (count), the client is bound to the group it sends to, or the
\* server waits in Accept for a connection that has been aborted.
UpAnswered ==
    \A n \in 1 .. UpLines :
        upCAt = "recv" /\ upSent = n ~>
            \/ upShown >= n \/ n \in upLost \/ upS.body = "count" \/ UpAcceptBlocks
=============================================================================
