------------------------------ MODULE MCNames ------------------------------
(***************************************************************************)
(* Names to sockets, timed connects, the UDP programs, muduo's examples    *)
(* and the SCTP programs, for TLC: each behaviour runs one of them.        *)
(***************************************************************************)
EXTENDS Connecting, UdpPrograms, MuduoApps, SctpEcho

VARIABLE which

\* What the clients of the echo and finger servers send: whole lines, a CR that is not
\* before an LF, a second line, no CR.
Scripts ==
    {<<"u", "CR", "LF">>, <<"CR", "u", "CR", "LF">>, <<"u", "CR", "LF", "x", "CR", "LF">>,
     <<"x", "LF", "u">>}

vars == <<which, alVars, ctVars, upVars, mdVars, scVars>>

\* Bound: messages come in pieces only to servers with and without pdapi_recvmsg that are
\* told to reply on the same stream; the longest conversations are with sctpserv02 and 07.
ScShort ==
    /\ scLong => scS \in {sctpserv01, sctpserv05, sctpserv06, sctpserv_fork} /\ ~scIncr
    /\ scC.body = sctp_strcliecho2 => scS \in {sctpserv02, sctpserv07} /\ ~scLong

Init ==
    /\ which \in {"addr", "timeo", "udp", "muduo", "sctp"}
    /\ AlInit /\ (which # "addr" => al = names_cli)
    /\ CtInit /\ (which # "timeo" => ct = plain_connect)
    /\ UpInit /\ (which # "udp" => upC = udpcliserv_udpcli01 /\ upS = udpcliserv_udpserv01)
    /\ MdInit /\ (which # "muduo" => md = "time" /\ mdTime = 1)
    /\ ScInit /\ ScShort /\ (which # "sctp" => scS = sctpserv07 /\ scC \in sctpclient04 /\ scOut = 1 /\ ~scLong)

Only(name, A, rest) == which = name /\ A /\ UNCHANGED <<which, rest>>

AlOnly(A) == Only("addr", A, <<ctVars, upVars, mdVars, scVars>>)
CtOnly(A) == Only("timeo", A, <<alVars, upVars, mdVars, scVars>>)
UpOnly(A) == Only("udp", A, <<alVars, ctVars, mdVars, scVars>>)
MdOnly(A) == Only("muduo", A, <<alVars, ctVars, upVars, scVars>>)
ScOnly(A) == Only("sctp", A, <<alVars, ctVars, upVars, mdVars>>)

Next ==
    AlOnly(AlNext) \/ CtOnly(CtNext) \/ UpOnly(UpNext) \/ MdOnly(MdNext) \/ ScOnly(ScNext)

\* The programs run, an alarm that is set goes off, a signal is delivered; the peers
\* and the network owe nothing.
Fairness ==
    /\ WF_vars(AlOnly(AlRuns))
    /\ WF_vars(CtOnly(CtRuns)) /\ WF_vars(CtOnly(CtRings)) /\ WF_vars(CtOnly(CtAnswer))
    /\ WF_vars(UpOnly(UpClientRuns)) /\ WF_vars(UpOnly(UpServerRuns))
    /\ WF_vars(MdOnly(MdRuns))
    /\ WF_vars(ScOnly(ScClientRuns)) /\ WF_vars(ScOnly(ScServerRuns)) /\ WF_vars(ScOnly(ScShutdown))

Spec == Init /\ [][Next]_vars /\ Fairness

\* Replies belong to their messages and servers live: ScOrderKept, ScReplyToThis and
\* ScDeathsNamed for the SCTP programs, CountIsReceived and ServerStaysUp for those over
\* UDP.
EchoSound == ScOrderKept /\ ScReplyToThis /\ ScDeathsNamed /\ CountIsReceived /\ ServerStaysUp

\* Whatever cannot be blamed on a peer, the network or a named state comes to its end:
\* the address loops (AlEnds) and timed connects (CtEnds) return, datagrams and SCTP
\* messages are answered (UpAnswered, ScAnswered), and muduo's examples do what their
\* clients came for (MdServed).
NamesLive ==
    /\ which = "addr" => AlEnds
    /\ which = "timeo" => CtEnds
    /\ which = "udp" => UpAnswered
    /\ which = "muduo" => MdServed
    /\ which = "sctp" => ScAnswered
=============================================================================
