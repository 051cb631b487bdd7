------------------------------ MODULE MCProbes -----------------------------
(***************************************************************************)
(* Out-of-band data, heartbeats, traceroute and the ICMP daemon, for TLC:  *)
(* each behaviour runs one of them.                                        *)
(***************************************************************************)
EXTENDS UrgentData, IcmpTools

\* The families of the daemon's clients.
IdFamilies == [c \in IdClient |-> IF c = 2 THEN "v6" ELSE "v4"]

VARIABLE which

vars == <<which, oobVars, hbVars, trVars, idVars>>

Init ==
    /\ which \in {"oob", "heartbeat", "traceroute", "icmpd"}
    /\ OobInit /\ HbInit /\ TrInit /\ IdInit
    /\ which # "oob" => oobS = tcpsend01 /\ oobR = tcprecv01 /\ oobKernel = "until taken"
    /\ which # "heartbeat" => hbNet = "fast"
    /\ which # "traceroute" => trPr = "v4"

Only(name, A, rest) == which = name /\ A /\ UNCHANGED <<which, rest>>

OobOnly(A) == Only("oob", A, <<hbVars, trVars, idVars>>)
HbOnly(A) == Only("heartbeat", A, <<oobVars, trVars, idVars>>)
TrOnly(A) == Only("traceroute", A, <<oobVars, hbVars, idVars>>)
IdOnly(A) == Only("icmpd", A, <<oobVars, hbVars, trVars>>)

Next == OobOnly(OobNextStep) \/ HbOnly(HbNext) \/ TrOnly(TrNext) \/ IdOnly(IdNext)

\* The programs run, an alarm that is set goes off, a signal is delivered, and what the
\* sender of out-of-band data has sent arrives; the network owes nothing else.
Fairness ==
    /\ WF_vars(OobOnly(OobSend)) /\ WF_vars(OobOnly(OobArrive)) /\ WF_vars(OobOnly(OobRuns))
    /\ WF_vars(HbOnly(HbPeriod)) /\ \A s \in HbSide : WF_vars(HbOnly(HbRuns(s)))
    /\ WF_vars(TrOnly(TrAlarmRings)) /\ WF_vars(TrOnly(traceloop))
    /\ WF_vars(IdOnly(icmpd)) /\ \A c \in IdClient : WF_vars(IdOnly(IdProceeds(c)))

Spec == Init /\ [][Next]_vars /\ Fairness

\* Everybody finds out in the end: receivers of urgent data come to the end of the data
\* (OobEnds), both sides of a heartbeat notice that the connection is down (HbDetects),
\* traceroute ends (TrEnds), and the ICMP daemon answers its clients (IdAnswered).
ProbesLive ==
    /\ which = "oob" => OobEnds
    /\ which = "heartbeat" => HbDetects
    /\ which = "traceroute" => TrEnds
    /\ which = "icmpd" => IdAnswered
=============================================================================
