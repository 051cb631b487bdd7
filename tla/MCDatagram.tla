---------------------------- MODULE MCDatagram ----------------------------
(***************************************************************************)
(* The datagram programs, the sock server that forks and the programs      *)
(* about threads and mutexes, for TLC: each behaviour runs one of them,    *)
(* the others stay in their initial state.                                 *)
(***************************************************************************)
EXTENDS SigioEcho, DgCli, ReliableUdp, SockModes, ThreadExamples

VARIABLE which

vars == <<which, sigioVars, dgcliVars, rttVars, suVars, sfVars, txVars, invVars, mtxVars>>

Init ==
    /\ which \in {"sigio", "dgcli", "rtt", "sockudp", "sockserver", "threads", "inventory", "mutex"}
    /\ SigioInit /\ RttInit
    /\ DgCliInit /\ (which # "dgcli" => ver = dgclibcast1)
    /\ SuInit /\ (which # "sockudp" => \A e \in SuSide : suProg[e] = [body |-> "select", opts |-> {}])
    /\ SfInit /\ (which # "sockserver" => dofork = 0)
    /\ TxInit /\ (which # "threads" => tx = example01)
    /\ InvInit /\ MtxInit

Only(name, A, rest) == which = name /\ A /\ UNCHANGED <<which, rest>>

SigioStep(A) == Only("sigio", A, <<dgcliVars, rttVars, suVars, sfVars, txVars, invVars, mtxVars>>)
DgCliStep(A) == Only("dgcli", A, <<sigioVars, rttVars, suVars, sfVars, txVars, invVars, mtxVars>>)
RttStep(A) == Only("rtt", A, <<sigioVars, dgcliVars, suVars, sfVars, txVars, invVars, mtxVars>>)
SuOnly(A) == Only("sockudp", A, <<sigioVars, dgcliVars, rttVars, sfVars, txVars, invVars, mtxVars>>)
SfOnly(A) == Only("sockserver", A, <<sigioVars, dgcliVars, rttVars, suVars, txVars, invVars, mtxVars>>)
TxOnly(A) == Only("threads", A, <<sigioVars, dgcliVars, rttVars, suVars, sfVars, invVars, mtxVars>>)
InvOnly(A) == Only("inventory", A, <<sigioVars, dgcliVars, rttVars, suVars, sfVars, txVars, mtxVars>>)
MtxOnly(A) == Only("mutex", A, <<sigioVars, dgcliVars, rttVars, suVars, sfVars, txVars, invVars>>)

Next ==
    \/ SigioStep(SigioNext) \/ DgCliStep(DgCliNext) \/ RttStep(RttNext)
    \/ SuOnly(SuNext) \/ SfOnly(SfNext) \/ TxOnly(TxNext)
    \/ InvOnly(InvNext) \/ MtxOnly(MtxNext)

Fairness ==
    /\ WF_vars(SigioStep(SigioRuns))
    /\ WF_vars(DgCliStep(dg_cli)) /\ WF_vars(DgCliStep(Expire)) /\ WF_vars(DgCliStep(recvfrom_alarm))
    /\ WF_vars(RttStep(dg_send_recv)) /\ WF_vars(RttStep(sig_alrm))
    /\ \A e \in SuSide : WF_vars(SuOnly(SuStep(e)))
    /\ WF_vars(SfOnly(SfServes)) /\ \A k \in SfKids : WF_vars(SfOnly(SfKidTells(k)))
    /\ \A t \in TxThread : WF_vars(TxOnly(TxStep(t))) /\ SF_vars(TxOnly(TxLock(t)))
    /\ WF_vars(TxOnly(TxJoin))
    /\ WF_vars(InvOnly(InvThreadStep)) /\ WF_vars(InvOnly(InvMainStep))

Spec == Init /\ [][Next]_vars /\ Fairness

\* Programs finish and nothing waits for a signal that has gone by: the SIGIO server echoes
\* (SignalledIsEchoed), the clients come to the end of their input or give up (LinesFinish,
\* QuestionsFinish, SuFinishes), the sock server accepts (SfAccepted), and the examples
\* with two threads end (TxEnds), the inventory program too or else it is in its one deadlock
\* (InventoryEnds).  All along, the timeout of the retransmitting client stays within its
\* limits (RtoWithinLimits).
DatagramLive ==
    /\ which = "sigio" => SignalledIsEchoed
    /\ which = "dgcli" => LinesFinish
    /\ which = "rtt" => QuestionsFinish /\ []RtoWithinLimits
    /\ which = "sockudp" => SuFinishes
    /\ which = "sockserver" => SfAccepted
    /\ which = "threads" => TxEnds
    /\ which = "inventory" => InventoryEnds
=============================================================================
