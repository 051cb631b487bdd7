----------------------------- MODULE MCServers -----------------------------
(***************************************************************************)
(* The TCP servers for TLC: each behaviour runs one of them, the others    *)
(* stay in their initial state.                                            *)
(***************************************************************************)
EXTENDS ThreadRing, PassFd, ServerPool, ConnServer

CONSTANTS t1, t2

VARIABLE which

vars == <<which, ringVars, passVars, poolVars, connVars>>

Threads == {t1, t2}

Init ==
    /\ which \in {"ring", "pass", "pool", "conn"}
    /\ RingInit /\ PassInit /\ PoolInit /\ ConnInit
    /\ which # "pool" => pool = child02
    /\ which # "conn" => srv = tcpserv01

Only(name, A, rest) == which = name /\ A /\ UNCHANGED <<which, rest>>

RingStep(A) == Only("ring", A, <<passVars, poolVars, connVars>>)
PassStep(A) == Only("pass", A, <<ringVars, poolVars, connVars>>)
PoolStep(A) == Only("pool", A, <<ringVars, passVars, connVars>>)
ConnStep(A) == Only("conn", A, <<ringVars, passVars, poolVars>>)

Next == RingStep(RingNext) \/ PassStep(PassNext) \/ PoolStep(PoolNext) \/ ConnStep(ConnNext)

Fairness ==
    /\ WF_vars(RingStep(main08)) /\ SF_vars(RingStep(process = "up" /\ MainLock))
    /\ \A t \in Threads :
           WF_vars(RingStep(thread_main(t))) /\ SF_vars(RingStep(process = "up" /\ ThreadLock(t)))
    /\ WF_vars(PassStep(main05)) /\ \A c \in Kid : WF_vars(PassStep(child_main(c)))
    /\ WF_vars(PoolStep(serv)) /\ WF_vars(PoolStep(PeerEnds))
    /\ \A i \in W : WF_vars(PoolStep(pool_main(i)))
    /\ WF_vars(ConnStep(mainLoop)) /\ WF_vars(ConnStep(ClientEnds)) /\ WF_vars(ConnStep(sig_chld))
    /\ \A k \in C : WF_vars(ConnStep(workerRuns(k)))

Spec == Init /\ [][Next]_vars /\ Fairness

\* Workers and connections, while workers end at any point: only the holder of the lock
\* is in accept (OneInAccept, PoolTypeOK in PoolInv); a worker serves the connection it was
\* made for, no ended child is forgotten, and the servers end of nothing but what
\* ServerSurvives names (ServesItsOwn, NoZombies, ServerSurvives in ConnInv); and serv05's
\* assertion holds though children die (SomeChildAvailable in AvailableIsFree).
WorkersSound ==
    PoolInv /\ ConnInv /\ AvailableIsFree

\* Connections are served and closed, and servers end when they are told to: in serv08's
\* ring (AcceptedIsTaken), by serv05's children (BacklogServed, ChildrenEnd), by the pools
\* (WaitingIsAccepted, InterruptEnds) and by the other servers (EndedIsClosed).
ServersLive ==
    /\ which = "ring" => AcceptedIsTaken
    /\ which = "pass" => BacklogServed /\ ChildrenEnd
    /\ which = "pool" => WaitingIsAccepted /\ InterruptEnds
    /\ which = "conn" => EndedIsClosed
=============================================================================
