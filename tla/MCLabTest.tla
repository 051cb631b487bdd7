----------------------------- MODULE MCLabTest -----------------------------
(***************************************************************************)
(* The referee under any order of calls, the lab exercise around it, and   *)
(* mymuduo's event loop, for TLC: each behaviour runs one of them.         *)
(***************************************************************************)
EXTENDS LabTest, PollLoop

CONSTANTS ch1, ch2

\* Closed under prefixes, so that a message cut short is one of them.
SomeMsgs == {<<1>>, <<1, 2>>}
NoBytes == <<>>
TwoBatches == <<1, 2>>

VARIABLE which

vars == <<which, labVars, plVars>>

Init == which \in {"referee", "lab", "poll"} /\ LabInit /\ PlInit

Only(name, A, rest) == which = name /\ A /\ UNCHANGED <<which, rest>>

RefOnly(A) == Only("referee", A, <<tester, msgs, link, reset, up, plVars>>)
LabOnly(A) == Only("lab", A, plVars)
PlOnly(A) == Only("poll", A, labVars)

\* Bound: ch1 is registered first, and nothing happens on a descriptor before that (poll
\* would find it just the same); an error happens on ch1 only.
Watched ==
    /\ index[ch2] > 0 => index[ch1] > 0
    /\ \A c \in Chan : index[c] = 0 => ready[c] = {}
    /\ "err" \notin ready[ch2]

\* Bound: fewer calls when they come in any order.
FewCalls == seq < MaxSeq /\ recv_seq < MaxSeq

Next == RefOnly(RefNext /\ FewCalls') \/ LabOnly(LabNext) \/ PlOnly(PlNext /\ Watched')

\* The main threads of the lab's client and server, and the loop thread, are scheduled
\* while they can run; poll's timeout is part of poll.
Fairness ==
    /\ WF_vars(LabOnly(ClientMain)) /\ WF_vars(LabOnly(Server))
    /\ WF_vars(PlOnly(LoopThread))

Spec == Init /\ [][Next]_vars /\ Fairness

\* Every string that is pushed is committed (EventuallyCommitted); the loop of mymuduo
\* handles what its channels ask for and ends when it is told to (EventHandled, QuitEnds).
LabLive == EventuallyCommitted /\ EventHandled /\ QuitEnds
=============================================================================
