----------------------------- MODULE SigioEcho -----------------------------
(***************************************************************************)
(* The signal-driven UDP echo server of src/unpv13e/sigio: the handler of  *)
(* SIGIO reads datagrams into the ring dg, the main loop echoes them.  The *)
(* handler runs over the main loop: while it runs the main loop does not.  *)
(*                                                                         *)
(* Datagrams are numbered in the order in which they reach the socket.     *)
(***************************************************************************)
EXTENDS Integers, Sequences

CONSTANTS
    QSIZE,      \* slots of the ring
    MaxDg       \* bound: how many datagrams reach the socket

ASSUME QSizeAssumption == QSIZE \in Nat \ {0} /\ MaxDg \in Nat

VARIABLES
    dg,                 \* the ring: the number of the datagram in each slot
    iget, iput, nqueue,
    main,               \* where the main loop is
    handler,            \* "off", "reading" (in sig_io), "quit" (err_quit)
    nread,              \* sig_io's count of datagrams read by this call
    pending,            \* the signals that wait to be delivered
    flags,              \* the socket's flags
    arrived,            \* datagrams that have reached the socket
    taken,              \* datagrams that recvfrom has returned
    signalled,          \* arrived, when SIGIO was last raised
    echoed              \* what Sendto has sent, in order

ring == <<dg, iget, iput, nqueue>>
sock == <<pending, flags, arrived, signalled>>
sigioVars == <<ring, sock, main, handler, nread, taken, echoed>>

Slot == 0 .. QSIZE - 1

\* The socket is bound before dg_echo is called: datagrams may already be queued.
SigioInit ==
    /\ dg = [i \in Slot |-> 0]
    /\ iget = 0 /\ iput = 0 /\ nqueue = 0
    /\ main = "setup" /\ handler = "off" /\ nread = 0
    /\ pending = {} /\ flags = {}
    /\ arrived = 0 /\ taken = 0 /\ signalled = 0
    /\ echoed = <<>>

\* ++i, and back to 0 at QSIZE.
Wrap(i) == IF i + 1 >= QSIZE THEN 0 ELSE i + 1

(***************************************************************************)
(* The kernel.                                                             *)
(***************************************************************************)

\* A datagram raises SIGIO once FIOASYNC is set.
Arrive ==
    /\ arrived < MaxDg
    /\ arrived' = arrived + 1
    /\ IF "FIOASYNC" \in flags THEN pending' = {"SIGIO"} /\ signalled' = arrived + 1
                              ELSE UNCHANGED <<pending, signalled>>
    /\ UNCHANGED <<ring, flags, main, handler, nread, taken, echoed>>

\* SIGIO is blocked between the two Sigprocmask calls that enclose the send,
\* except inside sigsuspend.
Open == main \in {"async", "nonblock", "send", "advance", "block", "suspend"}

Deliver ==
    /\ handler = "off" /\ "SIGIO" \in pending /\ Open
    /\ handler' = "reading" /\ nread' = 0 /\ pending' = {}
    /\ UNCHANGED <<ring, flags, main, arrived, signalled, taken, echoed>>

(***************************************************************************)
(* sig_io.                                                                 *)
(***************************************************************************)

\* The queue is tested before there is known to be anything to put into it.
Overflow ==
    /\ handler = "reading" /\ nqueue >= QSIZE
    /\ handler' = "quit"
    /\ UNCHANGED <<ring, sock, main, nread, taken, echoed>>

ReadOne ==
    /\ handler = "reading" /\ nqueue < QSIZE /\ taken < arrived
    /\ taken' = taken + 1
    /\ dg' = [dg EXCEPT ![iput] = taken + 1]
    /\ nread' = nread + 1 /\ nqueue' = nqueue + 1 /\ iput' = Wrap(iput)
    /\ UNCHANGED <<iget, sock, main, handler, echoed>>

\* Mutant: the handler returns after one datagram.
WouldBlock_early ==
    /\ handler = "reading" /\ nqueue < QSIZE /\ (taken = arrived \/ nread > 0)
    /\ "FIONBIO" \in flags
    /\ handler' = "off"
    /\ main' = IF main = "suspend" THEN "wait" ELSE main
    /\ UNCHANGED <<ring, sock, nread, taken, echoed>>

\* EWOULDBLOCK ends sig_io, and with it a sigsuspend; while the socket is still
\* blocking recvfrom waits for the next datagram instead.
WouldBlock ==
    /\ handler = "reading" /\ nqueue < QSIZE /\ taken = arrived
    /\ "FIONBIO" \in flags
    /\ handler' = "off"
    /\ main' = IF main = "suspend" THEN "wait" ELSE main
    /\ UNCHANGED <<ring, sock, nread, taken, echoed>>

sig_io == Overflow \/ ReadOne \/ WouldBlock

(***************************************************************************)
(* dg_echo.                                                                *)
(***************************************************************************)
Main(from, to) == handler = "off" /\ main = from /\ main' = to /\ UNCHANGED <<handler, nread, taken>>

\* FIOASYNC, FIONBIO, then SIGIO is blocked.
Setup ==
    /\ \/ Main("setup", "async") /\ flags' = {"FIOASYNC"}
       \/ Main("async", "nonblock") /\ flags' = {"FIOASYNC", "FIONBIO"}
       \/ Main("nonblock", "wait") /\ UNCHANGED flags
    /\ UNCHANGED <<ring, pending, arrived, signalled, echoed>>

\* while (nqueue == 0) sigsuspend; otherwise SIGIO is unblocked.
Wait ==
    /\ IF nqueue = 0 THEN Main("wait", "suspend") ELSE Main("wait", "send")
    /\ UNCHANGED <<ring, sock, echoed>>

Send ==
    /\ Main("send", "advance")
    /\ echoed' = Append(echoed, dg[iget])
    /\ UNCHANGED <<ring, sock>>

\* Mutant: the slot is given back before it is sent, as if nqueue-- came first.
Advance_gives_back ==
    /\ Main("advance", "block")
    /\ iget' = Wrap(iget) /\ nqueue' = nqueue - 1
    /\ UNCHANGED <<dg, iput, sock, echoed>>

Advance ==
    /\ Main("advance", "block")
    /\ iget' = Wrap(iget)
    /\ UNCHANGED <<dg, iput, nqueue, sock, echoed>>

Block == Main("block", "release") /\ UNCHANGED <<ring, sock, echoed>>

Release ==
    /\ Main("release", "wait")
    /\ nqueue' = nqueue - 1
    /\ UNCHANGED <<dg, iget, iput, sock, echoed>>

dg_echo == Setup \/ Wait \/ Send \/ Advance \/ Block \/ Release

SigioNext == Arrive \/ Deliver \/ sig_io \/ dg_echo

\* The process runs, and the kernel delivers a signal that is not blocked.
SigioRuns == Deliver \/ sig_io \/ dg_echo
SigioSpec == SigioInit /\ [][SigioNext]_sigioVars

(***************************************************************************)
(* Properties.                                                             *)
(***************************************************************************)

\* Every variable keeps its type.
SigioTypeOK ==
    /\ dg \in [Slot -> Nat] /\ iget \in Slot /\ iput \in Slot
    /\ nqueue \in 0 .. QSIZE /\ nread \in Nat
    /\ main \in {"setup", "async", "nonblock", "wait", "suspend", "send", "advance", "block",
                 "release"}
    /\ handler \in {"off", "reading", "quit"}
    /\ pending \subseteq {"SIGIO"} /\ flags \subseteq {"FIOASYNC", "FIONBIO"}
    /\ arrived \in Nat /\ taken \in 0 .. arrived /\ signalled \in 0 .. arrived
    /\ echoed \in Seq(Nat)

\* Datagrams are echoed once each and in the order in which they arrived, though
\* sig_io fills slots and moves iput and nqueue between any two steps of the loop.
EchoedInOrder == \A i \in DOMAIN echoed : echoed[i] = i

\* Datagrams read but not yet sent.
Queued == taken - Len(echoed)

\* nqueue counts the slot being sent until the loop is done with it, so sig_io never
\* reads into a slot whose datagram the loop may still be sending; what it counts
\* besides is what has been read and not been sent.
SlotHeldWhileSent ==
    nqueue = IF main \in {"advance", "block", "release"} THEN Queued + 1 ELSE Queued

\* How far slot i is ahead of iget, and how many slots from iget on hold a datagram.
Ahead(i) == IF i >= iget THEN i - iget ELSE i - iget + QSIZE
Live == IF main \in {"block", "release"} THEN nqueue - 1 ELSE nqueue

\* The ring: the slots from iget up to iput hold the datagrams last read, in order.
\* Inductive together with SigioTypeOK, EchoedInOrder and SlotHeldWhileSent.
SigioInv ==
    /\ SigioTypeOK /\ EchoedInOrder /\ SlotHeldWhileSent
    /\ main \in {"send", "advance", "block", "release"} => nqueue >= 1
    /\ iput = IF iget + Live >= QSIZE THEN iget + Live - QSIZE ELSE iget + Live
    /\ \A i \in Slot : Ahead(i) < Live => dg[i] = taken - Live + Ahead(i) + 1

\* sig_io that came before FIONBIO waits in recvfrom, and the loop with it.
StuckReading == handler = "reading" /\ "FIONBIO" \notin flags

\* No wakeup is lost: whatever had arrived when a SIGIO was raised is echoed, unless
\* the ring overflowed or the SIGIO came before FIONBIO was set.
SignalledIsEchoed ==
    \A k \in 1 .. MaxDg :
        signalled >= k ~> Len(echoed) >= k \/ handler = "quit" \/ StuckReading
=============================================================================
