---------------------------- MODULE ThreadRing ----------------------------
(***************************************************************************)
(* src/unpv13e/server/serv08.c and pthread08.c: the main thread accepts    *)
(* connections and puts them into the ring clifd, a pool of threads takes  *)
(* them out; clifd_mutex guards the ring, clifd_cond announces an entry.   *)
(*                                                                         *)
(* Connections are numbered in the order in which they are accepted.       *)
(***************************************************************************)
EXTENDS Integers, Sequences

CONSTANTS
    MAXNCLI,    \* slots of the ring
    Pool,       \* the threads
    MaxCli      \* bound: connections

ASSUME RingAssumption ==
    /\ MAXNCLI \in Nat /\ MAXNCLI >= 2 /\ MaxCli \in Nat
    /\ "main" \notin Pool /\ "free" \notin Pool

VARIABLES
    clifd, iget, iput,
    mutex,          \* who holds clifd_mutex, or "free"
    mainAt,         \* "accept", "lock", "store", "advance"
    accepted,       \* connections accepted; the last one is main's connfd
    thread,         \* where each thread is
    connfd,         \* each thread's connection
    taken,          \* history: connections taken out of the ring, in order
    process         \* "up", "full" (err_quit in main), "request" (err_quit in web_child)

ringState == <<clifd, iget, iput>>
ringVars == <<ringState, mutex, mainAt, accepted, thread, connfd, taken, process>>

RingSlot == 0 .. MAXNCLI - 1

RingInit ==
    /\ clifd = [i \in RingSlot |-> 0] /\ iget = 0 /\ iput = 0
    /\ mutex = "free" /\ mainAt = "accept" /\ accepted = 0
    /\ thread = [t \in Pool |-> "lock"] /\ connfd = [t \in Pool |-> 0]
    /\ taken = <<>> /\ process = "up"

\* ++i, and back to 0 at MAXNCLI.
NextSlot(i) == IF i + 1 = MAXNCLI THEN 0 ELSE i + 1

(***************************************************************************)
(* main.                                                                   *)
(***************************************************************************)
AcceptOne ==
    /\ mainAt = "accept" /\ accepted < MaxCli
    /\ accepted' = accepted + 1 /\ mainAt' = "lock"
    /\ UNCHANGED <<ringState, mutex, thread, connfd, taken, process>>

MainLock ==
    /\ mainAt = "lock" /\ mutex = "free"
    /\ mutex' = "main" /\ mainAt' = "store"
    /\ UNCHANGED <<ringState, accepted, thread, connfd, taken, process>>

Store ==
    /\ mainAt = "store"
    /\ clifd' = [clifd EXCEPT ![iput] = accepted]
    /\ mainAt' = "advance"
    /\ UNCHANGED <<iget, iput, mutex, accepted, thread, connfd, taken, process>>

\* Pthread_cond_signal: one of the waiting threads goes on, if there is one.
Signal ==
    \/ \E t \in Pool : thread[t] = "wait" /\ thread' = [thread EXCEPT ![t] = "woken"]
    \/ (\A t \in Pool : thread[t] # "wait") /\ UNCHANGED thread

\* Mutant: the test for a full ring is left out.
AdvanceMain_unchecked ==
    /\ mainAt = "advance"
    /\ iput' = NextSlot(iput)
    /\ mainAt' = "accept" /\ mutex' = "free" /\ Signal
    /\ UNCHANGED <<clifd, iget, accepted, connfd, taken, process>>

\* iput moves on; the ring may not be full; a thread is told and the mutex released.
AdvanceMain ==
    /\ mainAt = "advance"
    /\ iput' = NextSlot(iput)
    /\ IF iput' = iget
       THEN process' = "full" /\ UNCHANGED <<mainAt, mutex, thread>>
       ELSE mainAt' = "accept" /\ mutex' = "free" /\ Signal /\ UNCHANGED process
    /\ UNCHANGED <<clifd, iget, accepted, connfd, taken>>

(***************************************************************************)
(* thread_main.                                                            *)
(***************************************************************************)

\* Pthread_mutex_lock, and the return from Pthread_cond_wait.
ThreadLock(t) ==
    /\ thread[t] \in {"lock", "woken"} /\ mutex = "free"
    /\ mutex' = t /\ thread' = [thread EXCEPT ![t] = "test"]
    /\ UNCHANGED <<ringState, mainAt, accepted, connfd, taken, process>>

\* An empty ring: the thread waits, and gives the mutex back while it does.
Test(t) ==
    /\ thread[t] = "test"
    /\ IF iget = iput
       THEN /\ thread' = [thread EXCEPT ![t] = "wait"] /\ mutex' = "free"
            /\ UNCHANGED <<connfd, taken>>
       ELSE /\ thread' = [thread EXCEPT ![t] = "advance"]
            /\ connfd' = [connfd EXCEPT ![t] = clifd[iget]]
            /\ taken' = Append(taken, clifd[iget])
            /\ UNCHANGED mutex
    /\ UNCHANGED <<ringState, mainAt, accepted, process>>

AdvanceThread(t) ==
    /\ thread[t] = "advance"
    /\ iget' = NextSlot(iget) /\ mutex' = "free"
    /\ thread' = [thread EXCEPT ![t] = "serve"]
    /\ UNCHANGED <<clifd, iput, mainAt, accepted, connfd, taken, process>>

\* web_child and Close; a request out of range ends the whole process.
Serve(t) ==
    /\ thread[t] = "serve"
    /\ \/ thread' = [thread EXCEPT ![t] = "lock"] /\ connfd' = [connfd EXCEPT ![t] = 0]
          /\ UNCHANGED process
       \/ process' = "request" /\ UNCHANGED <<thread, connfd>>
    /\ UNCHANGED <<ringState, mutex, mainAt, accepted, taken>>

\* Pthread_cond_wait may return though nobody has signalled.
Spurious(t) ==
    /\ thread[t] = "wait"
    /\ thread' = [thread EXCEPT ![t] = "woken"]
    /\ UNCHANGED <<ringState, mutex, mainAt, accepted, connfd, taken, process>>

main08 == process = "up" /\ (AcceptOne \/ MainLock \/ Store \/ AdvanceMain)
thread_main(t) == process = "up" /\ (ThreadLock(t) \/ Test(t) \/ AdvanceThread(t) \/ Serve(t))

RingNext == main08 \/ \E t \in Pool : thread_main(t) \/ (process = "up" /\ Spurious(t))
RingSpec == RingInit /\ [][RingNext]_ringVars

(***************************************************************************)
(* Properties.                                                             *)
(***************************************************************************)

\* Every variable keeps its type.
RingTypeOK ==
    /\ clifd \in [RingSlot -> Nat] /\ iget \in RingSlot /\ iput \in RingSlot
    /\ mutex \in Pool \cup {"free", "main"}
    /\ mainAt \in {"accept", "lock", "store", "advance"} /\ accepted \in Nat
    /\ thread \in [Pool -> {"lock", "test", "wait", "woken", "advance", "serve"}]
    /\ connfd \in [Pool -> Nat] /\ taken \in Seq(Nat)
    /\ process \in {"up", "full", "request"}

\* Every connection is taken by one thread only, and in the order of acceptance.
TakenInOrder == \A i \in DOMAIN taken : taken[i] = i

\* Connections that main has put into the ring (counted when iput has moved), and those
\* that still are in it (counted until iget has moved).
Stored == IF process # "full" /\ mainAt \in {"lock", "store", "advance"} THEN accepted - 1 ELSE accepted
Removed == IF \E t \in Pool : thread[t] = "advance" THEN Len(taken) - 1 ELSE Len(taken)
InRing == Stored - Removed

\* main gives up only when all MAXNCLI slots are in use, so it never overwrites a
\* connection that waits; up to then at most MAXNCLI - 1 wait.
QuitsOnlyWhenFull ==
    IF process = "full" THEN InRing = MAXNCLI ELSE InRing \in 0 .. MAXNCLI - 1

\* How far slot i is ahead of iget.
RingAhead(i) == IF i >= iget THEN i - iget ELSE i - iget + MAXNCLI

\* The slots from iget up to iput hold the connections that wait, in order; whoever
\* touches the ring holds the mutex.  Inductive.
RingInv ==
    /\ RingTypeOK /\ TakenInOrder /\ QuitsOnlyWhenFull
    /\ mutex = "main" <=> mainAt \in {"store", "advance"}
    /\ \A t \in Pool : mutex = t <=> thread[t] \in {"test", "advance"}
    /\ \A t \in Pool : thread[t] = "advance" => InRing >= 1 /\ Len(taken) >= 1
    /\ mainAt # "accept" => accepted >= 1
    /\ process = "full" => mainAt = "advance"
    /\ process # "full" => iput = IF iget + InRing >= MAXNCLI THEN iget + InRing - MAXNCLI ELSE iget + InRing
    /\ process # "full" => \A i \in RingSlot : RingAhead(i) < InRing => clifd[i] = Removed + RingAhead(i) + 1
    /\ process # "full" /\ mainAt = "advance" => clifd[iput] = accepted

\* No wakeup is lost: a connection that has been accepted is taken by a thread, unless
\* the process ends.
AcceptedIsTaken ==
    \A k \in 1 .. MaxCli : accepted >= k ~> Len(taken) >= k \/ process # "up"
=============================================================================
