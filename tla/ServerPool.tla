----------------------------- MODULE ServerPool -----------------------------
(***************************************************************************)
(* The servers of src/unpv13e/server that make their workers beforehand    *)
(* and let all of them call accept: preforked (serv02, serv03, serv04) and *)
(* prethreaded (serv07, serv09).  Init chooses one of them.                *)
(*                                                                         *)
(* Connections are numbered in the order in which they are established.    *)
(***************************************************************************)
EXTENDS Integers, FiniteSets

CONSTANTS
    NWorkers,   \* nchildren, nthreads
    MaxEst      \* bound: connections

ASSUME PoolAssumption == NWorkers \in Nat \ {0} /\ MaxEst \in Nat

(***************************************************************************)
(* The servers: the lock around accept, whether workers wait in select     *)
(* first, what a worker is, and whether it counts its connections.         *)
(***************************************************************************)
PoolOf(lock, select, kind, metered) ==
    [lock |-> lock, select |-> select, kind |-> kind, metered |-> metered]

child02 == PoolOf("none", "no", "process", "no")
child02l == PoolOf("none", "yes", "process", "no")
child02m == PoolOf("none", "no", "process", "yes")
child03 == PoolOf("fcntl", "no", "process", "no")
child03m == PoolOf("fcntl", "no", "process", "yes")
child04 == PoolOf("pthread", "no", "process", "no")
pthread07 == PoolOf("pthread", "no", "thread", "yes")
pthread09 == PoolOf("none", "no", "thread", "yes")

Pools == {child02, child02l, child02m, child03, child03m, child04, pthread07, pthread09}

VARIABLES
    pool,       \* the server that runs
    boss,       \* the main process or thread
    made,       \* workers it has made; then, those it has sent SIGTERM
    sigterm,    \* the workers that have been sent SIGTERM
    at,         \* where each worker is
    plock,      \* the worker that holds the lock, or 0
    serving,    \* the connection each worker has accepted, or 0
    meter,      \* cptr, or thread_count
    peers,      \* the client's end of each connection
    est, acc    \* connections established, and accepted

parentVars == <<boss, made, sigterm>>
workerVars == <<at, plock, serving, meter>>
peerVars == <<peers, est>>
poolVars == <<pool, parentVars, workerVars, peerVars, acc>>

W == 1 .. NWorkers
K == 1 .. MaxEst

PoolInit ==
    /\ pool \in Pools
    /\ boss = "make" /\ made = 0 /\ sigterm = {}
    /\ at = [i \in W |-> "none"] /\ plock = 0
    /\ serving = [i \in W |-> 0] /\ meter = [i \in W |-> 0]
    /\ peers = [k \in K |-> "none"] /\ est = 0 /\ acc = 0

\* Where a worker is at the head of its loop.
Top == IF pool.lock # "none" THEN "lock" ELSE IF pool.select = "yes" THEN "select" ELSE "accept"

RunningP(i) == at[i] \notin {"none", "dead"}

(***************************************************************************)
(* The clients.                                                            *)
(***************************************************************************)
PeerConnects ==
    /\ est < MaxEst /\ est' = est + 1 /\ peers' = [peers EXCEPT ![est + 1] = "open"]
    /\ UNCHANGED <<pool, parentVars, workerVars, acc>>

\* "bad": a reset, or a line that web_child does not accept.
PeerEnds ==
    /\ \E k \in K, how \in {"fin", "bad"} :
           peers[k] = "open" /\ peers' = [peers EXCEPT ![k] = how]
    /\ UNCHANGED <<pool, parentVars, workerVars, est, acc>>

(***************************************************************************)
(* The main program.                                                       *)
(***************************************************************************)

child_make ==
    /\ boss = "make"
    /\ IF made < NWorkers
       THEN /\ made' = made + 1 /\ at' = [at EXCEPT ![made + 1] = Top]
            /\ UNCHANGED boss
       ELSE made' = 0 /\ boss' = "pause" /\ UNCHANGED at
    /\ UNCHANGED <<pool, sigterm, plock, serving, meter, peerVars, acc>>

\* exit ends the threads; processes are sent SIGTERM one by one.
sig_intP ==
    /\ boss = "pause"
    /\ IF pool.kind = "thread"
       THEN boss' = "exited" /\ at' = [i \in W |-> "dead"]
       ELSE boss' = "kill" /\ UNCHANGED at
    /\ UNCHANGED <<pool, made, sigterm, plock, serving, meter, peerVars, acc>>

KillOne ==
    /\ boss = "kill"
    /\ IF made < NWorkers
       THEN made' = made + 1 /\ sigterm' = sigterm \cup {made + 1} /\ UNCHANGED boss
       ELSE boss' = "wait" /\ UNCHANGED <<made, sigterm>>
    /\ UNCHANGED <<pool, workerVars, peerVars, acc>>

\* while (wait(NULL) > 0); then exit.
WaitAll ==
    /\ boss = "wait" /\ \A i \in W : ~RunningP(i)
    /\ boss' = "exited"
    /\ UNCHANGED <<pool, made, sigterm, workerVars, peerVars, acc>>

serv == child_make \/ KillOne \/ WaitAll

(***************************************************************************)
(* A worker.                                                               *)
(***************************************************************************)
Go(i, from, to) == at[i] = from /\ at' = [at EXCEPT ![i] = to]

my_lock_wait(i) ==
    /\ Go(i, "lock", "accept") /\ plock = 0 /\ plock' = i
    /\ UNCHANGED <<pool, parentVars, serving, meter, peerVars, acc>>

SelectP(i) ==
    /\ Go(i, "select", "accept") /\ acc < est
    /\ UNCHANGED <<pool, parentVars, plock, serving, meter, peerVars, acc>>

AfterAccept == IF pool.lock # "none" THEN "unlock" ELSE "count"

AcceptP(i) ==
    /\ Go(i, "accept", AfterAccept) /\ acc < est
    /\ acc' = acc + 1 /\ serving' = [serving EXCEPT ![i] = acc + 1]
    /\ UNCHANGED <<pool, parentVars, plock, meter, peerVars>>

\* The kernel may drop a connection that has been reset: Accept tries again.
AcceptAgain(i) ==
    /\ at[i] = "accept" /\ acc < est /\ peers[acc + 1] = "bad"
    /\ acc' = acc + 1
    /\ UNCHANGED <<pool, parentVars, workerVars, peerVars>>

\* Mutant: the lock is kept.
my_lock_release_not(i) ==
    /\ Go(i, "unlock", "count")
    /\ UNCHANGED <<pool, parentVars, plock, serving, meter, peerVars, acc>>

my_lock_release(i) ==
    /\ Go(i, "unlock", "count") /\ plock' = 0
    /\ UNCHANGED <<pool, parentVars, serving, meter, peerVars, acc>>

Count(i) ==
    /\ Go(i, "count", "serve")
    /\ meter' = IF pool.metered = "yes" THEN [meter EXCEPT ![i] = @ + 1] ELSE meter
    /\ UNCHANGED <<pool, parentVars, plock, serving, peerVars, acc>>

web_child(i) ==
    /\ Go(i, "serve", Top) /\ peers[serving[i]] = "fin"
    /\ serving' = [serving EXCEPT ![i] = 0]
    /\ UNCHANGED <<pool, parentVars, plock, meter, peerVars, acc>>

\* A worker that exits: a thread takes the process with it; an fcntl lock goes with
\* its process, a mutex in shared memory stays locked.
WorkerDies(i) ==
    /\ RunningP(i)
    /\ IF pool.kind = "thread"
       THEN at' = [j \in W |-> "dead"] /\ boss' = "exited"
       ELSE at' = [at EXCEPT ![i] = "dead"] /\ UNCHANGED boss
    /\ plock' = IF plock = i /\ pool.lock = "fcntl" THEN 0 ELSE plock
    /\ UNCHANGED <<pool, made, sigterm, serving, meter, peerVars, acc>>

\* err_sys in Accept, err_sys or err_quit in web_child; SIGTERM.
FailsInAccept(i) == at[i] = "accept" /\ WorkerDies(i)
FailsInService(i) == at[i] = "serve" /\ peers[serving[i]] = "bad" /\ WorkerDies(i)
TerminatedP(i) == i \in sigterm /\ WorkerDies(i)

pool_main(i) ==
    \/ my_lock_wait(i) \/ SelectP(i) \/ AcceptP(i) \/ AcceptAgain(i) \/ my_lock_release(i)
    \/ Count(i) \/ web_child(i) \/ FailsInService(i) \/ TerminatedP(i)

PoolNext ==
    \/ PeerConnects \/ PeerEnds \/ serv \/ sig_intP
    \/ \E i \in W : pool_main(i) \/ FailsInAccept(i)

PoolSpec == PoolInit /\ [][PoolNext]_poolVars

(***************************************************************************)
(* Properties.                                                             *)
(***************************************************************************)

\* Every variable keeps its type; a worker's count never exceeds what was accepted.
PoolTypeOK ==
    /\ pool \in Pools /\ boss \in {"make", "pause", "kill", "wait", "exited"}
    /\ made \in 0 .. NWorkers /\ sigterm \subseteq W
    /\ at \in [W -> {"none", "lock", "select", "accept", "unlock", "count", "serve", "dead"}]
    /\ plock \in 0 .. NWorkers
    /\ serving \in [W -> 0 .. acc] /\ meter \in [W -> 0 .. acc]
    /\ peers \in [K -> {"none", "open", "fin", "bad"}]
    /\ est \in 0 .. MaxEst /\ acc \in 0 .. est

\* Where there is a lock, only its holder is in accept, also while other workers die.
OneInAccept ==
    pool.lock # "none" => \A i \in W : at[i] \in {"accept", "unlock"} => plock = i

\* The inductive invariant of the pools: a connection is counted after it was accepted,
\* and no server has both a lock and a select.
PoolInv ==
    /\ PoolTypeOK /\ OneInAccept
    /\ \A i \in W :
          /\ at[i] \in {"unlock", "count"} => meter[i] < acc
          /\ at[i] = "select" => pool.lock = "none"

\* A connection is accepted, whatever workers die and wherever, as long as one is left
\* and the server has not been interrupted.  The exception is serv04: a child that ends
\* while it holds the mutex, which is in shared memory, leaves it locked.
Stuck == pool = child04 /\ plock # 0 /\ at[plock] = "dead"
WaitingIsAccepted ==
    \A k \in K :
        est >= k ~> \/ acc >= k
                   \/ boss \in {"kill", "wait", "exited"} \/ Stuck
                   \/ \A i \in W : at[i] = "dead"

\* An interrupted server gets to its end: every child is told to terminate, those that
\* have died already do not keep the loop around wait from finishing.
InterruptEnds == boss = "kill" ~> boss = "exited"
=============================================================================
