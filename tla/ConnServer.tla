----------------------------- MODULE ConnServer -----------------------------
(***************************************************************************)
(* The TCP servers that wait in accept and serve each connection at once,  *)
(* in a child process or in a thread: those of src/unpv13e and of          *)
(* src/scoket编程.  Init chooses one of them.                              *)
(*                                                                         *)
(* Connections are numbered in the order in which they are established.    *)
(***************************************************************************)
EXTENDS Integers, FiniteSets

CONSTANTS
    MaxC,       \* bound: connections
    NSlots      \* elements of the array ttid of server3.c

ASSUME ConnAssumption == MaxC \in Nat /\ NSlots \in Nat

(***************************************************************************)
(* The servers.                                                            *)
(*   kind     who serves a connection: "iterative", "fork", "thread"       *)
(*   reap     what the handler of SIGCHLD waits for: "none", "one", "all"; *)
(*            "late": all, but it is installed after the first fork        *)
(*   intr     an accept that SIGCHLD interrupts: "restarts", "fails"       *)
(*   aborted  an accept whose connection has gone: "retry", "exit"         *)
(*   service  "write": one line, then close; "echo": until the client ends *)
(*   eof, reset   what the service does at the end of file, at a reset:    *)
(*            "close", "exit"; "spin": it reads the end of file for ever    *)
(***************************************************************************)
Server(kind, reap, intr, aborted, service, eof, reset) ==
    [kind |-> kind, reap |-> reap, intr |-> intr, aborted |-> aborted, service |-> service,
     eof |-> eof, reset |-> reset]

Iterative(service) == Server("iterative", "none", "restarts", "retry", service, "close", "exit")
Fork(reap, aborted) == Server("fork", reap, "restarts", aborted, "echo", "close", "exit")
Thread == Server("thread", "none", "restarts", "retry", "echo", "close", "exit")

daytimetcpsrv == Iterative("write")
daytimetcpsrv1 == Iterative("write")
daytimetcpsrv2 == Iterative("write")
daytimetcpsrv3 == Iterative("write")
daytimetcpsrvv6 == Iterative("write")
names_daytimetcpsrv1 == Iterative("write")
names_daytimetcpsrv2 == Iterative("write")
names_daytimetcpsrv3 == Iterative("write")
names_daytimetcpsrv4 == Iterative("write")
inetd_daytimetcpsrv2 == Iterative("write")
serv00 == Iterative("echo")
tcpserv01 == Fork("none", "retry")
tcpserv02 == Fork("one", "retry")
tcpserv03 == Fork("one", "exit")
tcpserv04 == Fork("all", "exit")
tcpserv08 == Fork("all", "exit")
tcpserv09 == Fork("all", "exit")
serv01 == Fork("all", "exit")
unixstrserv01 == Fork("all", "exit")
unixstrserv02 == Fork("all", "exit")
advio_tcpserv02 == Fork("all", "exit")
oob_tcpserv02 == Fork("all", "exit")
ipopts_tcpserv01 == Fork("all", "exit")
serv06 == Thread
threads_tcpserv01 == Thread
threads_tcpserv02 == Thread
sctpserv_fork == Fork("none", "retry")

\* The servers of src/scoket编程 do not look at a read error; the read after it returns 0.
server1 == Server("iterative", "none", "restarts", "exit", "echo", "spin", "spin")
server2 == Server("fork", "late", "fails", "exit", "echo", "close", "close")
server3 == Server("thread", "none", "restarts", "exit", "echo", "close", "close")

Servers ==
    {daytimetcpsrv, daytimetcpsrv1, daytimetcpsrv2, daytimetcpsrv3, daytimetcpsrvv6,
     names_daytimetcpsrv1, names_daytimetcpsrv2, names_daytimetcpsrv3, names_daytimetcpsrv4,
     inetd_daytimetcpsrv2, serv00, tcpserv01, tcpserv02, tcpserv03, tcpserv04, tcpserv08,
     tcpserv09, serv01, unixstrserv01, unixstrserv02, advio_tcpserv02, oob_tcpserv02,
     ipopts_tcpserv01, serv06, threads_tcpserv01, threads_tcpserv02, sctpserv_fork, server1,
     server2, server3}

VARIABLES
    srv,            \* the server that runs
    main,           \* where its main loop is
    client,         \* the client's end of each connection
    established,    \* connections so far
    acceptedC,      \* those taken from the listening socket
    holders,        \* the processes that have each connection open
    worker,         \* the child or thread made for each connection
    arg,            \* what each thread's argument points to
    serves,         \* the connection each worker serves
    sigchld, installed

worldVars == <<client, established>>
connVars == <<srv, main, worldVars, acceptedC, holders, worker, arg, serves, sigchld, installed>>

C == 1 .. MaxC
cur == acceptedC

ConnInit ==
    /\ srv \in Servers
    /\ main = "accept" /\ client = [k \in C |-> "none"] /\ established = 0 /\ acceptedC = 0
    /\ holders = [k \in C |-> {}] /\ worker = [k \in C |-> "none"]
    /\ arg = [k \in C |-> 0] /\ serves = [k \in C |-> 0]
    /\ sigchld = {}
    /\ installed = IF srv.reap \in {"one", "all"} THEN "yes" ELSE "no"

Up == main \notin {"dead", "undefined"}

(***************************************************************************)
(* The clients.                                                            *)
(***************************************************************************)
Establish ==
    /\ established < MaxC
    /\ established' = established + 1 /\ client' = [client EXCEPT ![established + 1] = "open"]
    /\ UNCHANGED <<srv, main, acceptedC, holders, worker, arg, serves, sigchld, installed>>

ClientEnds ==
    /\ \E k \in C, how \in {"fin", "rst"} :
           client[k] = "open" /\ client' = [client EXCEPT ![k] = how]
    /\ UNCHANGED <<srv, main, established, acceptedC, holders, worker, arg, serves, sigchld, installed>>

(***************************************************************************)
(* The main loop.                                                          *)
(***************************************************************************)
AcceptC ==
    /\ main = "accept" /\ acceptedC < established
    /\ acceptedC' = acceptedC + 1
    /\ holders' = [holders EXCEPT ![acceptedC + 1] = {"parent"}]
    /\ main' = IF srv.kind = "iterative" THEN "serve" ELSE "start"
    /\ UNCHANGED <<srv, worldVars, worker, arg, serves, sigchld, installed>>

\* The kernel may drop a connection that has been reset: accept fails.
AcceptAborted ==
    /\ main = "accept" /\ acceptedC < established /\ client[acceptedC + 1] = "rst"
    /\ acceptedC' = acceptedC + 1
    /\ main' = IF srv.aborted = "exit" THEN "dead" ELSE "accept"
    /\ UNCHANGED <<srv, worldVars, holders, worker, arg, serves, sigchld, installed>>

\* The child has copies of the parent's descriptors.
ForkChild ==
    /\ main = "start" /\ srv.kind = "fork"
    /\ worker' = [worker EXCEPT ![cur] = "start"]
    /\ holders' = [holders EXCEPT ![cur] = @ \cup {"child"}]
    /\ main' = "close"
    /\ UNCHANGED <<srv, worldVars, acceptedC, arg, serves, sigchld, installed>>

\* server2.c installs its handler here, in the parent, after each fork.
ParentCloses ==
    /\ main = "close" /\ main' = "accept"
    /\ holders' = [holders EXCEPT ![cur] = @ \ {"parent"}]
    /\ installed' = IF srv.reap = "late" THEN "yes" ELSE installed
    /\ UNCHANGED <<srv, worldVars, acceptedC, worker, arg, serves, sigchld>>

\* The array element, allocated integer or argument that belongs to a thread.
Element(k) == k

\* server3.c does not look whether the array has another element.
CreateThread ==
    /\ main = "start" /\ srv.kind = "thread"
    /\ IF srv = server3 /\ cur > NSlots
       THEN main' = "undefined" /\ UNCHANGED <<worker, arg>>
       ELSE /\ arg' = [arg EXCEPT ![Element(cur)] = cur]
            /\ worker' = [worker EXCEPT ![cur] = "start"]
            /\ main' = "accept"
    /\ UNCHANGED <<srv, worldVars, acceptedC, holders, serves, sigchld, installed>>

(***************************************************************************)
(* The service.  Outcome(k): what serving connection k comes to.           *)
(***************************************************************************)
Outcome(k) ==
    IF client[k] = "rst" THEN srv.reset
    ELSE IF srv.service = "write" THEN "close"
    ELSE IF client[k] = "fin" THEN srv.eof
    ELSE "waits"

\* After("exit"): an iterative server is ended by the reset of the client it serves.
After(outcome) == [close |-> "accept", exit |-> "dead", spin |-> "spin"][outcome]

ServeHere ==
    /\ main = "serve" /\ Outcome(cur) # "waits"
    /\ main' = After(Outcome(cur))
    /\ holders' = [holders EXCEPT ![cur] = IF main' = "spin" THEN @ ELSE {}]
    /\ UNCHANGED <<srv, worldVars, acceptedC, worker, arg, serves, sigchld, installed>>

StartWorker(k) ==
    /\ worker[k] = "start"
    /\ worker' = [worker EXCEPT ![k] = "serve"]
    /\ serves' = [serves EXCEPT ![k] = IF srv.kind = "thread" THEN arg[Element(k)] ELSE k]
    /\ UNCHANGED <<srv, main, worldVars, acceptedC, holders, arg, sigchld, installed>>

\* A child exits, in whatever way; SIGCHLD is dropped unless there is a handler.
ChildExits(k) ==
    /\ srv.kind = "fork" /\ worker[k] = "serve" /\ Outcome(serves[k]) \in {"close", "exit"}
    /\ worker' = [worker EXCEPT ![k] = "zombie"]
    /\ holders' = [holders EXCEPT ![k] = @ \ {"child"}]
    /\ sigchld' = IF installed = "yes" THEN {"SIGCHLD"} ELSE sigchld
    /\ UNCHANGED <<srv, main, worldVars, acceptedC, arg, serves, installed>>

\* A thread closes its connection and returns, or ends the whole process.
ThreadEnds(k) ==
    /\ srv.kind = "thread" /\ worker[k] = "serve" /\ Outcome(serves[k]) \in {"close", "exit"}
    /\ IF Outcome(serves[k]) = "close"
       THEN /\ worker' = [worker EXCEPT ![k] = "gone"]
            /\ holders' = [holders EXCEPT ![serves[k]] = {}]
            /\ UNCHANGED main
       ELSE main' = "dead" /\ UNCHANGED <<worker, holders>>
    /\ UNCHANGED <<srv, worldVars, acceptedC, arg, serves, sigchld, installed>>

(***************************************************************************)
(* The handler of SIGCHLD.                                                 *)
(***************************************************************************)
Zombies == {k \in C : worker[k] = "zombie"}

\* Mutant: one child per signal.
Reaped_one == {z \in SUBSET Zombies : Cardinality(z) = 1}

\* wait returns one of them, the waitpid loop leaves none.
Reaped == IF srv.reap = "one" THEN {{z} : z \in Zombies} ELSE {Zombies}

sig_chld ==
    /\ Up /\ sigchld # {} /\ sigchld' = {}
    /\ \E z \in Reaped : worker' = [k \in C |-> IF k \in z THEN "gone" ELSE worker[k]]
    /\ main' = IF srv.intr = "fails" /\ main = "accept" /\ acceptedC = established THEN "dead" ELSE main
    /\ UNCHANGED <<srv, worldVars, acceptedC, holders, arg, serves, installed>>

mainLoop == AcceptC \/ AcceptAborted \/ ForkChild \/ ParentCloses \/ CreateThread \/ ServeHere
workerRuns(k) ==
    /\ srv.kind = "thread" => Up
    /\ StartWorker(k) \/ ChildExits(k) \/ ThreadEnds(k)

ConnNext == Establish \/ ClientEnds \/ mainLoop \/ sig_chld \/ \E k \in C : workerRuns(k)
ConnSpec == ConnInit /\ [][ConnNext]_connVars

(***************************************************************************)
(* Properties.                                                             *)
(***************************************************************************)

\* Every worker serves the connection it was made for, however late it starts.
ServesItsOwn == \A k \in C : serves[k] \in {0, k}

\* The loop around waitpid leaves no zombie once SIGCHLD has been handled, although
\* several children may have ended for one signal.
NoZombies == srv.reap = "all" /\ Up /\ sigchld = {} => Zombies = {}

\* A server ends only through a client's reset (where it serves connections itself or in
\* threads, or does not expect accept to fail), or as server2.c does through a signal
\* that interrupts accept.
ServerSurvives ==
    main = "dead" =>
        \/ srv = server2
        \/ (srv.kind # "fork" \/ srv.aborted = "exit") /\ \E k \in C : client[k] = "rst"

\* The inductive invariant: what main is about to do fits the server, and a thread's
\* argument is its own when it starts.
ConnInv ==
    /\ srv \in Servers
    /\ main \in {"accept", "start", "close", "serve", "spin", "dead", "undefined"}
    /\ client \in [C -> {"none", "open", "fin", "rst"}] /\ worker \in [C -> {"none", "start", "serve", "zombie", "gone"}]
    /\ arg \in [C -> Nat] /\ serves \in [C -> Nat] /\ sigchld \subseteq {"SIGCHLD"} /\ installed \in {"yes", "no"}
    /\ established \in 0 .. MaxC /\ acceptedC \in 0 .. established
    /\ main \in {"start", "close", "serve"} => cur \in C
    /\ main = "serve" => srv.kind = "iterative"
    /\ srv.reap = "all" => installed = "yes"
    /\ \A k \in C :
          /\ k > established => client[k] = "none"
          /\ worker[k] = "start" /\ srv.kind = "thread" => arg[k] = k
          /\ worker[k] = "serve" => serves[k] = k
    /\ ServesItsOwn /\ NoZombies /\ ServerSurvives

\* A connection whose client has ended is closed, unless the server has ended or is
\* server1.c, which never tests for the end of file.
EndedIsClosed ==
    \A k \in C :
        client[k] \in {"fin", "rst"} ~> (acceptedC >= k /\ holders[k] = {}) \/ ~Up \/ srv = server1
=============================================================================
