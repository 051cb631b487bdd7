------------------------------ MODULE PassFd ------------------------------
(***************************************************************************)
(* src/unpv13e/server/serv05.c and child05.c: the parent accepts           *)
(* connections and passes each one to a child that is available; the child *)
(* writes a byte to say that it is ready again.  A child's end of its      *)
(* stream pipe is also its standard error: when it ends in err_quit, the   *)
(* message goes to the parent.                                             *)
(***************************************************************************)
EXTENDS Integers, FiniteSets

CONSTANTS
    nchildren,
    MsgLen,     \* bytes of the message of err_quit
    MaxConn     \* bound: connections

ASSUME PassAssumption == nchildren \in Nat \ {0} /\ MsgLen \in Nat /\ MaxConn \in Nat

Kid == 1 .. nchildren
listenfd == 0

VARIABLES
    child_status,   \* 0: available, 1: busy
    navail,
    parent,         \* where the parent is, or why it has ended
    rset,           \* what select found and the parent has not yet looked at
    offered,        \* connections so far
    backlog,        \* connections that wait to be accepted
    toChild,        \* connections passed to each child and not yet read
    toParent,       \* bytes in each stream pipe for the parent
    kid             \* where each child is

passVars == <<child_status, navail, parent, rset, offered, backlog, toChild, toParent, kid>>

PassInit ==
    /\ child_status = [c \in Kid |-> 0] /\ navail = nchildren
    /\ parent = "select" /\ rset = {} /\ offered = 0 /\ backlog = 0
    /\ toChild = [c \in Kid |-> 0] /\ toParent = [c \in Kid |-> 0]
    /\ kid = [c \in Kid |-> "read_fd"]

(***************************************************************************)
(* The parent.  nsel is the number of elements of rset.                    *)
(***************************************************************************)
Readable ==
    (IF navail > 0 /\ backlog > 0 THEN {listenfd} ELSE {})
        \cup {c \in Kid : toParent[c] > 0 \/ kid[c] = "dead"}

\* Mutant: the listening socket stays on when no child is available.
Select_always_on ==
    /\ parent = "select"
    /\ rset' = Readable \cup (IF backlog > 0 THEN {listenfd} ELSE {}) /\ rset' # {}
    /\ parent' = IF listenfd \in rset' THEN "accept" ELSE "scan"
    /\ UNCHANGED <<child_status, navail, offered, backlog, toChild, toParent, kid>>

Select ==
    /\ parent = "select"
    /\ rset' = Readable /\ rset' # {}
    /\ parent' = IF listenfd \in rset' THEN "accept" ELSE "scan"
    /\ UNCHANGED <<child_status, navail, offered, backlog, toChild, toParent, kid>>

Free == {c \in Kid : child_status[c] = 0}
Lowest(c, S) == c \in S /\ \A d \in S : c <= d
AfterOne == IF rset' = {} THEN "select" ELSE "scan"

\* The child is marked as busy and the connection written to its pipe; if the child has
\* ended, that write ends the parent.
Assign(c) ==
    /\ child_status' = [child_status EXCEPT ![c] = 1] /\ navail' = navail - 1
    /\ toChild' = [toChild EXCEPT ![c] = @ + 1]
    /\ parent' = IF kid[c] = "dead" THEN "sigpipe" ELSE AfterOne

\* Accept blocks again if the connection has gone in the meantime.
AcceptPass ==
    /\ parent = "accept" /\ backlog > 0
    /\ backlog' = backlog - 1 /\ rset' = rset \ {listenfd}
    /\ \/ \E c \in Free : Lowest(c, Free) /\ Assign(c)
       \/ Free = {} /\ parent' = "none_available" /\ UNCHANGED <<child_status, navail, toChild>>
    /\ UNCHANGED <<offered, toParent, kid>>

\* A byte from a child: it is available again.  End of file: it has ended.
ScanChild(c) ==
    /\ parent = "scan" /\ Lowest(c, rset)
    /\ rset' = rset \ {c}
    /\ IF toParent[c] = 0
       THEN parent' = "child_terminated" /\ UNCHANGED <<child_status, navail, toParent>>
       ELSE /\ toParent' = [toParent EXCEPT ![c] = @ - 1]
            /\ child_status' = [child_status EXCEPT ![c] = 0] /\ navail' = navail + 1
            /\ parent' = AfterOne
    /\ UNCHANGED <<offered, backlog, toChild, kid>>

Running == parent \in {"select", "accept", "scan"}

\* SIGINT: all children are killed and waited for.
sig_int05 ==
    /\ Running /\ parent' = "exited"
    /\ kid' = [c \in Kid |-> "dead"]
    /\ UNCHANGED <<child_status, navail, rset, offered, backlog, toChild, toParent>>

(***************************************************************************)
(* A child.                                                                *)
(***************************************************************************)
ReadFd(c) ==
    /\ kid[c] = "read_fd" /\ toChild[c] > 0
    /\ toChild' = [toChild EXCEPT ![c] = @ - 1] /\ kid' = [kid EXCEPT ![c] = "web_child"]
    /\ UNCHANGED <<child_status, navail, parent, rset, offered, backlog, toParent>>

ServePass(c) ==
    /\ kid[c] = "web_child"
    /\ kid' = [kid EXCEPT ![c] = "write"]
    /\ UNCHANGED <<child_status, navail, parent, rset, offered, backlog, toChild, toParent>>

Ready(c) ==
    /\ kid[c] = "write"
    /\ toParent' = [toParent EXCEPT ![c] = @ + 1] /\ kid' = [kid EXCEPT ![c] = "read_fd"]
    /\ UNCHANGED <<child_status, navail, parent, rset, offered, backlog, toChild>>

\* web_child ends the child: a request out of range, or a reset connection.
Dies(c) ==
    /\ kid[c] = "web_child"
    /\ toParent' = [toParent EXCEPT ![c] = @ + MsgLen] /\ kid' = [kid EXCEPT ![c] = "dead"]
    /\ UNCHANGED <<child_status, navail, parent, rset, offered, backlog, toChild>>

\* Read_fd returns 0 once nobody holds the other end of the pipe: every child forked
\* later has a copy of it.
Orphaned(c) ==
    /\ ~Running /\ kid[c] = "read_fd" /\ toChild[c] = 0
    /\ \A d \in Kid : d > c => kid[d] = "dead"
    /\ kid' = [kid EXCEPT ![c] = "dead"]
    /\ UNCHANGED <<child_status, navail, parent, rset, offered, backlog, toChild, toParent>>

(***************************************************************************)
(* The clients connect, and may reset a connection before it is accepted.  *)
(***************************************************************************)
Connect ==
    /\ offered < MaxConn
    /\ offered' = offered + 1 /\ backlog' = backlog + 1
    /\ UNCHANGED <<child_status, navail, parent, rset, toChild, toParent, kid>>

Reset ==
    /\ backlog > 0 /\ backlog' = backlog - 1
    /\ UNCHANGED <<child_status, navail, parent, rset, offered, toChild, toParent, kid>>

main05 == Select \/ AcceptPass \/ \E c \in Kid : ScanChild(c)
child_main(c) == ReadFd(c) \/ ServePass(c) \/ Ready(c) \/ Orphaned(c)

PassNext ==
    \/ main05 \/ sig_int05 \/ Connect \/ Reset
    \/ \E c \in Kid : child_main(c) \/ Dies(c)
PassSpec == PassInit /\ [][PassNext]_passVars

(***************************************************************************)
(* Properties.                                                             *)
(***************************************************************************)

\* Every variable keeps its type.
PassTypeOK ==
    /\ child_status \in [Kid -> {0, 1}] /\ navail \in Int
    /\ parent \in {"select", "accept", "scan", "exited", "none_available", "child_terminated", "sigpipe"}
    /\ rset \subseteq Kid \cup {listenfd}
    /\ offered \in Nat /\ backlog \in Nat
    /\ toChild \in [Kid -> Nat] /\ toParent \in [Kid -> Nat]
    /\ kid \in [Kid -> {"read_fd", "web_child", "write", "dead"}]

AllAlive == \A c \in Kid : kid[c] # "dead"
Working(c) == IF kid[c] \in {"web_child", "write"} THEN 1 ELSE 0

\* While all children live: navail is the number of children marked as available, and a
\* child is marked as busy exactly while its connection is on the way to it, being
\* served, or its byte is on the way back.
NavailCounts ==
    AllAlive =>
        /\ navail = Cardinality(Free)
        /\ \A c \in Kid : child_status[c] = toChild[c] + Working(c) + toParent[c]

\* The parent ends only after a child has: it never finds that no child is available.
ParentKeepsRunning == AllAlive => Running

\* What the parent has read from select is still true when it acts on it.
SelectIsFresh ==
    AllAlive =>
        /\ parent = "accept" => navail > 0
        /\ listenfd \in rset <=> parent = "accept"
        /\ \A c \in rset \ {listenfd} : toParent[c] > 0

\* Inductive.
PassInv == PassTypeOK /\ NavailCounts /\ ParentKeepsRunning /\ SelectIsFresh

\* The assertion of serv05.c holds: a connection is accepted only when a child is marked
\* as available.  A child that ends makes navail too large, for its last message goes to
\* the parent, who counts a child that is ready for every byte; but it is then marked as
\* available itself, and the parent ends when it writes to it.
SomeChildAvailable == parent # "none_available"

\* The same as an invariant of every step: navail is right, or a child that has ended is
\* still marked as available.
AvailableIsFree ==
    /\ SomeChildAvailable
    /\ Running =>
           /\ parent = "accept" => navail > 0
           /\ \A c \in Kid : kid[c] # "dead" => child_status[c] = toChild[c] + Working(c) + toParent[c]
           /\ navail = Cardinality(Free) \/ \E c \in Free : kid[c] = "dead"

\* A connection is accepted, unless the client or a child has gone.
BacklogServed ==
    \A k \in 1 .. MaxConn : offered >= k ~> offered - backlog >= k \/ ~AllAlive

\* Once the parent has ended, all children end.
ChildrenEnd == [](~Running => <>(\A c \in Kid : kid[c] = "dead"))
=============================================================================
