------------------------------- MODULE DgCli -------------------------------
(***************************************************************************)
(* The UDP clients of src/unpv13e (bcast, advio, udpcliserv): dg_cli sends *)
(* a line and waits for one reply, or for all replies until a timer runs   *)
(* out.  The versions differ in how the end of the wait reaches the        *)
(* client; Init chooses one of them.  A reply is known by the line it      *)
(* answers and by whether it comes from the address the line was sent to.  *)
(***************************************************************************)
EXTENDS Integers, Sequences, FiniteSets

CONSTANTS
    MaxLine,    \* bound: lines on standard input
    MaxReply    \* bound: replies under way when a line has been broadcast

ASSUME DgCliAssumption == MaxLine \in Nat /\ MaxReply \in Nat

(***************************************************************************)
(* The versions of dg_cli.                                                 *)
(*   call     what the client blocks in                                    *)
(*   timer    what ends the wait: SIGALRM, the call's own timeout, nothing *)
(*   handler  what the handler of SIGALRM does                             *)
(*   mask     "around": SIGALRM is blocked except around the call;         *)
(*            "blocked": it is blocked except inside pselect               *)
(*   replies  "all" are taken until the timer runs out, or "one"           *)
(*   filter   which replies are taken: "compare" drops one after reading   *)
(*            it, "connect" leaves that to the kernel                      *)
(***************************************************************************)
Version(call, timer, handler, block, replies, filter) ==
    [call |-> call, timer |-> timer, handler |-> handler, mask |-> block, replies |-> replies,
     filter |-> filter]

dgclibcast1 == Version("recvfrom", "alarm", "return", "open", "all", "any")
dgclibcast2 == Version("recvfrom", "alarm", "return", "open", "all", "any")
dgclibcast3 == Version("recvfrom", "alarm", "return", "around", "all", "any")
dgclibcast4 == Version("pselect", "alarm", "return", "blocked", "all", "any")
dgclibcast5 == Version("recvfrom", "alarm", "jump", "open", "all", "any")
dgclibcast6 == Version("select", "alarm", "pipe", "open", "all", "any")
dgclitimeo == Version("select", "call", "none", "open", "one", "any")
dgclitimeo1 == Version("select", "call", "none", "open", "one", "any")
dgclitimeo2 == Version("recvfrom", "call", "none", "open", "one", "any")
dgclitimeo3 == Version("recvfrom", "alarm", "return", "open", "one", "any")
dgcliaddr == Version("recvfrom", "none", "none", "open", "one", "compare")
dgcliinetaddr == Version("recvfrom", "none", "none", "open", "one", "any")
dgcliconnect == Version("recvfrom", "none", "none", "open", "one", "connect")

Versions ==
    {dgclibcast1, dgclibcast2, dgclibcast3, dgclibcast4, dgclibcast5, dgclibcast6, dgclitimeo,
     dgclitimeo1, dgclitimeo2, dgclitimeo3, dgcliaddr, dgcliinetaddr, dgcliconnect}

VARIABLES
    ver,            \* the version that runs
    at,             \* where it is
    line,           \* lines sent so far
    got,            \* the reply read and not yet printed, or NoReply
    ready,          \* what select found
    alarmOn, sigs,  \* the alarm clock; signals that wait to be delivered
    mask,           \* blocked signals
    jmpbuf,         \* sigsetjmp has been called
    pipefd,         \* bytes in the pipe
    sockq,          \* replies in the socket's buffer
    flying,         \* replies on the network
    late,           \* lines whose wait ended without a reply of their own
    printed         \* [line, to]: printed after line was sent, the answer to line `to`

sigState == <<alarmOn, sigs, mask, jmpbuf, pipefd>>
dgcliVars == <<ver, at, line, got, ready, sigState, sockq, flying, late, printed>>

Reply == [to : 1 .. MaxLine, from : {"server", "other"}]
NoReply == [to |-> 0, from |-> "server"]
ALRM == {"SIGALRM"}
Many == ver.replies = "all"

DgCliInit ==
    /\ ver \in Versions
    /\ at = "fgets" /\ line = 0 /\ got = NoReply /\ ready = {}
    /\ alarmOn = "off" /\ sigs = {} /\ mask = {} /\ jmpbuf = "unset" /\ pipefd = 0
    /\ sockq = <<>> /\ flying = {} /\ late = {} /\ printed = {}

(***************************************************************************)
(* dg_cli.                                                                 *)
(***************************************************************************)

\* Fgets and Sendto; a broadcast may be answered from several addresses.
Sendto ==
    /\ at = "fgets" /\ line < MaxLine
    /\ line' = line + 1
    /\ \E rs \in SUBSET {r \in Reply : r.to = line + 1} :
           /\ IF Many THEN Cardinality(flying \cup rs) + Len(sockq) <= MaxReply ELSE \A r, q \in rs : r = q
           /\ flying' = flying \cup rs
    /\ mask' = IF ver.mask = "blocked" THEN ALRM ELSE mask
    /\ at' = IF ver.timer = "alarm" THEN "alarm" ELSE "call"
    /\ UNCHANGED <<ver, got, ready, alarmOn, sigs, jmpbuf, pipefd, sockq, late, printed>>

StartAlarm ==
    /\ at = "alarm"
    /\ alarmOn' = "on" /\ at' = "loop"
    /\ UNCHANGED <<ver, line, got, ready, sigs, mask, jmpbuf, pipefd, sockq, flying, late, printed>>

\* The head of for ( ; ; ): SIGALRM is let in, or sigsetjmp is called.
Loop ==
    /\ at = "loop" /\ at' = "call"
    /\ mask' = IF ver.mask = "around" THEN {} ELSE mask
    /\ jmpbuf' = IF ver.handler = "jump" THEN "set" ELSE jmpbuf
    /\ UNCHANGED <<ver, line, got, ready, alarmOn, sigs, pipefd, sockq, flying, late, printed>>

\* The client enters the call that blocks.
Enter ==
    /\ at = "call" /\ at' = "blocked"
    /\ UNCHANGED <<ver, line, got, ready, sigState, sockq, flying, late, printed>>

\* It returns because of the socket or of the pipe.
Returns ==
    /\ at = "blocked" /\ (sockq # <<>> \/ pipefd > 0)
    /\ ready' = (IF sockq # <<>> THEN {"socket"} ELSE {}) \cup (IF pipefd > 0 THEN {"pipe"} ELSE {})
    /\ at' = "read"
    /\ UNCHANGED <<ver, line, got, sigState, sockq, flying, late, printed>>

\* Recvfrom, if the socket was found readable; SIGALRM is blocked again.
Read ==
    /\ at = "read" /\ at' = "print"
    /\ IF "socket" \in ready THEN got' = Head(sockq) /\ sockq' = Tail(sockq)
                             ELSE UNCHANGED <<got, sockq>>
    /\ mask' = IF ver.mask = "around" THEN ALRM ELSE mask
    /\ UNCHANGED <<ver, line, ready, alarmOn, sigs, jmpbuf, pipefd, flying, late, printed>>

\* Whether the reply in got is shown; dgcliaddr compares the addresses.
Shown == got # NoReply /\ (ver.filter = "compare" => got.from = "server")

\* The reply is printed, or ignored; then a byte in the pipe ends the wait, and so
\* does the reply where one is enough: the alarm is turned off there.
Show ==
    /\ at = "print"
    /\ printed' = IF Shown THEN printed \cup {[line |-> line, to |-> got.to]} ELSE printed
    /\ late' = IF ~Many /\ ~Shown THEN late \cup {line} ELSE late
    /\ got' = NoReply /\ ready' = {}
    /\ at' = IF Many /\ "pipe" \notin ready THEN "loop" ELSE "fgets"
    /\ pipefd' = IF "pipe" \in ready THEN pipefd - 1 ELSE pipefd
    /\ alarmOn' = IF ~Many /\ ver.timer = "alarm" THEN "off" ELSE alarmOn
    /\ UNCHANGED <<ver, line, sigs, mask, jmpbuf, sockq, flying>>

\* The call's own timeout: select returns 0, recvfrom fails with EWOULDBLOCK.
CallTimesOut ==
    /\ at = "blocked" /\ ver.timer = "call" /\ sockq = <<>>
    /\ at' = "fgets" /\ late' = late \cup {line}
    /\ UNCHANGED <<ver, line, got, ready, sigState, sockq, flying, printed>>

\* pselect opens the mask while it blocks.  The client does not run on while a signal
\* that is not blocked waits for it.
Deliverable == sigs # {} /\ (mask = {} \/ (ver.call = "pselect" /\ at = "blocked"))

dg_cli ==
    /\ ~Deliverable
    /\ Sendto \/ StartAlarm \/ Loop \/ Enter \/ Returns \/ Read \/ Show \/ CallTimesOut

(***************************************************************************)
(* SIGALRM.                                                                *)
(***************************************************************************)
Expire ==
    /\ alarmOn = "on"
    /\ alarmOn' = "off" /\ sigs' = ALRM
    /\ UNCHANGED <<ver, at, line, got, ready, mask, jmpbuf, pipefd, sockq, flying, late, printed>>

\* The handler just returns: a blocked call fails with EINTR and the wait is over; at
\* any other point nothing happens.
Interrupt ==
    /\ Deliverable /\ ver.handler = "return"
    /\ sigs' = {}
    /\ IF at = "blocked"
       THEN /\ at' = "fgets" /\ late' = late \cup {line}
            /\ mask' = IF ver.mask = "around" THEN ALRM ELSE mask
       ELSE UNCHANGED <<at, late, mask>>
    /\ UNCHANGED <<ver, line, got, ready, alarmOn, jmpbuf, pipefd, sockq, flying, printed>>

\* siglongjmp leaves the wait from wherever the client is; the reply it was about to
\* print is lost.  Before the first sigsetjmp the jump is undefined.
Jump ==
    /\ Deliverable /\ ver.handler = "jump"
    /\ sigs' = {}
    /\ IF jmpbuf = "set" THEN at' = "fgets" ELSE at' = "undefined"
    /\ got' = NoReply /\ ready' = {} /\ late' = late \cup {line}
    /\ UNCHANGED <<ver, line, alarmOn, mask, jmpbuf, pipefd, sockq, flying, printed>>

\* Mutant: the handler of dgclibcast6 only returns.
WritePipe_forgotten ==
    /\ Deliverable /\ ver.handler = "pipe"
    /\ sigs' = {} /\ UNCHANGED pipefd
    /\ at' = IF at = "blocked" THEN "loop" ELSE at
    /\ UNCHANGED <<ver, line, got, ready, alarmOn, mask, jmpbuf, sockq, flying, late, printed>>

\* A byte is written to the pipe; select fails with EINTR and is called again.
WritePipe ==
    /\ Deliverable /\ ver.handler = "pipe"
    /\ sigs' = {} /\ pipefd' = pipefd + 1
    /\ at' = IF at = "blocked" THEN "loop" ELSE at
    /\ UNCHANGED <<ver, line, got, ready, alarmOn, mask, jmpbuf, sockq, flying, late, printed>>

recvfrom_alarm == Interrupt \/ Jump \/ WritePipe

(***************************************************************************)
(* The network: replies arrive in any order, or never.                     *)
(***************************************************************************)
ReplyArrives(r) ==
    /\ flying' = flying \ {r}
    /\ sockq' = IF ver.filter = "connect" /\ r.from # "server" THEN sockq ELSE Append(sockq, r)
    /\ UNCHANGED <<ver, at, line, got, ready, sigState, late, printed>>

DgCliNext == dg_cli \/ Expire \/ recvfrom_alarm \/ \E r \in flying : ReplyArrives(r)

DgCliSpec == DgCliInit /\ [][DgCliNext]_dgcliVars

(***************************************************************************)
(* Properties.                                                             *)
(***************************************************************************)

\* Every variable keeps its type; one alarm per line leaves at most one byte in the pipe.
DgCliTypeOK ==
    /\ ver \in Versions
    /\ at \in {"fgets", "alarm", "loop", "call", "blocked", "read", "print", "undefined"}
    /\ line \in 0 .. MaxLine /\ got \in Reply \cup {NoReply} /\ ready \subseteq {"socket", "pipe"}
    /\ alarmOn \in {"on", "off"} /\ sigs \subseteq ALRM /\ mask \subseteq ALRM
    /\ jmpbuf \in {"set", "unset"} /\ pipefd \in 0 .. 1
    /\ sockq \in Seq(Reply) /\ flying \subseteq Reply
    /\ late \subseteq 1 .. line /\ printed \subseteq [line : 1 .. MaxLine, to : 1 .. MaxLine]

\* The versions whose alarm takes effect wherever it finds the client, and those that do
\* not use SIGALRM to time out.
Robust == {dgclibcast4, dgclibcast6, dgclitimeo, dgclitimeo1, dgclitimeo2}

\* A wait that nothing will end any more.
Hung ==
    /\ at = "blocked" /\ sockq = <<>> /\ pipefd = 0
    /\ alarmOn = "off" /\ sigs = {} /\ ver.timer # "call"

\* The alarm that finds the client between two calls is lost only where the handler does
\* nothing but return and SIGALRM is not blocked there: pselect, siglongjmp and the pipe
\* each close that window.
AlarmNotLost == Hung /\ ver.timer = "alarm" => ver.handler = "return" /\ ver.call = "recvfrom"

\* What is printed for a line answers that line, unless the wait for an earlier line
\* ended before its answer came, or its answer was ignored: every answer after that may
\* be taken for one of a later line.
Covered(n) == \E l \in late : l <= n
OwnReply ==
    \A p \in printed : ~Many /\ p.to # p.line => p.to < p.line /\ Covered(p.to)

\* A late byte in the pipe or a late alarm never ends the wait for the next line.
AlarmIsOwn == at = "fgets" => pipefd = 0 /\ alarmOn = "off" /\ sigs = {}

\* The versions that do not lose the alarm come to the end of their input.
LinesFinish == ver \in Robust => <>(at = "fgets" /\ line = MaxLine)

\* Where the alarm is: in the clock, pending, or a byte in the pipe.
AlarmCount == (IF alarmOn = "on" THEN 1 ELSE 0) + (IF sigs # {} THEN 1 ELSE 0) + pipefd

\* There is one alarm at most, and one for the whole of a wait where it cannot get lost.
AlarmHeld ==
    /\ AlarmCount <= 1 /\ (at = "alarm" => ver.timer = "alarm")
    /\ at \in {"fgets", "alarm"} \/ ver.timer # "alarm" => AlarmCount = 0
    /\ at \in {"loop", "call", "blocked", "read", "print"} /\ ver.timer = "alarm" =>
           AlarmCount = 1 \/ (ver.handler = "return" /\ ver.call = "recvfrom")
    /\ ver.handler # "pipe" => pipefd = 0
    /\ ver.mask = "blocked" /\ at # "fgets" => mask = ALRM
    /\ ver.mask = "open" => mask = {}

\* Where a wait stands: what select found is still there.
WaitOK ==
    /\ at # "fgets" => line > 0
    /\ at \notin {"read", "print"} => ready = {}
    /\ at # "print" => got = NoReply
    /\ "pipe" \in ready => pipefd = 1
    /\ at = "read" /\ "socket" \in ready => sockq # <<>>

\* An answer to line n that may still be printed: it is awaited, or n is covered.
Due(n) == n <= line /\ ((n = line /\ at # "fgets") \/ Covered(n))

\* Where one reply is enough: the answers on their way, and no two of them to this line.
OneReply ==
    /\ \A r \in flying : Due(r.to)
    /\ \A i \in DOMAIN sockq : Due(sockq[i].to)
    /\ got # NoReply => Due(got.to)
    /\ \A r, q \in flying : r.to = line /\ q.to = line => r = q
    /\ \A r \in flying, i \in DOMAIN sockq : r.to = line => sockq[i].to # line
    /\ \A i, j \in DOMAIN sockq : sockq[i].to = line /\ sockq[j].to = line => i = j
    /\ got # NoReply /\ got.to = line =>
           (\A r \in flying : r.to # line) /\ \A i \in DOMAIN sockq : sockq[i].to # line

\* The inductive invariant.
DgCliInv == DgCliTypeOK /\ AlarmHeld /\ WaitOK /\ (~Many => OneReply) /\ OwnReply

\* The UDP clients with a timer: an alarm is neither lost nor taken for a later one
\* (AlarmNotLost, AlarmIsOwn), and a reply is the one to the line (OwnReply), with the
\* invariant this follows from.
DgCliSound == DgCliInv /\ AlarmNotLost /\ AlarmIsOwn
=============================================================================
