------------------------------ MODULE Alarms ------------------------------
(***************************************************************************)
(* Programs of src/unpv13e that an alarm drives and may interrupt anywhere: *)
(* the two pings of ping, the one of the book and the BSD one, and         *)
(* udpcksum.                                                               *)
(***************************************************************************)
EXTENDS Integers, Sequences, FiniteSets, Functions

(***************************************************************************)
(* src/unpv13e/ping: the handler of SIGALRM sends an echo request every    *)
(* second, readloop receives what comes to the raw socket, which is every  *)
(* ICMP message for this host, and proc_v4 or proc_v6 shows the replies.   *)
(***************************************************************************)

CONSTANT PgMax      \* bound: requests sent

VARIABLES
    pgProto,    \* "v4" or "v6"
    pgVerbose,  \* 0 or 1
    pgAt,       \* "recvmsg", "fproc", "gone"
    pgAlarm,    \* the alarm is set: 0 or 1
    pgSent,     \* nsent
    pgQueue,    \* the messages at the raw socket, in order
    pgMsg,      \* the message fproc looks at
    pgCame,     \* our replies that have come to the socket
    pgShown     \* the messages printed as replies

pgVars == <<pgProto, pgVerbose, pgAt, pgAlarm, pgSent, pgQueue, pgMsg, pgCame, pgShown>>

\* A message: its type, its ICMP identifier, that of this process ("pid"), the same 16
\* bits used by a process other than this ("same"), another ("other"), its sequence
\* number, and whether it has the 16 bytes a reply of ours has.
PgMsg(type, id, seq, long) == [type |-> type, id |-> id, seq |-> seq, long |-> long]
PgForeign ==
    {PgMsg("reply", "same", 1, TRUE), PgMsg("reply", "other", 1, TRUE),
     PgMsg("reply", "pid", 0, FALSE), PgMsg("request", "pid", 1, TRUE)}
PgNone == PgMsg("none", "other", 0, FALSE)

PgInit ==
    /\ pgProto \in {"v4", "v6"} /\ pgVerbose \in {0, 1}
    /\ pgAt = "recvmsg" /\ pgAlarm = 1 /\ pgSent = 1
    /\ pgQueue = <<>> /\ pgMsg = PgNone /\ pgCame = {} /\ pgShown = {}

\* init_v6: unless verbose, the filter passes echo replies only.
init_v6(m) == m.type = "reply"
PgPasses(m) == (pgProto = "v6" /\ pgVerbose = 0) => init_v6(m)

\* Request k carries pid and nsent, and 56 bytes; the answer has the same.
send_v4(k) == PgMsg("request", "pid", k, TRUE)
send_v6(k) == PgMsg("request", "pid", k, TRUE)
PgReply(k) == [(IF pgProto = "v4" THEN send_v4(k) ELSE send_v6(k)) EXCEPT !.type = "reply"]

\* A reply to a request comes, or comes again; or another message does.
PgArrives ==
    /\ Len(pgQueue) < 2
    /\ \/ \E k \in 1 .. pgSent :
              pgQueue' = Append(pgQueue, PgReply(k)) /\ pgCame' = pgCame \union {PgReply(k)}
       \/ \E m \in PgForeign : PgPasses(m) /\ pgQueue' = Append(pgQueue, m) /\ UNCHANGED pgCame
    /\ UNCHANGED <<pgProto, pgVerbose, pgAt, pgAlarm, pgSent, pgMsg, pgShown>>

\* fsend, then alarm(1).  It may run over fproc.
ping_sig_alrm ==
    /\ pgAlarm = 1 /\ pgAt # "gone" /\ pgSent < PgMax
    /\ pgSent' = pgSent + 1 /\ pgAlarm' = 1
    /\ UNCHANGED <<pgProto, pgVerbose, pgAt, pgQueue, pgMsg, pgCame, pgShown>>

\* recvmsg returns a message; EINTR changes nothing.
PgReceives ==
    /\ pgAt = "recvmsg" /\ pgQueue # <<>>
    /\ pgMsg' = Head(pgQueue) /\ pgQueue' = Tail(pgQueue)
    /\ pgAt' = "fproc"
    /\ UNCHANGED <<pgProto, pgVerbose, pgAlarm, pgSent, pgCame, pgShown>>

\* Of an echo reply, the identifier is compared, in 16 bits, and the length.
proc_v4(m) == m.type = "reply" /\ m.id \in {"pid", "same"} /\ m.long
proc_v6(m) == m.type = "reply" /\ m.id \in {"pid", "same"} /\ m.long
PgIsOurs(m) == IF pgProto = "v4" THEN proc_v4(m) ELSE proc_v6(m)

PgProcess ==
    /\ pgAt = "fproc"
    /\ pgShown' = IF PgIsOurs(pgMsg) THEN pgShown \union {pgMsg} ELSE pgShown
    /\ pgAt' = "recvmsg" /\ pgMsg' = PgNone
    /\ UNCHANGED <<pgProto, pgVerbose, pgAlarm, pgSent, pgQueue, pgCame>>

PgRuns == PgReceives \/ PgProcess
PgNext == PgArrives \/ ping_sig_alrm \/ PgRuns

(***************************************************************************)
(* Properties.                                                             *)
(***************************************************************************)

\* What is shown is a reply to a request this process has sent, or the reply to a
\* process whose number has the same low 16 bits.
PgShowsOwn == \A m \in pgShown : m.id = "same" \/ (m \in pgCame /\ m.seq <= pgSent)

\* Requests go out for as long as the program runs, whatever is received meanwhile.
PgKeepsSending == <>(pgSent = PgMax)

\* Every reply that has come to the socket is shown, whatever comes in between.
PgShowsAll ==
    \A k \in 1 .. PgMax : PgReply(k) \in pgCame ~> PgReply(k) \in pgShown

(***************************************************************************)
(* The BSD ping kept in src/unpv13e/ping/bsdping.c: SIGALRM sends the      *)
(* requests and in the end stops the program, while main receives replies  *)
(* and tells first ones from duplicates by a table of bits, which sending  *)
(* clears.  With -f main sends as well as receives, and there is no alarm. *)
(*                                                                         *)
(* Requests are numbered from 0.  Other ICMP messages change nothing and   *)
(* stand for recvfrom returning without a reply of ours.                   *)
(***************************************************************************)

CONSTANTS
    BpDupCk,    \* mx_dup_ck, scaled down: sequence numbers before they repeat
    BpMax,      \* bound: requests sent
    BpArgs      \* records of npackets, preload and flood

ASSUME BpAssumption == BpDupCk \in Nat \ {0} /\ BpMax \in Nat

VARIABLES
    bpArg,
    bpAt, bpSeq,    \* where main is, and the reply in its hands
    bpTbl, bpByte,  \* rcvd_tbl: the bits set; main's copy of the byte in SET
    ntransmitted, nreceived, nrepeats,
    bpOnAlarm,      \* the handler of SIGALRM: "none", "onalrm" or "onint"
    bpNet,          \* how often each request has been answered without being received
    bpAnswered,     \* how often each request has been answered
    bpGot,          \* the requests a reply to which has been received
    bpSaid          \* what the last summary says, and where main was

bpVars == <<bpArg, bpAt, bpSeq, bpTbl, bpByte, ntransmitted, nreceived, nrepeats, bpOnAlarm, bpNet,
            bpAnswered, bpGot, bpSaid>>
bpCounts == <<ntransmitted, nreceived, nrepeats>>

BpRequest == 0 .. BpMax - 1

BpInit ==
    /\ bpArg \in BpArgs
    /\ bpAt = "preload" /\ bpSeq = 0 /\ bpTbl = {} /\ bpByte = {}
    /\ ntransmitted = 0 /\ nreceived = 0 /\ nrepeats = 0
    /\ bpOnAlarm = "none" /\ bpGot = {} /\ bpSaid = <<"nothing", "preload">>
    /\ bpNet = [n \in BpRequest |-> 0] /\ bpAnswered = [n \in BpRequest |-> 0]

\* A reply comes, or a second one.
BpReply ==
    /\ bpAt # "gone"
    /\ \E n \in BpRequest :
        /\ n < ntransmitted /\ bpAnswered[n] < 2
        /\ bpNet' = [bpNet EXCEPT ![n] = @ + 1] /\ bpAnswered' = [bpAnswered EXCEPT ![n] = @ + 1]
    /\ UNCHANGED <<bpArg, bpAt, bpSeq, bpTbl, bpByte, bpCounts, bpOnAlarm, bpGot, bpSaid>>

pinger == ntransmitted' = ntransmitted + 1 /\ bpTbl' = bpTbl \ {ntransmitted % BpDupCk}

\* "received" exceeds "transmitted", or a percentage of loss.
summary == IF nreceived > ntransmitted THEN "printing up packets" ELSE "loss"

BpStays == UNCHANGED <<bpArg, bpNet, bpAnswered, bpGot>>

(***************************************************************************)
(* SIGALRM.                                                                *)
(***************************************************************************)

BpMore == bpArg.npackets = 0 \/ ntransmitted < bpArg.npackets

onalrm ==
    /\ bpOnAlarm = "onalrm" /\ bpAt # "gone"
    /\ IF BpMore THEN ntransmitted < BpMax /\ pinger /\ UNCHANGED bpOnAlarm
                 ELSE bpOnAlarm' = "onint" /\ UNCHANGED <<ntransmitted, bpTbl>>
    /\ BpStays /\ UNCHANGED <<bpAt, bpSeq, bpByte, nreceived, nrepeats, bpSaid>>

\* onint, by the last alarm or by SIGINT: the program ends where main is.
BpStop == bpAt' = "gone" /\ bpSaid' = <<summary, bpAt>>

onint ==
    /\ bpAt \notin {"preload", "gone"} /\ BpStop
    /\ BpStays /\ UNCHANGED <<bpSeq, bpTbl, bpByte, bpCounts, bpOnAlarm>>

(***************************************************************************)
(* main and pr_pack.                                                       *)
(***************************************************************************)
BpMain(from, to) == bpAt = from /\ bpAt' = to

BpPreload ==
    /\ IF ntransmitted < bpArg.preload THEN pinger /\ BpMain("preload", "preload") /\ UNCHANGED bpOnAlarm
       ELSE /\ BpMain("preload", "loop") /\ UNCHANGED <<ntransmitted, bpTbl>>
            /\ bpOnAlarm' = IF bpArg.flood = "yes" THEN "none" ELSE "onalrm"
    /\ BpStays /\ UNCHANGED <<bpSeq, bpByte, nreceived, nrepeats, bpSaid>>

\* With -f another request, then select: there may be nothing to receive.
BpLoop ==
    /\ IF bpArg.flood = "yes" THEN ntransmitted < BpMax /\ pinger ELSE UNCHANGED <<ntransmitted, bpTbl>>
    /\ BpMain("loop", "recv") \/ (bpArg.flood = "yes" /\ BpMain("loop", "loop"))
    /\ BpStays /\ UNCHANGED <<bpSeq, bpByte, nreceived, nrepeats, bpOnAlarm, bpSaid>>

\* recvfrom returns a reply, which is counted first, or something else.
BpRecv ==
    /\ \/ \E n \in BpRequest :
            /\ bpNet[n] > 0 /\ bpNet' = [bpNet EXCEPT ![n] = @ - 1]
            /\ nreceived' = nreceived + 1 /\ bpSeq' = n /\ bpGot' = bpGot \cup {n}
            /\ BpMain("recv", "TST")
       \/ BpMain("recv", "check") /\ UNCHANGED <<bpNet, nreceived, bpSeq, bpGot>>
    /\ UNCHANGED <<bpArg, bpTbl, bpByte, ntransmitted, nrepeats, bpOnAlarm, bpAnswered, bpSaid>>

\* A bit that is set makes it a duplicate; otherwise SET begins, with the byte it reads.
BpTst ==
    /\ IF bpSeq % BpDupCk \in bpTbl THEN BpMain("TST", "repeat") /\ UNCHANGED bpByte
                                    ELSE BpMain("TST", "SET") /\ bpByte' = bpTbl
    /\ BpStays /\ UNCHANGED <<bpSeq, bpTbl, bpCounts, bpOnAlarm, bpSaid>>

BpRepeat ==
    /\ BpMain("repeat", "check") /\ nrepeats' = nrepeats + 1 /\ nreceived' = nreceived - 1
    /\ BpStays /\ UNCHANGED <<bpSeq, bpTbl, bpByte, ntransmitted, bpOnAlarm, bpSaid>>

\* Mutant: the bit is not set.
BpSet_not ==
    /\ BpMain("SET", "check")
    /\ BpStays /\ UNCHANGED <<bpSeq, bpTbl, bpByte, bpCounts, bpOnAlarm, bpSaid>>

\* SET writes the byte: in one instruction, or the copy, without what a handler has
\* cleared in between.
BpSet ==
    /\ BpMain("SET", "check")
    /\ \E byte \in {bpTbl, bpByte} : bpTbl' = byte \cup {bpSeq % BpDupCk}
    /\ BpStays /\ UNCHANGED <<bpSeq, bpByte, bpCounts, bpOnAlarm, bpSaid>>

BpCheck ==
    /\ IF bpArg.npackets > 0 /\ nreceived >= bpArg.npackets THEN BpMain("check", "exit") ELSE BpMain("check", "loop")
    /\ BpStays /\ UNCHANGED <<bpSeq, bpTbl, bpByte, bpCounts, bpOnAlarm, bpSaid>>

BpExit ==
    /\ bpAt = "exit" /\ BpStop
    /\ BpStays /\ UNCHANGED <<bpSeq, bpTbl, bpByte, bpCounts, bpOnAlarm>>

pr_pack == BpRecv \/ BpTst \/ BpRepeat \/ BpSet
BpRuns == BpPreload \/ BpLoop \/ pr_pack \/ BpCheck \/ BpExit

\* What the timer brings.
BpAlarm == onalrm \/ (bpOnAlarm = "onint" /\ onint)

BpNext == BpReply \/ BpRuns \/ onalrm \/ onint
BpSpec == BpInit /\ [][BpNext]_bpVars

(***************************************************************************)
(* Properties.                                                             *)
(***************************************************************************)

\* main is between ++nreceived and the --nreceived of a duplicate, or about to set the
\* bit of a first reply.
BpCounting == bpAt \in {"TST", "repeat", "SET"}

\* No more replies are counted than requests were sent, however sequence numbers repeat
\* and SIGALRM clears bits under SET; a duplicate in hand may be one too many.
BpNotMore == nreceived <= ntransmitted + IF bpAt \in {"TST", "repeat", "gone"} THEN 1 ELSE 0

\* Until sequence numbers repeat, nreceived counts the requests that were answered and
\* nrepeats the rest, exactly.
BpCountsEachOnce ==
    ntransmitted <= BpDupCk /\ bpAt # "gone" /\ ~BpCounting =>
        /\ nreceived = Cardinality(bpGot)
        /\ nreceived + nrepeats = FoldFunction(+, 0, bpAnswered) - FoldFunction(+, 0, bpNet)

\* With -c and without -f the alarms stop after npackets requests, those of -l included.
BpSendsAtMost ==
    bpArg.npackets > 0 /\ bpArg.flood = "no" =>
        ntransmitted <= IF bpArg.preload > bpArg.npackets THEN bpArg.preload ELSE bpArg.npackets

\* With -c and without -f the program ends, whatever is lost.
BpFinishes == bpArg.npackets > 0 /\ bpArg.flood = "no" => <>(bpAt = "gone")

(***************************************************************************)
(* udpcksum of src/unpv13e/udpcksum: a DNS query is sent and the answer    *)
(* captured; SIGALRM jumps back to send it again, with twice the timeout.  *)
(* The alarm may go off between the capture and canjump = 0.               *)
(***************************************************************************)

CONSTANT
    UkPackets   \* bound: how many packets the filter lets through

VARIABLES
    ukAt,           \* where test_udp is
    ukSent,         \* nsent
    ukTimeout,      \* timeout
    ukCanjump,      \* canjump
    ukAlarm,        \* the alarm: "off" or "set"
    ukQueue,        \* captured packets
    ukCome,         \* how many have come
    ukRead,         \* whether udp_read has returned an answer
    ukEnd           \* how the program has ended

ukVars == <<ukAt, ukSent, ukTimeout, ukCanjump, ukAlarm, ukQueue, ukCome, ukRead, ukEnd>>

UkInit ==
    /\ ukAt = "send" /\ ukSent = 0 /\ ukTimeout = 3 /\ ukCanjump = 1 /\ ukAlarm = "off"
    /\ ukQueue = <<>> /\ ukCome = 0 /\ ukRead = "no" /\ ukEnd = "runs"

\* The filter passes UDP from the server: an answer, late or repeated too, or a damaged
\* packet.
UkCaptured ==
    /\ ukCome < UkPackets /\ ukSent > 0 /\ ukEnd = "runs"
    /\ \E p \in {"answer", "damaged"} : ukQueue' = Append(ukQueue, p)
    /\ ukCome' = ukCome + 1
    /\ UNCHANGED <<ukAt, ukSent, ukTimeout, ukCanjump, ukAlarm, ukRead, ukEnd>>

UkEnds(why) == ukEnd' = why /\ ukAt' = "gone" /\ ukAlarm' = "off"

\* canjump = 1, the query, nsent++, alarm: no alarm is set before the last of them.
send_dns_query ==
    /\ ukAt = "send" /\ ukAt' = "read" /\ ukCanjump' = 1
    /\ ukSent' = ukSent + 1 /\ ukAlarm' = "set"
    /\ UNCHANGED <<ukTimeout, ukQueue, ukCome, ukRead, ukEnd>>

\* next_pcap waits for a packet; udp_check ends the program if it is damaged.
udp_read ==
    /\ ukAt = "read" /\ ukQueue # <<>> /\ ukQueue' = Tail(ukQueue)
    /\ IF Head(ukQueue) = "answer" THEN ukAt' = "got" /\ ukRead' = "yes" /\ UNCHANGED <<ukAlarm, ukEnd>>
                                   ELSE UkEnds("err_quit") /\ UNCHANGED ukRead
    /\ UNCHANGED <<ukSent, ukTimeout, ukCanjump, ukCome>>

UkNoJump ==
    /\ ukAt = "got" /\ ukAt' = "alarm" /\ ukCanjump' = 0
    /\ UNCHANGED <<ukSent, ukTimeout, ukAlarm, ukQueue, ukCome, ukRead, ukEnd>>

UkAlarmOff ==
    /\ ukAt = "alarm" /\ ukAt' = "print" /\ ukAlarm' = "off"
    /\ UNCHANGED <<ukSent, ukTimeout, ukCanjump, ukQueue, ukCome, ukRead, ukEnd>>

UkPrint ==
    /\ ukAt = "print" /\ UkEnds("printed")
    /\ UNCHANGED <<ukSent, ukTimeout, ukCanjump, ukQueue, ukCome, ukRead>>

\* What sigsetjmp returning 1 leads to.
UkRetry ==
    IF ukSent >= 3 THEN UkEnds("no response") /\ UNCHANGED ukTimeout
    ELSE ukAt' = "send" /\ ukTimeout' = 2 * ukTimeout /\ UNCHANGED ukEnd

sig_alrm ==
    /\ ukAlarm = "set" /\ ukAlarm' = "off"
    /\ IF ukCanjump = 0 THEN UNCHANGED <<ukAt, ukTimeout, ukEnd>> ELSE UkRetry
    /\ UNCHANGED <<ukSent, ukCanjump, ukQueue, ukCome, ukRead>>

\* SIGINT, SIGTERM or SIGHUP.
cleanup ==
    /\ ukEnd = "runs" /\ UkEnds("interrupted")
    /\ UNCHANGED <<ukSent, ukTimeout, ukCanjump, ukQueue, ukCome, ukRead>>

test_udp == send_dns_query \/ udp_read \/ UkNoJump \/ UkAlarmOff \/ UkPrint

UkNext == UkCaptured \/ test_udp \/ sig_alrm \/ cleanup
UkSpec == UkInit /\ [][UkNext]_ukVars

(***************************************************************************)
(* Properties.                                                             *)
(***************************************************************************)

\* Once canjump is 0 the answer is reported: an alarm that is still under way neither
\* sends another query nor says that there was no response.
UkAnswerKept == ukCanjump = 0 => ukRead = "yes" /\ ukAt # "send" /\ ukEnd # "no response"

\* The program ends, whatever comes or does not come.
UkFinishes == <>(ukEnd # "runs")

\* Programs whose alarm interrupts them anywhere: what ping shows is an answer to itself
\* (PgShowsOwn), the BSD ping's counts are right (BpNotMore, BpCountsEachOnce,
\* BpSendsAtMost), and udpcksum keeps an answer it has accepted (UkAnswerKept).
AlarmsSound == PgShowsOwn /\ BpNotMore /\ BpCountsEachOnce /\ BpSendsAtMost /\ UkAnswerKept
===========================================================================
