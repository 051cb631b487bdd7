----------------------------- MODULE UrgentData -----------------------------
(***************************************************************************)
(* The programs of src/unpv13e/oob: senders and receivers of urgent data,  *)
(* and the heartbeat functions, which send urgent bytes to each other.     *)
(***************************************************************************)
EXTENDS Integers, Sequences, FiniteSets

(***************************************************************************)
(* The out-of-band programs of src/unpv13e/oob: tcpsend01 to 06 write      *)
(* normal and urgent bytes, tcprecv01 to 06 read them after a SIGURG, an   *)
(* exception condition of select, POLLRDBAND, or in line.  TCP announces   *)
(* an urgent byte at once and delivers it in its turn; it remembers one    *)
(* mark.  Systems differ in how long the exception condition lasts.        *)
(* Bytes are numbered; three bytes of one write are one number.            *)
(***************************************************************************)

(***************************************************************************)
(* The senders: for each byte whether it is normal or urgent.              *)
(***************************************************************************)
tcpsend01 == <<"n", "u", "n", "u", "n">>
tcpsend02 == <<"n", "u", "n", "u", "n">>
tcpsend03 == <<"n", "u", "n", "u", "n">>
tcpsend04 == <<"n", "u", "n">>
tcpsend05 == <<"n", "n", "u", "n">>
tcpsend06 == <<"n", "u", "n", "u", "n">>

OobSenders == {tcpsend01, tcpsend02, tcpsend03, tcpsend04, tcpsend05, tcpsend06}

(***************************************************************************)
(* The receivers.                                                          *)
(*   by      how they hear of an urgent byte                               *)
(*   inline  SO_OOBINLINE: it stays among the others                       *)
(*   once    justreadoob: not asked for again before a read                *)
(*   reads   normal bytes are read                                         *)
(***************************************************************************)
OobReceiver(by, inline, once, reads) ==
    [by |-> by, inline |-> inline, once |-> once, reads |-> reads]

tcprecv01 == OobReceiver("signal", FALSE, "no", TRUE)
tcprecv02 == OobReceiver("select", FALSE, "never", TRUE)
tcprecv03 == OobReceiver("select", FALSE, "yes", TRUE)
tcprecv03p == OobReceiver("select", FALSE, "yes", TRUE)
tcprecv04 == OobReceiver("mark", TRUE, "no", TRUE)
tcprecv05 == OobReceiver("signal", FALSE, "no", FALSE)
tcprecv06 == OobReceiver("mark", TRUE, "no", TRUE)

OobReceivers ==
    {tcprecv01, tcprecv02, tcprecv03, tcprecv03p, tcprecv04, tcprecv05, tcprecv06}

VARIABLES
    oobS, oobR,     \* sender and receiver
    oobKernel,      \* the condition lasts "until read past" the mark, or "until taken"
    oobSent,        \* bytes written
    oobArrived,     \* bytes at the receiver
    oobNext,        \* the next byte in the stream that the receiver reads
    oobMark,        \* the urgent byte announced last, 0 before
    oobTaken,       \* urgent bytes that Recv has returned
    oobTakenAt,     \* the length of oobRead when that happened last
    oobRead,        \* bytes that Read has returned
    oobSig,         \* SIGURG waits: 0 or 1
    oobAt,          \* where the receiver is: "top", "ready", "handler", "eof", "died"
    oobReady,       \* what select has found
    oobJust,        \* justreadoob
    oobSaid         \* the byte before which "at OOB mark" was printed last; -1 if the
                    \* mark came to that place between Sockatmark and Read

oobFlow == <<oobS, oobR, oobKernel, oobSent, oobArrived, oobMark>>
oobVars == <<oobFlow, oobNext, oobTaken, oobTakenAt, oobRead, oobSig, oobAt, oobReady, oobJust, oobSaid>>

OobInit ==
    /\ oobS \in OobSenders /\ oobR \in OobReceivers
    /\ oobKernel \in {"until read past", "until taken"}
    /\ oobSent = 0 /\ oobArrived = 0 /\ oobNext = 1 /\ oobMark = 0
    /\ oobTaken = {} /\ oobTakenAt = 0 /\ oobRead = <<>> /\ oobSig = 0
    /\ oobAt = "top" /\ oobReady = {} /\ oobJust = 0 /\ oobSaid = 0

OobBytes == Len(oobS)
OobFin == oobArrived = OobBytes
OobKeeps == UNCHANGED <<oobFlow, oobSig>>

(***************************************************************************)
(* The sender and TCP.                                                     *)
(***************************************************************************)

\* An urgent byte is announced with whatever is sent next, before it arrives itself.
OobSend ==
    /\ oobSent < OobBytes /\ oobAt # "died"
    /\ oobSent' = oobSent + 1
    /\ IF oobS[oobSent + 1] = "u" THEN oobMark' = oobSent + 1 /\ oobSig' = 1
                                  ELSE UNCHANGED <<oobMark, oobSig>>
    /\ oobSaid' = IF oobMark' # oobMark /\ oobMark' = oobNext /\ oobAt = "ready" THEN -1 ELSE oobSaid
    /\ UNCHANGED <<oobS, oobR, oobKernel, oobArrived, oobNext, oobTaken, oobTakenAt, oobRead, oobAt, oobReady, oobJust>>

OobArrive ==
    /\ oobArrived < oobSent /\ oobAt # "died"
    /\ oobArrived' = oobArrived + 1
    /\ UNCHANGED <<oobS, oobR, oobKernel, oobSent, oobMark, oobNext, oobTaken, oobTakenAt, oobRead, oobSig, oobAt, oobReady, oobJust, oobSaid>>

\* An urgent byte that is not in the stream: all of them, or the one at the mark.
OobOut(i) ==
    ~oobR.inline /\ oobS[i] = "u" /\ (oobKernel = "until read past" \/ i = oobMark)

\* What a read may end with: it does not go past the mark.
OobReadable == {i \in oobNext .. oobArrived : ~OobOut(i) /\ (oobNext < oobMark => i < oobMark)}
OobUpTo(n) == SelectSeq([i \in 1 .. n - oobNext + 1 |-> oobNext + i - 1], LAMBDA i : ~OobOut(i))

OobException ==
    /\ oobMark > 0
    /\ IF oobKernel = "until taken" THEN oobMark \notin oobTaken ELSE oobNext <= oobMark

(***************************************************************************)
(* The receiver.                                                           *)
(***************************************************************************)

\* Recv(MSG_OOB): fails if the byte has been taken (EINVAL) or is still on its way
\* (EWOULDBLOCK); Recv then ends the program.
OobRecv(to) ==
    /\ IF oobMark \in oobTaken \/ oobMark > oobArrived
       THEN oobAt' = "died" /\ UNCHANGED <<oobTaken, oobTakenAt>>
       ELSE oobAt' = to /\ oobTaken' = oobTaken \union {oobMark} /\ oobTakenAt' = Len(oobRead)
    /\ UNCHANGED <<oobNext, oobRead, oobSaid>>

\* sig_urg runs over a Read that waits, and before or after one.
sig_urg ==
    /\ oobR.by = "signal" /\ oobSig = 1 /\ oobAt = "top"
    /\ oobSig' = 0
    /\ OobRecv("top")
    /\ UNCHANGED <<oobFlow, oobReady, oobJust>>

\* Select: xset holds connfd unless justreadoob.
OobSelect ==
    /\ oobR.by = "select" /\ oobAt = "top"
    /\ LET r == {k \in {"rset", "xset"} :
                    IF k = "rset" THEN OobReadable # {} \/ OobFin
                    ELSE OobException /\ (oobR.once = "yes" => oobJust = 0)}
       IN r # {} /\ oobReady' = r
    /\ oobAt' = "ready"
    /\ OobKeeps /\ UNCHANGED <<oobNext, oobTaken, oobTakenAt, oobRead, oobJust, oobSaid>>

OobExceptional ==
    /\ oobAt = "ready" /\ "xset" \in oobReady
    /\ oobReady' = oobReady \ {"xset"} /\ oobJust' = 1
    /\ OobRecv("ready") /\ OobKeeps

\* Sockatmark, then Read.
OobTests ==
    /\ oobR.by = "mark" /\ oobAt = "top"
    /\ oobAt' = "ready" /\ oobReady' = {"rset"}
    /\ oobSaid' = IF oobNext = oobMark THEN oobNext ELSE oobSaid
    /\ OobKeeps /\ UNCHANGED <<oobNext, oobTaken, oobTakenAt, oobRead, oobJust>>

OobReads == IF oobR.by = "signal" THEN oobAt = "top" /\ oobR.reads ELSE oobAt = "ready" /\ oobReady = {"rset"}

OobRead ==
    /\ OobReads /\ OobReadable # {}
    /\ \E n \in OobReadable :
        /\ oobRead' = oobRead \o OobUpTo(n)
        /\ oobNext' = n + 1
    /\ oobAt' = "top" /\ oobReady' = {} /\ oobJust' = 0
    /\ OobKeeps /\ UNCHANGED <<oobTaken, oobTakenAt, oobSaid>>

OobEof ==
    /\ OobReads /\ OobReadable = {} /\ OobFin
    /\ oobAt' = "eof" /\ oobReady' = {}
    /\ OobKeeps /\ UNCHANGED <<oobNext, oobTaken, oobTakenAt, oobRead, oobJust, oobSaid>>

\* Nothing to read after all, and no exception left.
OobAgain ==
    /\ oobAt = "ready" /\ oobReady = {}
    /\ oobAt' = "top"
    /\ OobKeeps /\ UNCHANGED <<oobNext, oobTaken, oobTakenAt, oobRead, oobReady, oobJust, oobSaid>>

OobRuns == sig_urg \/ OobSelect \/ OobExceptional \/ OobTests \/ OobRead \/ OobEof \/ OobAgain
OobNextStep == OobRuns \/ OobSend \/ OobArrive

(***************************************************************************)
(* Properties.                                                             *)
(***************************************************************************)
OobIn(i) == \E k \in DOMAIN oobRead : oobRead[k] = i

\* Read returns every byte at most once and in order, though SIGURG, select and the mark
\* cut in; at end-of-file every normal byte has been read.
OobInOrder ==
    /\ \A j, k \in DOMAIN oobRead : j < k => oobRead[j] < oobRead[k]
    /\ oobAt = "eof" => \A i \in 1 .. OobBytes : oobS[i] = "n" => OobIn(i)

\* A receiver in line says "at OOB mark" before the last urgent byte (an earlier mark may
\* be forgotten), unless the mark came just there after Sockatmark and before Read.
OobMarkSaid == oobAt = "eof" /\ oobR.inline => oobSaid \in {oobMark, -1}

\* A receiver dies only of an urgent byte that is announced and has not arrived, or, where
\* the condition lasts until the mark is passed, of asking a second time: tcprecv02 does
\* so at once, tcprecv03 only after a Read that ended before the mark.
OobDeathsNamed ==
    oobAt = "died" =>
        \/ oobMark > oobArrived
        \/ /\ oobKernel = "until read past" /\ oobR.by = "select" /\ oobNext <= oobMark
           /\ oobR # tcprecv02 => Len(oobRead) > oobTakenAt

\* Once all is sent, a receiver that reads comes to the end-of-file, or dies.
OobEnds == <>(oobAt \in {"eof", "died"} \/ ~oobR.reads)

(***************************************************************************)
(* heartbeat_cli and heartbeat_serv of src/unpv13e/oob: the client sends   *)
(* an urgent byte with every alarm, the server sends it back, and either   *)
(* gives up after too many alarms without a byte from the other.  SIGURG   *)
(* may come between any two statements of the handler of SIGALRM.          *)
(***************************************************************************)

CONSTANT HbMax      \* maxnprobes and maxnalarms

HbSide == {"client", "server"}
HbPeer(s) == IF s = "client" THEN "server" ELSE "client"

VARIABLES
    hbNet,      \* "fast": a byte and its echo take less than the time between two alarms;
                \* "slow"; "down"
    hbAt,       \* side -> "code", "count" (in sig_alrm, before the test), "leave" (after
                \* it), "send", "exited"
    hbProbes,   \* side -> nprobes
    hbAlarm,    \* the sides whose alarm is set
    hbRung,     \* the sides whose alarm has rung in this period
    hbTo        \* the sides an urgent byte is on its way to

\* nprobes, and the limit: at least one alarm, with nsec 1.
heartbeat_cli == [nprobes |-> 0, maxnprobes |-> IF HbMax < 1 THEN 1 ELSE HbMax]
heartbeat_serv == [nprobes |-> 0, maxnprobes |-> IF HbMax < 1 THEN 1 ELSE HbMax]
HbStart == [s \in HbSide |-> IF s = "client" THEN heartbeat_cli ELSE heartbeat_serv]

hbVars == <<hbNet, hbAt, hbProbes, hbAlarm, hbRung, hbTo>>

HbInit ==
    /\ hbNet \in {"fast", "slow"}
    /\ hbAt = [s \in HbSide |-> "code"] /\ hbProbes = [s \in HbSide |-> HbStart[s].nprobes]
    /\ hbAlarm = HbSide /\ hbRung = {} /\ hbTo = {}

HbGoesDown ==
    /\ hbNet # "down" /\ hbNet' = "down" /\ hbTo' = {}
    /\ UNCHANGED <<hbAt, hbProbes, hbAlarm, hbRung>>

\* The period of the two alarms, which is the same: each rings once in it.
HbPeriod ==
    /\ \A s \in HbSide : (s \in hbRung /\ hbAt[s] = "code") \/ hbAt[s] = "exited"
    /\ \E s \in HbSide : hbAt[s] # "exited"
    /\ hbNet = "fast" => hbTo = {}
    /\ hbRung' = {}
    /\ UNCHANGED <<hbNet, hbAt, hbProbes, hbAlarm, hbTo>>

\* SIGALRM: ++nprobes.
HbRings(s) ==
    /\ hbAt[s] = "code" /\ s \in hbAlarm \ hbRung
    /\ hbAlarm' = hbAlarm \ {s} /\ hbRung' = hbRung \union {s}
    /\ hbProbes' = [hbProbes EXCEPT ![s] = @ + 1]
    /\ hbAt' = [hbAt EXCEPT ![s] = "count"]
    /\ UNCHANGED <<hbNet, hbTo>>

\* if (nprobes > max) exit; SIGURG may still come in between.
HbTest(s) ==
    /\ \/ hbAt[s] = "count" /\ hbAt' = [hbAt EXCEPT ![s] = IF hbProbes[s] > HbStart[s].maxnprobes THEN "leave" ELSE "send"]
       \/ hbAt[s] = "leave" /\ hbAt' = [hbAt EXCEPT ![s] = "exited"]
    /\ UNCHANGED <<hbNet, hbProbes, hbAlarm, hbRung, hbTo>>

\* What s sends is lost when the network is down.
HbSends(s) == IF hbNet = "down" THEN {} ELSE {HbPeer(s)}

\* The end of the handler.
HbSet(s, to) ==
    /\ hbAt[s] = "send"
    /\ hbAt' = [hbAt EXCEPT ![s] = "code"] /\ hbTo' = hbTo \union to
    /\ hbAlarm' = hbAlarm \union {s}
    /\ UNCHANGED <<hbNet, hbProbes, hbRung>>

\* Mutant: the alarm is not set again.
cli_sig_alrm_once ==
    \/ HbRings("client") \/ HbTest("client")
    \/ /\ hbAt["client"] = "send"
       /\ hbAt' = [hbAt EXCEPT !["client"] = "code"] /\ hbTo' = hbTo \union HbSends("client")
       /\ UNCHANGED <<hbNet, hbProbes, hbAlarm, hbRung>>

\* The client sends a probe before it sets the alarm again, the server does not.
cli_sig_alrm == HbRings("client") \/ HbTest("client") \/ HbSet("client", HbSends("client"))
serv_sig_alrm == HbRings("server") \/ HbTest("server") \/ HbSet("server", {})

\* SIGURG: the byte is taken, and the count starts again.
HbTakes(s, to) ==
    /\ hbAt[s] # "exited" /\ s \in hbTo
    /\ hbTo' = (hbTo \ {s}) \union to
    /\ hbProbes' = [hbProbes EXCEPT ![s] = 0]
    /\ UNCHANGED <<hbNet, hbAt, hbAlarm, hbRung>>

\* Mutant: the server sends the byte back and does not clear its own count.
serv_sig_urg_counts ==
    /\ hbAt["server"] # "exited" /\ "server" \in hbTo
    /\ hbTo' = (hbTo \ {"server"}) \union HbSends("server")
    /\ UNCHANGED <<hbNet, hbAt, hbProbes, hbAlarm, hbRung>>

\* The server sends the byte back.
cli_sig_urg == HbTakes("client", {})
serv_sig_urg == HbTakes("server", HbSends("server"))

HbRuns(s) == IF s = "client" THEN cli_sig_alrm \/ cli_sig_urg ELSE serv_sig_alrm \/ serv_sig_urg
HbNext == HbGoesDown \/ HbPeriod \/ \E s \in HbSide : HbRuns(s)

(***************************************************************************)
(* Properties.                                                             *)
(***************************************************************************)

\* As long as bytes and echoes come in time neither side gives up, in whatever order
\* the alarms of the two and SIGURG fall in a period: a count is at most two.
HbNoFalseAlarm == hbNet = "fast" => \A s \in HbSide : hbAt[s] \notin {"leave", "exited"}

\* When the connection is down, both sides find out, even with bytes lost midway.
HbDetects == hbNet = "down" ~> \A s \in HbSide : hbAt[s] = "exited"

\* Urgent data and the bytes around it: OobInOrder, OobMarkSaid and OobDeathsNamed for the
\* receivers, HbNoFalseAlarm for the heartbeat, which lives on urgent bytes.
UrgentSound == OobInOrder /\ OobMarkSaid /\ OobDeathsNamed /\ HbNoFalseAlarm
=============================================================================
