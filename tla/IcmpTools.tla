---------------------------- MODULE IcmpTools -----------------------------
(***************************************************************************)
(* The programs of src/unpv13e that read ICMP errors: traceroute and the   *)
(* ICMP daemon.                                                            *)
(***************************************************************************)
EXTENDS Integers, Sequences, FiniteSets

(***************************************************************************)
(* src/unpv13e/traceroute: datagrams with a growing time to live, each     *)
(* answered by an ICMP error of a router or of the destination, by none,   *)
(* or too late; recv_v4 and recv_v6 wait for the answer to one datagram,   *)
(* three seconds at most, and tell it from what else the raw socket gets.  *)
(***************************************************************************)

CONSTANTS
    TrMaxTtl,   \* max_ttl
    TrProbes,   \* nprobes
    TrHops      \* how far the destination is

VARIABLES
    trPr,       \* pr: "v4" or "v6"
    trTtl, trProbe, trSeq, trDone,      \* ttl, probe, seq and done of traceloop
    trAt,       \* "send", "test" (before gotalarm is tested), "recv" (in recvfrom),
                \* "return" (before alarm(0)), "end"
    trRet,      \* ret
    trGot,      \* gotalarm: 0 or 1
    trAlarm,    \* the alarm is set: 0 or 1
    trQueue,    \* the ICMP errors at the raw socket, in order
    trAway,     \* the datagrams no answer to which has come so far
    trOther,    \* errors of other programs still to come
    trShown     \* the code printed for each datagram

trVars == <<trPr, trTtl, trProbe, trSeq, trDone, trAt, trRet, trGot, trAlarm, trQueue, trAway, trOther,
            trShown>>
trLoop == <<trPr, trTtl, trProbe, trSeq, trDone, trShown>>
trNet == <<trQueue, trAway, trOther>>

\* The ttl that datagram s leaves with.
TrTtlOf(s) == (s - 1) \div TrProbes + 1

\* What the way to the destination can answer to datagram s; 0 is a code other than
\* that for the port.
TrAnswers(s) ==
    IF TrTtlOf(s) < TrHops THEN {[type |-> "exceeded", seq |-> s], [type |-> "host", seq |-> s]}
                           ELSE {[type |-> "port", seq |-> s]}

TrInit ==
    /\ trPr \in {"v4", "v6"}
    /\ trTtl = 1 /\ trProbe = 0 /\ trSeq = 0 /\ trDone = 0
    /\ trAt = "send" /\ trRet = 0 /\ trGot = 1 /\ trAlarm = 0
    /\ trQueue = <<>> /\ trAway = {} /\ trOther = 1 /\ trShown = <<>>

(***************************************************************************)
(* The network and the clock.                                              *)
(***************************************************************************)
TrArrives ==
    /\ \/ \E s \in trAway : \E m \in TrAnswers(s) :
              trQueue' = Append(trQueue, m) /\ trAway' = trAway \ {s} /\ UNCHANGED trOther
       \/ \E t \in {"exceeded", "port"} :
              /\ trOther > 0 /\ trOther' = trOther - 1
              /\ trQueue' = Append(trQueue, [type |-> t, seq |-> 0]) /\ UNCHANGED trAway
    /\ trAt # "end"
    /\ UNCHANGED <<trLoop, trAt, trRet, trGot, trAlarm>>

\* sig_alrm; recvfrom is interrupted only if it has begun.
TrAlarmRings ==
    /\ trAlarm = 1
    /\ trAlarm' = 0 /\ trGot' = 1
    /\ trAt' = IF trAt = "recv" THEN "test" ELSE trAt
    /\ UNCHANGED <<trLoop, trRet, trNet>>

(***************************************************************************)
(* recv_v4 and recv_v6: what is returned for message m, {} to go on.       *)
(***************************************************************************)
\* Mutant: the port a datagram was sent to is not compared.
recv_v4_any(m) ==
    IF m.seq = 0 THEN {}
    ELSE IF m.type = "exceeded" THEN {-2} ELSE IF m.type = "port" THEN {-1} ELSE {0}

\* The ports of the datagram in the message are compared with sport and dport + seq.
recv_v4(m) ==
    IF m.seq # trSeq THEN {}
    ELSE IF m.type = "exceeded" THEN {-2} ELSE IF m.type = "port" THEN {-1} ELSE {0}

\* The break for a time exceeded is outside of the if: ret is not initialized then.
recv_v6(m) ==
    IF m.type = "exceeded" THEN IF m.seq = trSeq THEN {-2} ELSE {-3, -2, -1, 0}
    ELSE IF m.seq # trSeq THEN {} ELSE IF m.type = "port" THEN {-1} ELSE {0}

TrReturns(m) == IF trPr = "v4" THEN recv_v4(m) ELSE recv_v6(m)

(***************************************************************************)
(* traceloop.                                                              *)
(***************************************************************************)

\* Sendto; then gotalarm = 0, alarm(3).
TrSend ==
    /\ trAt = "send" /\ trTtl <= TrMaxTtl /\ trProbe < TrProbes
    /\ trSeq' = trSeq + 1 /\ trAway' = trAway \union {trSeq + 1}
    /\ trGot' = 0 /\ trAlarm' = 1 /\ trAt' = "test"
    /\ UNCHANGED <<trPr, trTtl, trProbe, trDone, trShown, trRet, trQueue, trOther>>

\* What traceloop does with code: print it; done++; the next datagram.
TrShow(code) ==
    /\ trShown' = Append(trShown, code)
    /\ trDone' = trDone + (IF code = -1 THEN 1 ELSE 0)
    /\ trProbe' = trProbe + 1
    /\ trAt' = "send" /\ UNCHANGED <<trPr, trTtl, trSeq>>

\* if (gotalarm) return -3; otherwise recvfrom.
TrTest ==
    /\ trAt = "test"
    /\ IF trGot = 1 THEN TrShow(-3) ELSE trAt' = "recv" /\ UNCHANGED trLoop
    /\ UNCHANGED <<trRet, trGot, trAlarm, trNet>>

TrRecv ==
    /\ trAt = "recv" /\ trQueue # <<>>
    /\ trQueue' = Tail(trQueue)
    /\ \/ /\ TrReturns(Head(trQueue)) = {}
          /\ trAt' = "test" /\ UNCHANGED trRet
       \/ /\ trRet' \in TrReturns(Head(trQueue))
          /\ trAt' = "return"
    /\ UNCHANGED <<trLoop, trGot, trAlarm, trAway, trOther>>

\* alarm(0), and the return.
TrReturn ==
    /\ trAt = "return"
    /\ trAlarm' = 0 /\ trRet' = 0 /\ TrShow(trRet)
    /\ UNCHANGED <<trGot, trNet>>

TrNextTtl ==
    /\ trAt = "send" /\ trProbe = TrProbes
    /\ trTtl' = trTtl + 1 /\ trProbe' = 0
    /\ trAt' = IF trTtl + 1 <= TrMaxTtl /\ trDone = 0 THEN "send" ELSE "end"
    /\ UNCHANGED <<trPr, trSeq, trDone, trShown, trRet, trGot, trAlarm, trNet>>

traceloop == TrSend \/ TrTest \/ TrRecv \/ TrReturn \/ TrNextTtl
TrNext == TrArrives \/ TrAlarmRings \/ traceloop

(***************************************************************************)
(* Properties.                                                             *)
(***************************************************************************)
TrTrue(s) == trShown[s] # -3 =>
    LET type == CASE trShown[s] = -2 -> "exceeded" [] trShown[s] = -1 -> "port" [] OTHER -> "host"
    IN  s \notin trAway /\ [type |-> type, seq |-> s] \in TrAnswers(s)

\* What is printed for a datagram is the answer to that datagram, whatever arrives late
\* or for another program, and an alarm is never taken for an answer.  recv_v6 breaks it:
\* a time-exceeded message about another datagram also ends its loop.
TrAnswerIsOwnV4 == trPr = "v4" => \A s \in DOMAIN trShown : TrTrue(s)

\* The search stops with the first ttl that the destination has answered: no datagram
\* goes further.
TrStopsThere ==
    \A s \in DOMAIN trShown : \A t \in 1 .. trSeq :
        trShown[s] = -1 => TrTtlOf(t) <= TrTtlOf(s)

\* SIGALRM came between the test of gotalarm and recvfrom, and nothing more arrives.
TrStuck == trAt = "recv" /\ trGot = 1 /\ trAlarm = 0 /\ trQueue = <<>>

\* The program comes to its end though answers may be lost, unless an alarm was missed.
TrEnds == <>(trAt = "end" \/ TrStuck)

\* What traceroute prints, and where it stops, though answers come late: TrAnswerIsOwnV4
\* and TrStopsThere.
TrSound == TrAnswerIsOwnV4 /\ TrStopsThere

(***************************************************************************)
(* The ICMP daemon of src/unpv13e/icmpd and its clients: a client passes   *)
(* its UDP socket over a Unix domain connection, the daemon notes the port *)
(* in the client's entry of client[] and from then on writes to the client *)
(* every ICMP error about that port.                                       *)
(*                                                                         *)
(* A client is named by its number, in the order in which they connect,    *)
(* and its UDP port by the same.                                           *)
(***************************************************************************)

CONSTANTS
    IdClient,       \* the clients that may come
    IdFamily,       \* client -> "v4" or "v6"
    IdSending,      \* bound: the clients that draw an ICMP error, one each
    IdSlots         \* FD_SETSIZE

VARIABLES
    idAt,       \* the daemon: "select", "handle", "died"
    idWhy,      \* what it died of
    idConn,     \* slot -> connfd: a client, or 0
    idPort,     \* slot -> family and lport: those of a client, or 0
    idRset,     \* rset, the descriptors not dealt with so far
    idReady,    \* nready
    idListen,   \* the connections listenfd has, in order
    idIcmp,     \* family -> the ICMP errors its raw socket has, in order
    idCli,      \* client -> "start", "connected", "waits", "on", "left", or "ended" without
                \* having been on
    idFd,       \* the clients whose descriptor has not been received
    idIn,       \* client -> what it has been written and has not read: IdOk, IdBad (also
                \* the end-of-file), or the client an error is about
    idErrs,     \* the clients whose error has not come so far
    idWrong     \* the clients that were written an error about a port not theirs

idVars == <<idAt, idWhy, idConn, idPort, idRset, idReady, idListen, idIcmp, idCli, idFd, idIn, idErrs, idWrong>>
idTable == <<idConn, idPort>>

IdSlot == 1 .. IdSlots
IdOk == -1
IdBad == 0

\* Descriptors, in the order in which main tests them in rset.
IdListenFd == 1
IdRawFd(f) == IF f = "v4" THEN 2 ELSE 3
IdSlotFd(i) == 3 + i

IdInit ==
    /\ idAt = "select" /\ idWhy = "none"
    /\ idConn = [i \in IdSlot |-> 0] /\ idPort = [i \in IdSlot |-> 0]
    /\ idRset = {} /\ idReady = 0
    /\ idListen = <<>> /\ idIcmp = [f \in {"v4", "v6"} |-> <<>>]
    /\ idCli = [c \in IdClient |-> "start"] /\ idFd = {}
    /\ idIn = [c \in IdClient |-> <<>>] /\ idErrs = IdSending /\ idWrong = {}

\* Nobody reads what is written to c: the client has closed, or there is none.
IdGone(c) == c = 0 \/ idCli[c] \in {"left", "ended"}

(***************************************************************************)
(* dg_cli.                                                                 *)
(***************************************************************************)
IdDaemonKeeps == UNCHANGED <<idAt, idWhy, idTable, idRset, idReady, idIcmp, idErrs, idWrong>>

\* Connect, Write_fd.
IdConnect(c) ==
    /\ idAt # "died"
    /\ \/ /\ idCli[c] = "start" /\ (\A d \in IdClient : d < c => idCli[d] # "start")
          /\ idCli' = [idCli EXCEPT ![c] = "connected"]
          /\ idListen' = Append(idListen, c) /\ UNCHANGED idFd
       \/ /\ idCli[c] = "connected" /\ idCli' = [idCli EXCEPT ![c] = "waits"]
          /\ idFd' = idFd \union {c} /\ UNCHANGED idListen
    /\ UNCHANGED idIn /\ IdDaemonKeeps

\* Read of one byte: anything but "1" ends the client, and an error in the place of the
\* answer is left unread but for that byte.  Later, Read of the errors.
IdRead(c) ==
    /\ \/ /\ idCli[c] \in {"waits", "on"} /\ idIn[c] # <<>>
          /\ idIn' = [idIn EXCEPT ![c] = IF idCli[c] = "waits" /\ Head(@) \in IdClient THEN @ ELSE Tail(@)]
          /\ idCli' = [idCli EXCEPT ![c] =
                 IF Head(idIn[c]) = IdOk \/ (@ = "on" /\ Head(idIn[c]) \in IdClient) THEN "on" ELSE "ended"]
       \/ /\ idAt = "died" /\ (idCli[c] = "connected" \/ (idCli[c] \in {"waits", "on"} /\ idIn[c] = <<>>))
          /\ idCli' = [idCli EXCEPT ![c] = "ended"] /\ UNCHANGED idIn
    /\ UNCHANGED <<idListen, idFd>> /\ IdDaemonKeeps

\* The end of the input, or of the process.
IdLeave(c) ==
    /\ idCli[c] \in {"connected", "waits", "on"}
    /\ idCli' = [idCli EXCEPT ![c] = IF @ = "on" THEN "left" ELSE "ended"]
    /\ UNCHANGED <<idListen, idFd, idIn>> /\ IdDaemonKeeps

\* An ICMP error about a datagram of c; it may come when c has left, and matters as long
\* as an entry has c's port.
IdError(c) ==
    /\ c \in idErrs /\ idAt # "died"
    /\ idCli[c] = "on" \/ (idCli[c] = "left" /\ \E i \in IdSlot : idPort[i] = c)
    /\ idErrs' = idErrs \ {c}
    /\ idIcmp' = [idIcmp EXCEPT ![IdFamily[c]] = Append(@, c)]
    /\ UNCHANGED <<idAt, idWhy, idTable, idRset, idReady, idListen, idCli, idFd, idIn, idWrong>>

(***************************************************************************)
(* The daemon.                                                             *)
(***************************************************************************)
IdReadable ==
    {IdListenFd : x \in IF idListen = <<>> THEN {} ELSE {1}}
    \union {IdRawFd(f) : f \in {f \in {"v4", "v6"} : idIcmp[f] # <<>>}}
    \union {IdSlotFd(i) : i \in {i \in IdSlot : idConn[i] # 0 /\ (idConn[i] \in idFd \/ IdGone(idConn[i]))}}

IdSelect ==
    /\ idAt = "select" /\ IdReadable # {}
    /\ idAt' = "handle" /\ idRset' = IdReadable /\ idReady' = Cardinality(IdReadable)
    /\ UNCHANGED <<idWhy, idTable, idListen, idIcmp, idCli, idFd, idIn, idErrs, idWrong>>

IdFirst(d) == idAt = "handle" /\ d \in idRset /\ \A e \in idRset : d <= e

\* A handler has returned n for descriptor d; select is next if n is 0 or d the last.
IdHandled(d, n) ==
    LET over == n <= 0 \/ idRset = {d}
    IN  /\ idReady' = (IF over THEN 0 ELSE n)
        /\ idRset' = (IF over THEN {} ELSE idRset \ {d})
        /\ idAt' = (IF over THEN "select" ELSE "handle")
        /\ UNCHANGED idWhy

IdDies(why) == idAt' = "died" /\ idWhy' = why /\ idRset' = {} /\ idReady' = 0

IdFree == {i \in IdSlot : idConn[i] = 0}

\* The first free entry takes connfd, and family and lport stay what they were; with
\* none free the connection is closed.
readable_listen ==
    /\ IdFirst(IdListenFd)
    /\ LET c == Head(idListen)
       IN  IF IdFree = {} THEN idIn' = [idIn EXCEPT ![c] = Append(@, IdBad)] /\ UNCHANGED idConn
           ELSE /\ \E i \in IdFree : (\A j \in IdFree : i <= j) /\ idConn' = [idConn EXCEPT ![i] = c]
                /\ UNCHANGED idIn
    /\ idListen' = Tail(idListen) /\ IdHandled(IdListenFd, idReady - 1)
    /\ UNCHANGED <<idPort, idIcmp, idCli, idFd, idErrs, idWrong>>

\* Mutant: lport is not compared.
IdMatches_any(i, c) == idConn[i] # 0 /\ idPort[i] # 0 /\ IdFamily[idPort[i]] = IdFamily[c]

\* The entries that have c's family and lport.
IdMatches(i, c) == idConn[i] # 0 /\ idPort[i] = c

\* readable_v4 and readable_v6: SIGPIPE if one of the clients written to is gone.
IdRaw(f) ==
    /\ IdFirst(IdRawFd(f))
    /\ LET c == Head(idIcmp[f])
           to == {idConn[i] : i \in {i \in IdSlot : IdMatches(i, c)}}
       IN  IF \E d \in to : IdGone(d) THEN IdDies("write error") /\ UNCHANGED <<idIn, idWrong>>
           ELSE /\ idIn' = [d \in IdClient |-> IF d \in to THEN Append(idIn[d], c) ELSE idIn[d]]
                /\ idWrong' = idWrong \union (to \ {c})
                /\ IdHandled(IdRawFd(f), idReady - 1)
    /\ idIcmp' = [idIcmp EXCEPT ![f] = Tail(@)]
    /\ UNCHANGED <<idTable, idListen, idCli, idFd, idErrs>>

readable_v4 == IdRaw("v4")
readable_v6 == IdRaw("v6")

\* The client's entry is given back; family and lport stay.
IdClientDone(i) == idConn' = [idConn EXCEPT ![i] = 0] /\ UNCHANGED idPort

\* family and lport.
IdNote(i, c) == [idPort EXCEPT ![i] = c]

\* Read_fd: the descriptor, whose port is noted and the client told; or an error, and
\* the client told so; or the client has terminated.  A client that left what it was
\* sent unread may make Read_fd fail.
readable_conn(i) ==
    /\ IdFirst(IdSlotFd(i))
    /\ LET c == idConn[i] IN
       \/ /\ c \in idFd /\ idPort' = IdNote(i, c) /\ UNCHANGED idConn
          /\ IF IdGone(c) THEN IdDies("write error") /\ UNCHANGED idIn
             ELSE IdHandled(IdSlotFd(i), idReady - 1) /\ idIn' = [idIn EXCEPT ![c] = Append(@, IdOk)]
       \/ /\ c \in idFd
          /\ IF IdGone(c) THEN IdDies("write error") /\ UNCHANGED <<idTable, idIn>>
             ELSE /\ IdHandled(IdSlotFd(i), idReady - 1) /\ IdClientDone(i)
                  /\ idIn' = [idIn EXCEPT ![c] = Append(@, IdBad)]
       \/ /\ c \notin idFd /\ IdClientDone(i)
          /\ IdHandled(IdSlotFd(i), idReady - 1) /\ UNCHANGED idIn
       \/ c \notin idFd /\ idIn[c] # <<>> /\ IdDies("read_fd error") /\ UNCHANGED <<idTable, idIn>>
    /\ idFd' = idFd \ {idConn[i]}
    /\ UNCHANGED <<idListen, idIcmp, idCli, idErrs, idWrong>>

icmpd == IdSelect \/ readable_listen \/ readable_v4 \/ readable_v6 \/ \E i \in IdSlot : readable_conn(i)
IdProceeds(c) == IdConnect(c) \/ IdRead(c)
IdNext == icmpd \/ \E c \in IdClient : IdProceeds(c) \/ IdLeave(c) \/ IdError(c)

(***************************************************************************)
(* Properties.                                                             *)
(***************************************************************************)

\* nready counts what is left of rset whenever a handler has returned, so no descriptor
\* that select found is left out and no handler called for one it did not find.
IdNreadyTrue == idAt = "handle" => idReady = Cardinality(idRset)

\* An error is written to no client but the one whose port it is about.
IdOnlyOwner == idWrong = {}

\* A client is written the error of another only before it has been told that all is OK:
\* its entry still has the family and the port of the client before it.
IdOwnerOnceOn ==
    \A c \in idWrong : idCli[c] # "on" /\ \A k \in DOMAIN idIn[c] :
        idIn[c][k] \in IdClient \ {c} => \A j \in 1 .. k - 1 : idIn[c][j] # IdOk

\* Every client in the table that is on can be found by its port, at one place.
IdFoundOnce ==
    \A c \in IdClient : idCli[c] = "on" /\ idAt # "died" =>
        Cardinality({i \in IdSlot : idConn[i] = c}) = 1
        /\ \A i \in IdSlot : idConn[i] = c => idPort[i] = c

\* The daemon dies only of a client that is gone without its knowledge.
IdDeathsNamed == idAt = "died" => \E i \in IdSlot : idConn[i] # 0 /\ IdGone(idConn[i])

\* Every client that has connected gets an answer, or the end-of-file.
IdAnswered == \A c \in IdClient : idCli[c] = "connected" ~> idCli[c] \in {"on", "ended", "left"}

\* The daemon's table, its count and its writes, while clients come and go: IdNreadyTrue,
\* IdOwnerOnceOn, IdFoundOnce and IdDeathsNamed.
IdSound == IdNreadyTrue /\ IdOwnerOnceOn /\ IdFoundOnce /\ IdDeathsNamed
===========================================================================
