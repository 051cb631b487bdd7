------------------------------ MODULE SctpEcho ------------------------------
(***************************************************************************)
(* The SCTP echo servers and clients of src/unpv13e/sctp on one-to-many    *)
(* sockets: one association, whose messages are ordered within a stream    *)
(* only.  A message is known by its number, a notification has number 0.   *)
(* Messages that recvmsg returns in two pieces (no MSG_EOR) are "first"    *)
(* and "rest".                                                             *)
(***************************************************************************)
EXTENDS Integers, Sequences, SequencesExt

CONSTANTS
    ScLines,    \* bound: lines typed; one where a line is sent on all streams
    ScStrm      \* SERV_MAX_SCTP_STRM: the client's streams

(***************************************************************************)
(* The clients: what they do for a line, and their main.                   *)
(*   copies  messages for each stream; 0: one, on the stream typed         *)
(*   un      MSG_UNORDERED                                                 *)
(*   skips   notifications are not taken for replies                       *)
(*   events  association events are subscribed to                          *)
(*   bye     MSG_ABORT at the end                                          *)
(***************************************************************************)
ScBody(copies, un, skips) == [copies |-> copies, un |-> un, skips |-> skips]
sctp_strcli == ScBody(0, FALSE, FALSE)
sctp_strcli_un == ScBody(0, TRUE, FALSE)
\* Mutant: the message after a notification is not waited for.
sctp_strcli1_once == ScBody(0, FALSE, FALSE)
sctp_strcli1 == ScBody(0, FALSE, TRUE)
sctp_strcliecho == ScBody(1, FALSE, FALSE)
sctp_strcliecho2 == ScBody(2, FALSE, FALSE)

ScClient(body, events, bye) == [body |-> body, events |-> events, bye |-> bye]
sctpclient01 == {ScClient(b, FALSE, FALSE) : b \in {sctp_strcli, sctp_strcli_un, sctp_strcliecho, sctp_strcliecho2}}
sctpclient02 == {ScClient(b, FALSE, TRUE) : b \in {sctp_strcli, sctp_strcliecho}}
sctpclient04 == {ScClient(sctp_strcli1, TRUE, FALSE)}

(***************************************************************************)
(* The servers.                                                            *)
(*   more    more outgoing streams are asked for                           *)
(*   incr    the reply goes to the next stream, if the argument says so    *)
(*   eof     MSG_EOF with the reply                                        *)
(*   auto    SCTP_AUTOCLOSE                                                *)
(*   whole   pdapi_recvmsg puts the pieces of a message together           *)
(*   events, skips   notifications are subscribed to; are not echoed       *)
(*   forks   the association is peeled off for a child                     *)
(***************************************************************************)
ScServer(more, incr, set) ==
    [more |-> more, incr |-> incr, eof |-> "eof" \in set, auto |-> "auto" \in set,
     whole |-> "whole" \in set, events |-> "events" \in set, skips |-> "skips" \in set,
     forks |-> "forks" \in set]
sctpserv01 == ScServer(0, TRUE, {})
sctpserv02 == ScServer(1, TRUE, {})
sctpserv03 == ScServer(0, TRUE, {"eof"})
sctpserv04 == ScServer(0, TRUE, {"auto"})
sctpserv05 == ScServer(0, TRUE, {"whole"})
sctpserv06 == ScServer(0, TRUE, {"events", "skips"})
sctpserv07 == ScServer(0, FALSE, {"events", "skips"})
sctpserv_fork == ScServer(0, FALSE, {"forks"})

ScServers ==
    {sctpserv01, sctpserv02, sctpserv03, sctpserv04, sctpserv05, sctpserv06, sctpserv07, sctpserv_fork}

VARIABLES
    scS, scC,       \* the server's and the client's program
    scIncr,         \* stream_increment
    scOut,          \* the server's streams, as the kernels have agreed
    scLong,         \* messages come in pieces
    scSAt, scCAt,   \* where the server and the client are
    scWhy,          \* the call that has ended the server
    scAssoc,        \* "none", "up", "closing" (SHUTDOWN under way)
    scToS, scToC,   \* messages and notifications on the way, in the order sent
    scHalf,         \* the server has had the first piece of a message
    scCur,          \* the message the server is at
    scChild,        \* the child of the forking server: "none", "up", "ended"
    scOn,           \* the stream each message was sent on
    scRound,        \* of this line: messages sent, messages received
    scShown,        \* the messages shown as replies
    scLost          \* a reply had no association to go to

scDesign == <<scS, scC, scIncr, scOut, scLong>>
scClientVars == <<scCAt, scOn, scRound, scShown>>
scServerVars == <<scSAt, scWhy, scHalf, scCur, scChild, scLost>>
scVars == <<scDesign, scClientVars, scServerVars, scAssoc, scToS, scToC>>

ScMsg(n, str, part) == [n |-> n, str |-> str, part |-> part]
ScNote == ScMsg(0, 0, "note")

ScInit ==
    /\ scS \in ScServers
    /\ scC \in sctpclient01 \union sctpclient02 \union sctpclient04
    /\ scIncr \in IF scS.incr THEN BOOLEAN ELSE {FALSE}
    /\ scOut \in 1 .. ScStrm + scS.more
    /\ scLong \in BOOLEAN
    /\ scSAt = "recv" /\ scWhy = "none" /\ scHalf = FALSE /\ scCur = ScNote /\ scChild = "none"
    /\ scCAt = "fgets" /\ scOn = <<>> /\ scRound = <<0, 0>> /\ scShown = <<>> /\ scLost = FALSE
    /\ scAssoc = "none" /\ scToS = <<>> /\ scToC = <<>>

(***************************************************************************)
(* The kernels.                                                            *)
(***************************************************************************)

\* A message waits for the earlier ones of its stream, a notification for everything.
ScDeliverable(q) ==
    {i \in DOMAIN q : \A j \in 1 .. i - 1 :
        q[i].n # 0 /\ q[j].n # 0 /\ (q[j].str # q[i].str \/ scC.body.un)}

\* While a message is in pieces its rest comes next.
ScReadable ==
    IF scHalf THEN {j \in DOMAIN scToS : scToS[j].part = "rest"} ELSE ScDeliverable(scToS)

\* What recvmsg returns of message i, and what is then left.
ScIsFirst(i) == scLong /\ scToS[i].part = "whole"
ScPiece(i) == IF ScIsFirst(i) THEN [scToS[i] EXCEPT !.part = "first"] ELSE scToS[i]
ScLeft(i) == IF ScIsFirst(i) THEN [scToS EXCEPT ![i].part = "rest"] ELSE RemoveAt(scToS, i)

ScNoted(q, events) == IF events THEN Append(q, ScNote) ELSE q

\* An association ends or comes up: those who asked are told.
ScShutdown ==
    /\ scAssoc = "closing"
    /\ scAssoc' = "none"
    /\ scToS' = ScNoted(scToS, scS.events) /\ scToC' = ScNoted(scToC, scC.events)
    /\ UNCHANGED <<scDesign, scClientVars, scServerVars>>

\* SCTP_AUTOCLOSE: an idle association is shut down.
ScAutoclose ==
    /\ scS.auto /\ scAssoc = "up" /\ scToS = <<>> /\ scToC = <<>> /\ scSAt = "recv"
    /\ scAssoc' = "closing"
    /\ UNCHANGED <<scDesign, scClientVars, scServerVars, scToS, scToC>>

(***************************************************************************)
(* The client.                                                             *)
(***************************************************************************)
ScC(from, to) == scCAt = from /\ scCAt' = to /\ UNCHANGED <<scDesign, scServerVars>>

\* Messages for one line, replies waited for, and the stream of the next message.
ScSends == IF scC.body.copies = 0 THEN 1 ELSE scC.body.copies * ScStrm
ScExpects == ScSends
ScStreamOf(i) == i \div scC.body.copies

ScFgets ==
    /\ scCAt = "fgets"
    /\ IF Len(scOn) < (IF scC.body.copies = 0 THEN ScLines ELSE ScSends) THEN ScC("fgets", "send") ELSE ScC("fgets", "bye")
    /\ UNCHANGED <<scOn, scRound, scShown, scAssoc, scToS, scToC>>

\* Sctp_sendmsg sets up an association where there is none.  A stream that does not
\* exist ends the client; so may a shutdown under way.
ScSend ==
    /\ scCAt = "send" /\ UNCHANGED <<scDesign, scServerVars, scShown>>
    /\ \E str \in IF scC.body.copies = 0 THEN 0 .. ScStrm ELSE {ScStreamOf(scRound[1])} :
          \/ /\ str = ScStrm \/ scAssoc = "closing"
             /\ scCAt' = "died" /\ scToC' = <<>>
             /\ scAssoc' = IF scAssoc = "none" THEN "none" ELSE "closing"
             /\ UNCHANGED <<scOn, scRound, scToS>>
          \/ /\ str < ScStrm
             /\ scCAt' = IF scRound[1] + 1 = ScSends THEN "recv" ELSE "send"
             /\ scRound' = [scRound EXCEPT ![1] = @ + 1]
             /\ scOn' = Append(scOn, str)
             /\ LET up == scAssoc = "none"
                    m  == ScMsg(Len(scOn) + 1, str, "whole")
                IN  /\ scAssoc' = IF up THEN "up" ELSE scAssoc
                    /\ scToS' = Append(ScNoted(scToS, up /\ scS.events), m)
                    /\ scToC' = ScNoted(scToC, up /\ scC.events)

\* check_notification looks at a notification, and the client waits on.
check_notification(i) ==
    /\ scC.body.skips /\ scToC[i].n = 0
    /\ UNCHANGED <<scCAt, scRound, scShown>>

ScRecv ==
    /\ scCAt = "recv" /\ UNCHANGED <<scDesign, scServerVars, scOn, scAssoc, scToS>>
    /\ \E i \in ScDeliverable(scToC) :
          /\ scToC' = RemoveAt(scToC, i)
          /\ \/ check_notification(i)
             \/ /\ ~(scC.body.skips /\ scToC[i].n = 0)
                /\ scShown' = Append(scShown, scToC[i].n)
                /\ LET last == scRound[2] + 1 = ScExpects
                   IN  /\ scCAt' = IF last THEN "fgets" ELSE "recv"
                       /\ scRound' = IF last THEN <<0, 0>> ELSE [scRound EXCEPT ![2] = @ + 1]

\* The end: "goodbye" with MSG_ABORT needs an association; Close shuts it down.
ScBye ==
    /\ IF scC.bye /\ scAssoc # "up" THEN ScC("bye", "died") ELSE ScC("bye", "ended")
    /\ scAssoc' = IF scC.bye \/ scAssoc = "none" THEN "none" ELSE "closing"
    /\ scToS' = ScNoted(scToS, scC.bye /\ scAssoc # "none" /\ scS.events)
    /\ UNCHANGED <<scOn, scRound, scShown, scToC>>

\* The user ends the client: what has been sent is delivered, then the association ends.
ScKill ==
    /\ scCAt \in {"send", "recv"}
    /\ scCAt' = "ended" /\ scToC' = <<>>
    /\ scAssoc' = IF scAssoc = "none" THEN "none" ELSE "closing"
    /\ UNCHANGED <<scDesign, scServerVars, scOn, scRound, scShown, scToS>>

(***************************************************************************)
(* The server.                                                             *)
(***************************************************************************)

\* The pieces are read into one growing buffer until MSG_EOR.
pdapi_recvmsg(m) ==
    IF m.part = "first"
    THEN scHalf' = TRUE /\ UNCHANGED <<scSAt, scCur>>
    ELSE scHalf' = FALSE /\ scSAt' = "strm" /\ scCur' = [m EXCEPT !.part = "whole"]

\* A notification is displayed, and nothing is sent.
print_notification == UNCHANGED <<scSAt, scCur, scHalf>>

\* Sctp_recvmsg: a piece of a message is taken for a message but by pdapi_recvmsg.
ScRecvmsg ==
    /\ scSAt = "recv" /\ scChild # "up"
    /\ UNCHANGED <<scDesign, scClientVars, scWhy, scChild, scLost, scAssoc, scToC>>
    /\ \E i \in ScReadable :
          /\ scToS' = ScLeft(i)
          /\ CASE scToS[i].n = 0 /\ scS.skips -> print_notification
               [] scS.whole -> pdapi_recvmsg(ScPiece(i))
               [] OTHER -> scSAt' = "strm" /\ scCur' = ScPiece(i) /\ scHalf' = ScIsFirst(i)

ScDies(why) ==
    /\ scSAt' = "died" /\ scWhy' = why
    /\ UNCHANGED <<scCur, scHalf, scChild, scLost, scToC, scAssoc>>

ScNextStream(m) == IF m.str + 1 >= scOut THEN 0 ELSE m.str + 1

\* sctp_get_no_strms: SCTP_STATUS of an association that is gone ends the server.
sctp_get_no_strms ==
    /\ scSAt = "strm" /\ UNCHANGED <<scDesign, scClientVars, scToS>>
    /\ IF scIncr /\ scAssoc = "none" THEN ScDies("status")
       ELSE /\ scSAt' = "send"
            /\ scCur' = IF scIncr THEN [scCur EXCEPT !.str = ScNextStream(scCur)] ELSE scCur
            /\ UNCHANGED <<scWhy, scHalf, scChild, scLost, scToC, scAssoc>>

\* Sctp_sendmsg fails for a stream that does not exist and during a shutdown; without an
\* association it asks for one, which the client's kernel refuses.
Sctp_sendmsg ==
    /\ scSAt = "send" /\ UNCHANGED <<scDesign, scClientVars, scToS>>
    /\ CASE scAssoc = "closing" -> ScDies("shutdown")
         [] scAssoc = "up" /\ scCur.str >= scOut -> ScDies("stream")
         [] OTHER ->
              /\ scSAt' = IF scS.forks THEN "peel" ELSE "recv"
              /\ scCur' = ScNote
              /\ scToC' = IF scAssoc = "up" THEN Append(scToC, scCur) ELSE scToC
              /\ scAssoc' = IF scAssoc = "up" /\ scS.eof THEN "closing" ELSE scAssoc
              /\ scLost' = (scLost \/ scAssoc = "none")
              /\ UNCHANGED <<scWhy, scHalf, scChild>>

\* sctp_address_to_associd gives 0 for an association that is gone; otherwise it is
\* peeled off, with what is queued for it.
sctp_address_to_associd ==
    /\ scSAt = "peel" /\ scSAt' = "recv"
    /\ scChild' = IF scAssoc = "none" THEN scChild ELSE "up"
    /\ UNCHANGED <<scDesign, scClientVars, scWhy, scHalf, scCur, scLost, scAssoc, scToS, scToC>>

\* The child's str_echo replies on stream 0; the end of the association ends it.
ScChildEchoes ==
    /\ scChild = "up" /\ UNCHANGED <<scDesign, scClientVars, scSAt, scWhy, scCur, scLost, scAssoc>>
    /\ \/ /\ scToS = <<>> /\ scAssoc = "none"
          /\ scChild' = "ended" /\ UNCHANGED <<scToS, scToC, scHalf>>
       \/ \E i \in ScReadable :
             /\ scToS' = ScLeft(i) /\ scHalf' = ScIsFirst(i)
             /\ scToC' = IF scAssoc = "up" THEN Append(scToC, [ScPiece(i) EXCEPT !.str = 0]) ELSE scToC
             /\ UNCHANGED scChild

ScClientRuns == ScFgets \/ ScSend \/ ScRecv \/ ScBye
ScServerRuns == ScRecvmsg \/ sctp_get_no_strms \/ Sctp_sendmsg \/ sctp_address_to_associd \/ ScChildEchoes
ScNext == ScClientRuns \/ ScServerRuns \/ ScShutdown \/ ScAutoclose \/ ScKill

(***************************************************************************)
(* Properties.                                                             *)
(***************************************************************************)

\* The replies to messages sent on one stream are shown in the order of the messages,
\* each once: the streams a server chooses keep the order within a stream, also where
\* it has fewer streams than the client.  Not so for the forking server, whose parent
\* replies on the message's stream and whose child on stream 0.  (A message echoed in
\* pieces comes twice.)
ScOrderKept ==
    ~scLong /\ ~scS.forks => \A i, j \in DOMAIN scShown :
        i < j /\ scShown[i] > 0 /\ scShown[j] > 0 /\ scOn[scShown[i]] = scOn[scShown[j]]
            => scShown[i] < scShown[j]

\* A client that sends line by line shows the reply to the line it has just sent:
\* notifications are not replies, and with pdapi_recvmsg a reply is a whole message.
ScReplyToThis ==
    scC.body.copies = 0 /\ (scLong => scS.whole) => \A i \in DOMAIN scShown : scShown[i] = i

\* What ends a server: a reply during a shutdown, which MSG_EOF, SCTP_AUTOCLOSE or the
\* end of the client has begun; asking for the streams of an association that is gone;
\* and a client's stream that it has not, if it does not look for the next one.
ScDeathsNamed ==
    scSAt = "died" =>
        \/ scWhy = "stream" /\ ~scIncr
        \/ scWhy \in {"shutdown", "status"} /\ (scS.eof \/ scS.auto \/ scCAt \in {"ended", "died"})

\* A client that waits for a reply gets it, and goes on to the next line.  What stands
\* in the way is the end of the server, or a message sent into a shutdown, whose reply
\* has no association to go to.
ScAnswered ==
    scCAt = "recv" ~> scCAt # "recv" \/ scSAt = "died" \/ scLost
=============================================================================
