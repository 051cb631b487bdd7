----------------------------- MODULE MuduoApps -----------------------------
(***************************************************************************)
(* The programs of src/mudo C++ 网络库 that are written on muduo itself:   *)
(* the echo servers test8.cc and echoserver.cpp, the finger server         *)
(* test9.cpp, and TimeServer.cpp with TimeClient.cpp.  muduo (external)    *)
(* reads what has come into a connection's buffer and calls onMessage,     *)
(* buffers what is sent, and closes its half once that is written; what    *)
(* is sent after shutdown is dropped.                                      *)
(*                                                                         *)
(* The stream cuts bytes anywhere.  A 32 bit integer is four digits to the *)
(* base MdBase.                                                            *)
(***************************************************************************)
EXTENDS Integers, Sequences, SequencesExt

CONSTANTS
    MdScripts,  \* what a client of the echo and finger servers sends
    MdBase,     \* values of a byte
    MdNow,      \* times
    MdDone      \* bound: completions reported by echoserver.cpp

VARIABLES
    md,         \* the server's program
    mdWire,     \* bytes on the way to the server
    mdBuf,      \* the server's input buffer
    mdState,    \* the server's side: "new", "up", "half" (shutdown called), "down"
    mdOut,      \* what send has accepted and the kernel has not taken
    mdToC,      \* what is on the way to the client
    mdFin,      \* the server's end of stream has been sent
    mdGot,      \* what the client has received; the time client's input buffer
    mdShown,    \* the times shown
    mdCli,      \* "up", "closed" (quit, for the time client)
    mdScript, mdTime

mdServer == <<mdWire, mdBuf, mdState>>
mdClient == <<mdGot, mdShown, mdCli>>
mdInput == <<md, mdScript, mdTime>>
mdVars == <<mdInput, mdServer, mdOut, mdToC, mdFin, mdClient>>

MdInit ==
    /\ md \in {"test8", "echoserver", "test9", "time"}
    /\ mdScript \in IF md = "time" THEN {<<>>} ELSE MdScripts
    /\ mdTime \in IF md = "time" THEN MdNow ELSE {0}
    /\ mdWire = mdScript /\ mdBuf = <<>> /\ mdState = "new"
    /\ mdOut = <<>> /\ mdToC = <<>> /\ mdFin = FALSE
    /\ mdGot = <<>> /\ mdShown = <<>> /\ mdCli = "up"

(***************************************************************************)
(* TcpConnection.                                                          *)
(***************************************************************************)
MdSend(out, bytes) == IF mdState = "half" THEN out ELSE out \o bytes

\* The kernel takes some of what is to be sent; shutdown takes effect when all is
\* written, and the write complete callback runs then.
MdWriteComplete ==
    IF md = "echoserver" /\ mdState # "half" THEN <<"done">> ELSE <<>>

MdWrite ==
    /\ mdOut # <<>>
    /\ md = "echoserver" => Len(SelectSeq(mdGot \o mdToC, LAMBDA b : b = "done")) < MdDone
    /\ \E k \in 1 .. Len(mdOut) :
          /\ mdToC' = mdToC \o SubSeq(mdOut, 1, k)
          /\ mdOut' = IF k = Len(mdOut) THEN MdWriteComplete ELSE SubSeq(mdOut, k + 1, Len(mdOut))
    /\ UNCHANGED <<mdInput, mdServer, mdFin, mdClient>>

MdFinish ==
    /\ mdState = "half" /\ mdOut = <<>> /\ ~mdFin
    /\ mdFin' = TRUE
    /\ UNCHANGED <<mdInput, mdServer, mdOut, mdToC, mdClient>>

(***************************************************************************)
(* The callbacks of the servers.                                           *)
(***************************************************************************)

\* The digits of a time, the most significant first; static_cast<int32_t> keeps four.
hostToNetwork32(t) == [i \in 1 .. 4 |-> (t \div (MdBase ^ (4 - i))) % MdBase]

TimeServer_onConnection == mdOut' = hostToNetwork32(mdTime) /\ mdState' = "half"

onConnection ==
    /\ mdState = "new"
    /\ IF md = "time" THEN TimeServer_onConnection ELSE mdState' = "up" /\ UNCHANGED mdOut
    /\ UNCHANGED <<mdInput, mdWire, mdBuf, mdToC, mdFin, mdClient>>

EchoServer_onMessage(buf) == mdBuf' = <<>> /\ mdOut' = MdSend(mdOut, buf) /\ UNCHANGED mdState

echoserver_onMessage(buf) == mdBuf' = <<>> /\ mdOut' = MdSend(mdOut, buf) /\ UNCHANGED mdState

\* The place of the first CR LF, and the answer to a user's name.
findCRLF(buf) == {i \in 1 .. Len(buf) - 1 : buf[i] = "CR" /\ buf[i + 1] = "LF" /\
                      \A j \in 1 .. i - 1 : ~(buf[j] = "CR" /\ buf[j + 1] = "LF")}
getUser(user) == IF user = <<"u">> THEN "well" ELSE "nosuch"

finger_onMessage(buf) ==
    IF findCRLF(buf) = {} THEN mdBuf' = buf /\ UNCHANGED <<mdOut, mdState>>
    ELSE \E crlf \in findCRLF(buf) :
            /\ mdOut' = MdSend(mdOut, <<getUser(SubSeq(buf, 1, crlf - 1)), "CR", "LF">>)
            /\ mdBuf' = SubSeq(buf, crlf + 2, Len(buf)) /\ mdState' = "half"

\* Some bytes come, and onMessage is called with all that is in the buffer.
MdRead ==
    /\ mdState \in {"up", "half"} /\ mdWire # <<>>
    /\ \E k \in 1 .. Len(mdWire) :
          /\ mdWire' = SubSeq(mdWire, k + 1, Len(mdWire))
          /\ LET buf == mdBuf \o SubSeq(mdWire, 1, k)
             IN  CASE md = "test8" -> EchoServer_onMessage(buf)
                   [] md = "echoserver" -> echoserver_onMessage(buf)
                   [] md = "test9" -> finger_onMessage(buf)
    /\ UNCHANGED <<mdInput, mdToC, mdFin, mdClient>>

\* The client has closed: what is left to write is given up.
MdDown ==
    /\ mdState \in {"up", "half"} /\ mdWire = <<>> /\ mdCli = "closed"
    /\ mdState' = "down" /\ mdOut' = <<>>
    /\ UNCHANGED <<mdInput, mdWire, mdBuf, mdToC, mdFin, mdClient>>

(***************************************************************************)
(* The clients.                                                            *)
(***************************************************************************)

\* Mutant: the integer is signed.
networkToHost32_signed(d) ==
    LET v == d[1] * MdBase ^ 3 + d[2] * MdBase ^ 2 + d[3] * MdBase + d[4]
    IN  IF 2 * v >= MdBase ^ 4 THEN v - MdBase ^ 4 ELSE v

networkToHost32(d) == d[1] * MdBase ^ 3 + d[2] * MdBase ^ 2 + d[3] * MdBase + d[4]

TimeClient_onMessage(buf) ==
    IF Len(buf) >= 4
    THEN /\ mdShown' = Append(mdShown, networkToHost32(SubSeq(buf, 1, 4)))
         /\ mdGot' = SubSeq(buf, 5, Len(buf))
    ELSE mdGot' = buf /\ UNCHANGED mdShown

MdClientRead ==
    /\ mdCli = "up" /\ mdToC # <<>>
    /\ \E k \in 1 .. Len(mdToC) :
          /\ mdToC' = SubSeq(mdToC, k + 1, Len(mdToC))
          /\ LET buf == mdGot \o SubSeq(mdToC, 1, k)
             IN  IF md = "time" THEN TimeClient_onMessage(buf) ELSE mdGot' = buf /\ UNCHANGED mdShown
    /\ UNCHANGED <<mdInput, mdServer, mdOut, mdFin, mdCli>>

\* The connection is down: the time client's loop quits, other clients close.
TimeClient_onConnection ==
    /\ mdCli = "up" /\ mdFin /\ mdToC = <<>>
    /\ mdCli' = "closed"
    /\ UNCHANGED <<mdInput, mdServer, mdOut, mdToC, mdFin, mdGot, mdShown>>

\* Other clients may close when they like.
MdClose ==
    /\ mdCli = "up" /\ md # "time"
    /\ mdCli' = "closed"
    /\ UNCHANGED <<mdInput, mdServer, mdOut, mdToC, mdFin, mdGot, mdShown>>

MdRuns == MdWrite \/ MdFinish \/ onConnection \/ MdRead \/ MdDown \/ MdClientRead \/ TimeClient_onConnection
MdNext == MdRuns \/ MdClose

(***************************************************************************)
(* Properties.                                                             *)
(***************************************************************************)
MdSent == mdGot \o mdToC \o mdOut

\* An echo server sends back what it was sent, all of it and in order, however the
\* stream cuts it; echoserver.cpp's reports of completion come between.
EchoIsExact ==
    md \in {"test8", "echoserver"} =>
        IsPrefix(SelectSeq(MdSent, LAMBDA b : b # "done"), mdScript)

\* The finger server answers once, and answers the first line that came, whole.
FingerAnswersFirstLine ==
    md = "test9" /\ Len(mdGot) >= 3 =>
        \E crlf \in findCRLF(mdScript) :
            mdGot = <<getUser(SubSeq(mdScript, 1, crlf - 1)), "CR", "LF">>

\* The time client shows the server's time, once, and only when all of it has come;
\* times of the upper half of the range are not negative.
TimeIsRight ==
    /\ Len(mdShown) <= 1
    /\ \A i \in DOMAIN mdShown : mdTime < MdBase ^ 4 => mdShown[i] = mdTime

\* The time client ends, and has shown the time; who sends a whole line to the finger
\* server and waits is answered; an echo server sends back all that it was sent.
MdServed ==
    \/ md \notin {"test8", "time"} /\ (md = "test9" => findCRLF(mdScript) = {})
    \/ <>(\/ mdCli = "closed" /\ md # "time"
          \/ md = "time" /\ mdCli = "closed" /\ mdShown # <<>>
          \/ md = "test9" /\ Len(mdGot) = 3 /\ mdFin
          \/ md = "test8" /\ mdGot = mdScript)

\* What the examples send and show, however the stream is cut: EchoIsExact,
\* FingerAnswersFirstLine and TimeIsRight.
MuduoSound == EchoIsExact /\ FingerAnswersFirstLine /\ TimeIsRight
=============================================================================
