------------------------------ MODULE StrCli ------------------------------
(***************************************************************************)
(* The TCP echo clients: the versions of str_cli in src/unpv13e (tcpcliserv,*)
(* select, nonblock, threads, advio, oob) and of the copying loops in      *)
(* src/unpv13e/sock, with the programs that call them, and an echo server. *)
(* nonblock/strclinonb.c comes last, with its buffers.                     *)
(*                                                                         *)
(* The input is a sequence of lines, numbered from 1.  A line is counted   *)
(* at every place that it passes:                                          *)
(*   inLines >= inTaken >= gotten >= sent >= echoed >= taken >= shown      *)
(***************************************************************************)
EXTENDS Integers

CONSTANT MaxIn      \* bound: lines of input

ASSUME StrCliAssumption == MaxIn \in Nat

(***************************************************************************)
(* The versions of str_cli.                                                *)
(*   loop    "lockstep": a line, then its echo; "select"; "devpoll": the   *)
(*           same, but standard input stays registered at its end; "fork"  *)
(*           and "thread": a second process or thread copies one way       *)
(*   io      "line": through the buffers of stdio and readline; "raw"      *)
(*   atEof   at the end of the input: "return" or "shutdown"               *)
(*   first   which descriptor is looked at first after select              *)
(*   early   the socket ends before the input: "quit", "return"; "flag":   *)
(*           as the variable done says                                     *)
(***************************************************************************)
Body(loop, io, atEof, first, early) ==
    [loop |-> loop, io |-> io, atEof |-> atEof, first |-> first, early |-> early]

Lockstep == Body("lockstep", "line", "return", "stdin", "quit")

str_cli == Lockstep
str_cli08 == Lockstep
\* A line that is not two numbers is answered with a message: it is not one of the lines.
str_cli09 == Lockstep
\* The line is written in two pieces.
str_cli11 == Lockstep
strcliselect01 == Body("select", "line", "return", "sock", "quit")
\* Mutant: stdio again, on top of select.
strcliselect02_stdio == Body("select", "line", "shutdown", "any", "quit")
strcliselect02 == Body("select", "raw", "shutdown", "sock", "quit")
str_cli_select02 == Body("select", "line", "shutdown", "sock", "quit")
oob_strcliselect02 == Body("select", "line", "shutdown", "sock", "quit")
str_cli_kqueue04 == Body("select", "raw", "shutdown", "sock", "quit")
str_cli_poll03 == Body("devpoll", "raw", "shutdown", "any", "quit")
strclifork == Body("fork", "line", "shutdown", "none", "return")
strclithread == Body("thread", "line", "shutdown", "none", "return")
strclithread2 == Body("thread", "line", "shutdown", "none", "flag")
sock_looptcp == Body("select", "raw", "return", "stdin", "return")
loop_tcp_halfclose == Body("select", "raw", "shutdown", "stdin", "return")
none == Body("none", "raw", "return", "none", "return")

(***************************************************************************)
(* The programs: what they run once they are connected, how their exit     *)
(* closes the connection, and whether a timer ends them.                   *)
(***************************************************************************)
Program(body, ending, timer) == [body |-> body, ending |-> ending, timer |-> timer]
Plain(body) == Program(body, "fin", "no")

tcpcli01 == Plain(str_cli)
\* Five connections, of which the first is used.
tcpcli04 == Plain(str_cli)
tcpcli05 == Plain(str_cli)
\* Three bytes that are no line.
tcpcli06 == Plain(none)
tcpcli07 == Program(str_cli, "fin", "yes")
tcpcli08 == Plain(str_cli08)
tcpcli09 == Plain(str_cli09)
tcpcli10 == Program(str_cli, "rst", "no")
tcpcli11 == Plain(str_cli11)
select_tcpcli01 == Plain(strcliselect01)
select_tcpcli02 == Plain(strcliselect02)
nonblock_tcpcli01 == Plain(strclifork)
nonblock_tcpcli03 == Program(none, "rst", "no")
nonblock_tcpcli04 == Program(str_cli, "rst", "no")
threads_tcpcli01 == Plain(strclithread)
threads_tcpcli02 == Plain(strclithread2)
advio_tcpcli01 == Plain(str_cli)
advio_tcpcli02 == Plain(str_cli_select02)
advio_tcpcli03 == Plain(str_cli_poll03)
advio_tcpcli04 == Plain(str_cli_kqueue04)
oob_tcpcli02 == Plain(oob_strcliselect02)
unixstrcli01 == Plain(str_cli)
ipopts_tcpcli01 == Plain(str_cli)
sock_loop == Plain(sock_looptcp)
sock_h == Plain(loop_tcp_halfclose)

Programs ==
    {tcpcli01, tcpcli04, tcpcli05, tcpcli06, tcpcli07, tcpcli08, tcpcli09, tcpcli10, tcpcli11,
     select_tcpcli01, select_tcpcli02, nonblock_tcpcli01, nonblock_tcpcli03,
     nonblock_tcpcli04, threads_tcpcli01, threads_tcpcli02, advio_tcpcli01, advio_tcpcli02,
     advio_tcpcli03, advio_tcpcli04, oob_tcpcli02, unixstrcli01, ipopts_tcpcli01, sock_loop, sock_h}

VARIABLES
    prog,               \* the program that runs
    buffering,          \* the server: "line" (str_echo), "full" (str_echo_stdio02)
    inLines, inEnd,     \* the input so far, and whether it has ended
    inTaken, gotten,    \* lines read from its descriptor, lines returned to str_cli
    sent, fin,          \* lines written to the socket; "no", "fin" or "rst"
    echoed, server,     \* lines the server has sent back; "up", "closed", "died"
    taken, shown,       \* lines read from the socket, lines written to standard output
    main,               \* where the main loop, or the process or thread that writes, is
    reader,             \* where the second process or thread, which reads, is
    rset,               \* what select has returned and has not been looked at yet
    stdineof,
    outcome             \* "running", or how the program ended

inputVars == <<inLines, inEnd>>
inVars == <<inTaken, gotten, sent>>
peerSide == <<buffering, echoed, server>>
outVars == <<taken, shown>>
strVars == <<prog, inputVars, inVars, fin, peerSide, outVars, main, reader, rset, stdineof, outcome>>

body == prog.body

StrCliInit ==
    /\ prog \in Programs /\ buffering \in {"line", "full"}
    /\ inLines = 0 /\ inEnd = "no" /\ inTaken = 0 /\ gotten = 0 /\ sent = 0 /\ fin = "no"
    /\ echoed = 0 /\ server = "up" /\ taken = 0 /\ shown = 0
    /\ main = "connect" /\ reader = "none" /\ rset = {} /\ stdineof = 0 /\ outcome = "running"

(***************************************************************************)
(* The surroundings.                                                       *)
(***************************************************************************)
Type ==
    /\ inEnd = "no"
    /\ \/ inLines < MaxIn /\ inLines' = inLines + 1 /\ UNCHANGED inEnd
       \/ inEnd' = "eof" /\ UNCHANGED inLines
    /\ UNCHANGED <<prog, inVars, fin, peerSide, outVars, main, reader, rset, stdineof, outcome>>

\* The server of advio/str_echo_stdio02.c sends nothing before its client's FIN.
Echo ==
    /\ server = "up" /\ fin # "rst"
    /\ buffering = "line" \/ fin = "fin"
    /\ IF echoed < sent THEN echoed' = echoed + 1 /\ UNCHANGED server
                        ELSE fin = "fin" /\ server' = "closed" /\ UNCHANGED echoed
    /\ UNCHANGED <<prog, inputVars, inVars, fin, buffering, outVars, main, reader, rset, stdineof, outcome>>

ServerDies ==
    /\ server = "up" /\ main # "connect" /\ server' = "died"
    /\ UNCHANGED <<prog, inputVars, inVars, fin, buffering, echoed, outVars, main, reader, rset,
                   stdineof, outcome>>

(***************************************************************************)
(* The pieces of str_cli.                                                  *)
(***************************************************************************)

\* The program ends, and its connection with it.
End(how) ==
    /\ outcome' = how
    /\ fin' = IF prog.ending = "rst" /\ how = "done" THEN "rst" ELSE IF fin = "no" THEN "fin" ELSE fin

Running == outcome = "running" /\ UNCHANGED <<prog, inputVars, peerSide>>
Keep == UNCHANGED <<fin, outcome>>

\* A line from the input: Fgets takes as much into its buffer as there is.
GetLine ==
    /\ gotten < inLines /\ gotten' = gotten + 1
    /\ inTaken' = IF inTaken = gotten THEN inLines ELSE inTaken

GetAll == inTaken < inLines /\ inTaken' = inLines /\ gotten' = inLines
InputEnds == gotten = inLines /\ inEnd = "eof"

\* A line from the socket, through the buffer of readline; or all there is.
ReadLine ==
    \/ taken < echoed /\ taken = shown /\ taken' = echoed /\ shown' = shown + 1
    \/ shown < taken /\ shown' = shown + 1 /\ UNCHANGED taken

ReadAll == taken < echoed /\ taken' = echoed /\ shown' = echoed
SocketEnds == shown = echoed /\ server # "up"

\* A write to a server that has gone may end the client.
Writes(n) ==
    \/ sent' = n /\ Keep
    \/ server = "died" /\ End("sigpipe") /\ UNCHANGED sent

(***************************************************************************)
(* main: Connect, then str_cli.                                            *)
(***************************************************************************)
Connect ==
    /\ main = "connect" /\ Running
    /\ \/ /\ main' = CASE body.loop = "none" -> "return" [] body.loop \in {"select", "devpoll"} -> "select"
                       [] OTHER -> "gets"
          /\ reader' = IF body.loop \in {"fork", "thread"} THEN "read" ELSE "none"
          /\ Keep
       \/ End("refused") /\ UNCHANGED <<main, reader>>
    /\ UNCHANGED <<inVars, outVars, rset, stdineof>>

Return ==
    /\ main = "return" /\ Running /\ End("done")
    /\ UNCHANGED <<inVars, outVars, main, reader, rset, stdineof>>

\* tcpcli07.c: the handler of SIGALRM calls exit.
sig_alrm_exit ==
    /\ prog.timer = "yes" /\ Running /\ End("alarm")
    /\ UNCHANGED <<inVars, outVars, main, reader, rset, stdineof>>

\* Fgets, then Writen; at the end of the input return or Shutdown.
Gets ==
    /\ main = "gets" /\ Running
    /\ \/ GetLine /\ main' = "write"
       \/ InputEnds /\ main' = (IF body.atEof = "return" THEN "return" ELSE "shutdown") /\ UNCHANGED <<inTaken, gotten>>
    /\ Keep /\ UNCHANGED <<sent, outVars, reader, rset, stdineof>>

Write ==
    /\ main = "write" /\ Running
    /\ Writes(gotten)
    /\ main' = IF body.loop = "lockstep" THEN "read" ELSE "gets"
    /\ UNCHANGED <<inTaken, gotten, outVars, reader, rset, stdineof>>

\* str_cli: the echo of the line.
Read ==
    /\ main = "read" /\ Running
    /\ \/ ReadLine /\ main' = "gets" /\ Keep
       \/ SocketEnds /\ End("premature") /\ UNCHANGED <<outVars, main>>
    /\ UNCHANGED <<inVars, reader, rset, stdineof>>

\* strclifork, strclithread: Shutdown by the process or thread that writes.
ShutdownWr ==
    /\ main = "shutdown" /\ Running
    /\ fin' = "fin" /\ main' = "flag" /\ UNCHANGED outcome
    /\ UNCHANGED <<inVars, outVars, reader, rset, stdineof>>

\* done = 1 in strclithread2; pause in strclifork.
SetDone ==
    /\ main = "flag" /\ Running /\ main' = "over" /\ stdineof' = 1 /\ Keep
    /\ UNCHANGED <<inVars, outVars, reader, rset>>

(***************************************************************************)
(* The loops around select.                                                *)
(***************************************************************************)
Select ==
    /\ main = "select" /\ Running
    /\ rset' = (IF taken < echoed \/ server # "up" THEN {"sock"} ELSE {})
               \cup (IF (stdineof = 0 \/ body.loop = "devpoll") /\ (inTaken < inLines \/ inEnd = "eof")
                     THEN {"stdin"} ELSE {})
    /\ rset' # {} /\ main' = "look"
    /\ Keep /\ UNCHANGED <<inVars, outVars, reader, stdineof>>

Looks(d) == d \in rset /\ (body.first \in {d, "any"} \/ rset = {d})
After(rest) == IF rest = {} THEN "select" ELSE "look"

\* The socket has ended: normal once the input has.
SocketEof == IF stdineof = 1 \/ body.early = "return" THEN "done" ELSE "premature"

LookSock ==
    /\ main = "look" /\ Running /\ Looks("sock")
    /\ rset' = rset \ {"sock"}
    /\ \/ (IF body.io = "raw" THEN ReadAll ELSE ReadLine) /\ main' = After(rset') /\ Keep
       \/ SocketEnds /\ End(SocketEof) /\ UNCHANGED <<outVars, main>>
    /\ UNCHANGED <<inVars, reader, stdineof>>

\* Shutdown, and back to select; the second Shutdown of the /dev/poll version fails
\* when the connection has been closed by both ends.
StdinEof ==
    IF body.atEof = "return"
    THEN main' = "return" /\ Keep /\ UNCHANGED <<stdineof, rset>>
    ELSE IF stdineof = 1 /\ server # "up"
    THEN End("shutdown_error") /\ UNCHANGED <<main, stdineof, rset>>
    ELSE /\ fin' = "fin" /\ stdineof' = 1 /\ UNCHANGED outcome
         /\ rset' = IF body.loop = "devpoll" THEN rset \ {"stdin"} ELSE {}
         /\ main' = After(rset')

LookStdin ==
    /\ main = "look" /\ Running /\ Looks("stdin")
    /\ \/ /\ IF body.io = "raw" THEN GetAll ELSE GetLine
          /\ Writes(gotten') /\ rset' = rset \ {"stdin"} /\ main' = After(rset')
          /\ UNCHANGED stdineof
       \/ InputEnds /\ StdinEof /\ UNCHANGED inVars
    /\ UNCHANGED <<outVars, reader>>

(***************************************************************************)
(* The reading process of strclifork, the reading thread of strclithread.  *)
(***************************************************************************)
ReaderReads ==
    /\ reader = "read" /\ Running
    /\ ReadLine
    /\ Keep /\ UNCHANGED <<inVars, main, reader, rset, stdineof>>

\* kill(getppid(), SIGTERM); return; strclithread2 looks at done first.
ReaderEnds ==
    /\ reader = "read" /\ Running /\ SocketEnds
    /\ End(CASE body.loop = "fork" -> "killed"
             [] body.early = "flag" /\ stdineof = 0 -> "premature"
             [] OTHER -> "done")
    /\ reader' = "over"
    /\ UNCHANGED <<inVars, outVars, main, rset, stdineof>>

copies == Connect \/ Return \/ Gets \/ Write \/ Read \/ ShutdownWr \/ SetDone \/ Select \/ LookSock \/ LookStdin
reads == ReaderReads \/ ReaderEnds

StrCliNext == Type \/ Echo \/ ServerDies \/ copies \/ reads \/ sig_alrm_exit
StrCliSpec == StrCliInit /\ [][StrCliNext]_strVars

(***************************************************************************)
(* Properties.                                                             *)
(***************************************************************************)

\* The counts of lines are ordered as the lines pass.
StrCliTypeOK ==
    /\ prog \in Programs /\ inLines <= MaxIn /\ inTaken <= inLines /\ gotten <= inTaken
    /\ sent <= gotten /\ echoed <= sent /\ taken <= echoed /\ 0 <= shown /\ shown <= taken
    /\ rset \subseteq {"sock", "stdin"} /\ stdineof \in {0, 1}

\* A client that ends as it should has shown the echo of all its input, unless the server
\* ended first.  Two loops do not promise it: strcliselect01 and sock without -h leave at
\* the end of the input, with lines still on their way.
AllShownWhenDone ==
    outcome \in {"done", "killed"} /\ server # "died" =>
        (inEnd = "eof" /\ shown = inLines) \/ body \in {strcliselect01, sock_looptcp, none}

\* "server terminated prematurely" is true: the server ended although the client had not
\* ended its half of the connection.  Not so in strclithread2, where done is set after
\* Shutdown.
PrematureIsTrueElsewhere == outcome = "premature" /\ body # strclithread2 => server = "died"

\* The program ends after its input has, also if the server dies.  A client that waits
\* for each echo and a server that sends it with the next wait for each other.
CliFinishes ==
    inEnd = "eof" ~> outcome # "running" \/ (buffering = "full" /\ body.loop = "lockstep")

\* The versions that mix select with a buffer of their own.
Mixed == {strcliselect01, str_cli_select02, oob_strcliselect02}

\* A line that is typed is shown although the input does not end, except in the versions
\* that do not see in select what their own buffers hold.
LineIsShown ==
    \A k \in 1 .. MaxIn :
        inLines >= k ~> shown >= k \/ outcome # "running" \/ buffering = "full" \/ body \in Mixed

(***************************************************************************)
(* The echo client of src/unpv13e/nonblock/strclinonb.c, all of whose      *)
(* descriptors are nonblocking: the buffers to and fr with two pointers    *)
(* each, select for reading and for writing, writes that take a part.      *)
(*                                                                         *)
(* Bytes are numbered from 1 in the order of the input.                    *)
(***************************************************************************)

CONSTANTS
    MAXLINE,    \* size of each buffer
    MaxBytes    \* bound: bytes of input

ASSUME NonblockAssumption == MAXLINE \in Nat \ {0} /\ MaxBytes \in Nat

VARIABLES
    nbTyped, nbInput,           \* bytes of input so far; "open" or "eof"
    nbTaken,                    \* bytes read from standard input
    to, toiptr, tooptr,
    nbSent, nbFins,             \* bytes sent; calls of Shutdown
    nbEchoed, nbServer,         \* bytes echoed; "up", "closed", "died"
    nbGot,                      \* bytes read from the socket
    fr, friptr, froptr,
    nbShown,                    \* bytes written to standard output
    nbEof,                      \* stdineof
    nbR, nbW,                   \* rset and wset after select
    nbAt                        \* the next part of the loop, or how str_cli ended

nbEnv == <<nbTyped, nbInput, nbEchoed, nbServer>>
toVars == <<nbTaken, to, toiptr, tooptr, nbSent, nbFins, nbEof>>
frVars == <<nbGot, fr, friptr, froptr, nbShown>>
nonbVars == <<nbEnv, toVars, frVars, nbR, nbW, nbAt>>

Buffer == [0 .. MAXLINE - 1 -> 0 .. MaxBytes]
Least(a, b) == IF a <= b THEN a ELSE b

NonbInit ==
    /\ nbTyped = 0 /\ nbInput = "open" /\ nbTaken = 0
    /\ to = [i \in 0 .. MAXLINE - 1 |-> 0] /\ toiptr = 0 /\ tooptr = 0
    /\ nbSent = 0 /\ nbFins = 0 /\ nbEchoed = 0 /\ nbServer = "up" /\ nbGot = 0
    /\ fr = to /\ friptr = 0 /\ froptr = 0 /\ nbShown = 0
    /\ nbEof = 0 /\ nbR = {} /\ nbW = {} /\ nbAt = "select"

(***************************************************************************)
(* The input and the server, which echoes byte by byte.                    *)
(***************************************************************************)
NbType ==
    /\ nbInput = "open"
    /\ \/ nbTyped < MaxBytes /\ nbTyped' = nbTyped + 1 /\ UNCHANGED nbInput
       \/ nbInput' = "eof" /\ UNCHANGED nbTyped
    /\ UNCHANGED <<nbEchoed, nbServer, toVars, frVars, nbR, nbW, nbAt>>

NbEcho ==
    /\ nbServer = "up"
    /\ IF nbEchoed < nbSent THEN nbEchoed' = nbEchoed + 1 /\ UNCHANGED nbServer
                            ELSE nbFins > 0 /\ nbServer' = "closed" /\ UNCHANGED nbEchoed
    /\ UNCHANGED <<nbTyped, nbInput, toVars, frVars, nbR, nbW, nbAt>>

NbServerDies ==
    /\ nbServer = "up" /\ nbServer' = "died"
    /\ UNCHANGED <<nbTyped, nbInput, nbEchoed, toVars, frVars, nbR, nbW, nbAt>>

(***************************************************************************)
(* str_cli.                                                                *)
(***************************************************************************)
InputReady == nbTaken < nbTyped \/ nbInput = "eof"
SockReady == nbGot < nbEchoed \/ nbServer # "up"

WantRead ==
    (IF nbEof = 0 /\ toiptr < MAXLINE THEN {"stdin"} ELSE {}) \cup (IF friptr < MAXLINE THEN {"sock"} ELSE {})
WantWrite == (IF tooptr # toiptr THEN {"sock"} ELSE {}) \cup (IF froptr # friptr THEN {"stdout"} ELSE {})

\* The socket and standard output are writable or not as their readers please.
NbSelect ==
    /\ nbAt = "select"
    /\ \E w \in SUBSET WantWrite :
          /\ nbW' = w
          /\ nbR' = {d \in WantRead : IF d = "stdin" THEN InputReady ELSE SockReady}
    /\ nbR' \cup nbW' # {} /\ nbAt' = "stdin"
    /\ UNCHANGED <<nbEnv, toVars, frVars>>

\* n bytes, numbered from first on, into buffer b at i.
Fill(b, i, n, first) == [j \in DOMAIN b |-> IF i <= j /\ j < i + n THEN first + j - i ELSE b[j]]

\* Mutant: the FIN does not wait for what stands in to.
FinAtEof_always == 1
FinAtEof == IF tooptr = toiptr THEN 1 ELSE 0

ReadStdin ==
    /\ nbAt = "stdin" /\ nbAt' = "sock"
    /\ IF "stdin" \notin nbR THEN UNCHANGED <<toVars, nbW>>
       ELSE IF nbTaken = nbTyped
       THEN nbEof' = 1 /\ nbFins' = nbFins + FinAtEof /\ UNCHANGED <<nbTaken, to, toiptr, tooptr, nbSent, nbW>>
       ELSE LET n == Least(nbTyped - nbTaken, MAXLINE - toiptr) IN
            /\ to' = Fill(to, toiptr, n, nbTaken + 1)
            /\ nbTaken' = nbTaken + n /\ toiptr' = toiptr + n /\ nbW' = nbW \cup {"sock"}
            /\ UNCHANGED <<tooptr, nbSent, nbFins, nbEof>>
    /\ UNCHANGED <<nbEnv, frVars, nbR>>

ReadSock ==
    /\ nbAt = "sock"
    /\ IF "sock" \notin nbR THEN nbAt' = "stdout" /\ UNCHANGED <<frVars, nbW>>
       ELSE IF nbGot = nbEchoed
       THEN nbAt' = (IF nbEof = 1 THEN "done" ELSE "premature") /\ UNCHANGED <<frVars, nbW>>
       ELSE LET n == Least(nbEchoed - nbGot, MAXLINE - friptr) IN
            /\ fr' = Fill(fr, friptr, n, nbGot + 1)
            /\ nbGot' = nbGot + n /\ friptr' = friptr + n /\ nbW' = nbW \cup {"stdout"}
            /\ nbAt' = "stdout" /\ UNCHANGED <<froptr, nbShown>>
    /\ UNCHANGED <<nbEnv, toVars, nbR>>

\* A part is written, or nothing (EWOULDBLOCK); after all of it both pointers go back.
WriteStdout ==
    /\ nbAt = "stdout" /\ nbAt' = "sockw"
    /\ \/ UNCHANGED frVars
       \/ \E n \in 1 .. friptr - froptr :
            /\ "stdout" \in nbW /\ nbShown' = nbShown + n
            /\ IF froptr + n = friptr THEN friptr' = 0 /\ froptr' = 0 ELSE froptr' = froptr + n /\ UNCHANGED friptr
            /\ UNCHANGED <<nbGot, fr>>
    /\ UNCHANGED <<nbEnv, toVars, nbR, nbW>>

\* The same for the socket, and the FIN if the input has ended; a server that has gone
\* may end the client.
WriteSock ==
    /\ nbAt = "sockw"
    /\ \/ UNCHANGED toVars /\ nbAt' = "select"
       \/ \E n \in 1 .. toiptr - tooptr :
            /\ "sock" \in nbW /\ nbSent' = nbSent + n
            /\ IF tooptr + n = toiptr
               THEN toiptr' = 0 /\ tooptr' = 0 /\ nbFins' = nbFins + nbEof
               ELSE tooptr' = tooptr + n /\ UNCHANGED <<toiptr, nbFins>>
            /\ nbAt' = "select" /\ UNCHANGED <<nbTaken, to, nbEof>>
       \/ /\ "sock" \in nbW /\ toiptr > tooptr /\ nbServer = "died"
          /\ nbAt' = "sigpipe" /\ UNCHANGED toVars
    /\ UNCHANGED <<nbEnv, frVars, nbR, nbW>>

str_cli_nonb == NbSelect \/ ReadStdin \/ ReadSock \/ WriteStdout \/ WriteSock
NonbNext == NbType \/ NbEcho \/ NbServerDies \/ str_cli_nonb
NonbSpec == NonbInit /\ [][NonbNext]_nonbVars

(***************************************************************************)
(* Properties.                                                             *)
(***************************************************************************)

\* Between its two pointers each buffer holds the bytes that have been read and not been
\* written, in order; a buffer that has been emptied starts again at its beginning.
BuffersHold ==
    /\ 0 <= tooptr /\ tooptr <= toiptr /\ toiptr <= MAXLINE /\ to \in Buffer
    /\ 0 <= froptr /\ froptr <= friptr /\ friptr <= MAXLINE /\ fr \in Buffer
    /\ nbSent + toiptr - tooptr = nbTaken /\ nbShown + friptr - froptr = nbGot
    /\ \A i \in tooptr .. toiptr - 1 : to[i] = nbSent + 1 + i - tooptr
    /\ \A i \in froptr .. friptr - 1 : fr[i] = nbShown + 1 + i - froptr
    /\ tooptr = toiptr => toiptr = 0
    /\ froptr = friptr => friptr = 0

\* Shutdown is called once, when the input has ended and all of it has been sent, at
\* whichever of its two places comes last.
FinOnceAfterAll ==
    /\ nbFins = IF nbEof = 1 /\ nbSent = nbTaken THEN 1 ELSE 0
    /\ nbEof = 1 => nbInput = "eof" /\ nbTaken = nbTyped

\* At normal termination all bytes have been echoed and read, if the server lived; what
\* standard output has not yet taken still stands in fr, and is lost.
NonbDone ==
    nbAt = "done" /\ nbServer = "closed" => nbShown + friptr - froptr = nbTyped

\* The client ends after its input has, however little each write takes: neither full
\* buffer makes it and the server wait for each other.
NonbFinishes == nbInput = "eof" ~> nbAt \in {"done", "premature", "sigpipe"}

\* The str_cli functions, blocking or not: whoever ends as it should has shown all of its
\* input (AllShownWhenDone, NonbDone), "server terminated prematurely" is true
\* (PrematureIsTrueElsewhere), nothing is lost or repeated on the way (StrCliTypeOK,
\* BuffersHold) and the FIN goes out once, after everything (FinOnceAfterAll).
StrCliSound ==
    /\ StrCliTypeOK /\ AllShownWhenDone /\ PrematureIsTrueElsewhere
    /\ BuffersHold /\ FinOnceAfterAll /\ NonbDone
===========================================================================
