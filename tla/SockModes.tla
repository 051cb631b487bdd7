----------------------------- MODULE SockModes ------------------------------
(***************************************************************************)
(* The sock program of src/unpv13e/sock in two of its modes: over UDP, and *)
(* as a server that forks.  (SockTool has its loops over TCP.)             *)
(***************************************************************************)
EXTENDS Integers, Sequences, FiniteSets

(***************************************************************************)
(* The sock program of src/unpv13e/sock over UDP: loop_udp on both sides,  *)
(* or source_udp to sink_udp.  The client "c" is connected unless it has   *)
(* -o; the server "s" is connected only with -f.  loop_udp's servaddr is a *)
(* variable of its own, which hides the address that cliopen has set and   *)
(* has no value before the first recvfrom.                                 *)
(*                                                                         *)
(* Datagrams are numbered by their sender; 0 is an empty one.              *)
(***************************************************************************)

CONSTANT
    SuLines     \* how many lines are typed on each side, and buffers a source sends

ASSUME SuAssumption == SuLines \in Nat

VARIABLES
    suProg,         \* each side: its body and its options
    suAt, suReady,  \* where it is, what select has found
    suSent,         \* lines read and sent, or buffers
    suAddr,         \* the client's local servaddr
    suBox,          \* datagrams received and not read
    suErr,          \* an ICMP error waits on a connected socket
    suOut,          \* datagrams shown
    suEnd           \* why a side has ended

suVars == <<suProg, suAt, suReady, suSent, suAddr, suBox, suErr, suOut, suEnd>>

SuSide == {"c", "s"}
SuOther(e) == IF e = "c" THEN "s" ELSE "c"

\* A client: a loop or, with -i, a source (W: -W; 0: -w 0); a server: a loop or a sink.
SuClients == [body : {"select"}, opts : SUBSET {"o", "Z"}] \cup [body : {"source"}, opts : SUBSET {"o", "W", "0"}]
SuServers == [body : {"select"}, opts : {{}, {"f"}}] \cup [body : {"sock"}, opts : {{}, {"Z"}}]

SuInit ==
    /\ suProg \in [c : SuClients, s : SuServers]
    /\ suAt = [e \in SuSide |-> suProg[e].body] /\ suReady = [e \in SuSide |-> {}]
    /\ suSent = [e \in SuSide |-> 0] /\ suAddr = "garbage"
    /\ suBox = [e \in SuSide |-> <<>>] /\ suErr = [e \in SuSide |-> "no"]
    /\ suOut = [e \in SuSide |-> <<>>] /\ suEnd = [e \in SuSide |-> "runs"]

SuHas(e, o) == o \in suProg[e].opts
SuConnected(e) == IF e = "c" THEN ~SuHas(e, "o") ELSE SuHas(e, "f")
SuGo(e, to) == suAt' = [suAt EXCEPT ![e] = to]
SuEnds(e, why) == SuGo(e, "gone") /\ suEnd' = [suEnd EXCEPT ![e] = why]

SuSelect(e) ==
    /\ suAt[e] = "select"
    /\ \E ready \in SUBSET {"in", "sock"} \ {{}} :
        /\ "sock" \in ready <=> suBox[e] # <<>> \/ suErr[e] = "yes"
        /\ suReady' = [suReady EXCEPT ![e] = ready]
        /\ SuGo(e, IF "in" \in ready THEN "stdin" ELSE "sock")
    /\ UNCHANGED <<suProg, suSent, suAddr, suBox, suErr, suOut, suEnd>>

(***************************************************************************)
(* Sending.  A datagram arrives or is lost; if nobody is there a connected *)
(* socket may hear of it later.                                            *)
(***************************************************************************)
SuArrives(e, d) ==
    LET o == SuOther(e)
    IN  \/ /\ suAt[o] # "gone" /\ suBox' = [suBox EXCEPT ![o] = Append(@, d)] /\ UNCHANGED suErr
        \/ UNCHANGED <<suBox, suErr>>
        \/ /\ suAt[o] = "gone" /\ SuConnected(e) /\ suErr' = [suErr EXCEPT ![e] = "yes"]
           /\ UNCHANGED suBox

SuNextAt(e) == IF suProg[e].body = "source" THEN "source" ELSE IF "sock" \in suReady[e] THEN "sock" ELSE "select"

\* Where a datagram of side e goes: connectudp is 1 on a server, which writes to a
\* socket that may not be connected; the client with -o uses its local servaddr, the
\* source the global one.
SuTo(e) ==
    IF SuConnected(e) \/ suProg[e].body = "source" THEN "peer"
    ELSE IF e = "s" THEN "nowhere" ELSE suAddr

SuTransmit(e, d) ==
    \/ /\ SuTo(e) = "peer" /\ suErr[e] = "no" /\ SuArrives(e, d)
       /\ SuGo(e, SuNextAt(e)) /\ UNCHANGED suEnd
    \/ \* the error of an earlier datagram, no destination, or an address that is none
       /\ SuTo(e) # "peer" \/ suErr[e] = "yes"
       /\ IF SuHas(e, "W") THEN SuGo(e, SuNextAt(e)) /\ UNCHANGED suEnd ELSE SuEnds(e, "dead")
       /\ suErr' = [suErr EXCEPT ![e] = "no"] /\ UNCHANGED suBox
    \/ \* what the uninitialized address holds happens to be an address
       /\ SuTo(e) = "garbage" /\ SuGo(e, SuNextAt(e)) /\ UNCHANGED <<suBox, suErr, suEnd>>

\* loop_udp: a line of input is sent; the end of input ends the loop.
SuStdin(e) ==
    /\ suAt[e] = "stdin"
    /\ IF suSent[e] < SuLines
       THEN SuTransmit(e, suSent[e] + 1) /\ suSent' = [suSent EXCEPT ![e] = @ + 1]
       ELSE SuEnds(e, "input") /\ UNCHANGED <<suSent, suBox, suErr>>
    /\ UNCHANGED <<suProg, suReady, suAddr, suOut>>

source_udp ==
    /\ suAt["c"] = "source"
    /\ IF suSent["c"] < SuLines
       THEN /\ SuTransmit("c", IF SuHas("c", "0") THEN 0 ELSE suSent["c"] + 1)
            /\ suSent' = [suSent EXCEPT !["c"] = @ + 1]
       ELSE SuEnds("c", "source") /\ UNCHANGED <<suSent, suBox, suErr>>
    /\ UNCHANGED <<suProg, suReady, suAddr, suOut>>

(***************************************************************************)
(* Receiving, in loop_udp and in sink_udp.  An empty datagram ends what    *)
(* uses recv.                                                              *)
(***************************************************************************)
SuUsesRecv(e) == suProg[e].body = "sock" \/ (e = "c" /\ SuConnected(e))

SuRecvFails(e) ==
    /\ suAt[e] \in {"sock", "oncemore"} /\ suErr[e] = "yes" /\ suBox[e] = <<>>
    /\ SuEnds(e, "dead") /\ suErr' = [suErr EXCEPT ![e] = "no"]
    /\ UNCHANGED <<suProg, suReady, suSent, suAddr, suBox, suOut>>

SuEmpty(e) == SuUsesRecv(e) /\ Head(suBox[e]) = 0

\* -Z, where recv is used: the datagram is shown by a peek, and again when it is taken.
SuPeeks(e) == SuUsesRecv(e) /\ SuHas(e, "Z")

SuRecv(e) ==
    LET peek == SuPeeks(e) /\ suAt[e] = "sock"
    IN  /\ suAt[e] \in {"sock", "oncemore"} /\ suBox[e] # <<>>
        /\ IF SuEmpty(e)
           THEN SuEnds(e, "eof") /\ UNCHANGED <<suBox, suOut, suAddr>>
           ELSE /\ SuGo(e, IF peek THEN "oncemore" ELSE suProg[e].body)
                /\ suBox' = IF peek THEN suBox ELSE [suBox EXCEPT ![e] = Tail(@)]
                /\ suOut' = [suOut EXCEPT ![e] = Append(@, Head(suBox[e]))]
                /\ suAddr' = IF e = "c" /\ ~SuConnected(e) THEN "peer" ELSE suAddr
                /\ UNCHANGED suEnd
        /\ UNCHANGED <<suProg, suReady, suSent, suErr>>

SuReceives(e) == SuRecvFails(e) \/ SuRecv(e)

loop_udp(e) == suProg[e].body = "select" /\ (SuSelect(e) \/ SuStdin(e) \/ SuReceives(e))
sink_udp(e) == suProg[e].body = "sock" /\ SuReceives(e)

SuStep(e) == loop_udp(e) \/ sink_udp(e) \/ (e = "c" /\ source_udp)

SuNext == \E e \in SuSide : SuStep(e)
SuSpec == SuInit /\ [][SuNext]_suVars

(***************************************************************************)
(* Properties.                                                             *)
(***************************************************************************)

\* A side shows each datagram at most once and in the order sent; with -Z exactly twice
\* in a row, by the peek and when it is taken, however others arrive between the two.
SuOnce ==
    \A e \in SuSide : \A i, j \in DOMAIN suOut[e] :
        i < j /\ suOut[e][i] # 0 => IF SuPeeks(e) /\ j = i + 1 /\ i % 2 = 1
                                  THEN suOut[e][i] = suOut[e][j] ELSE suOut[e][i] < suOut[e][j]

\* Without a connection one side must speak first: what a loop with -o sends reaches
\* the server only after something of the server has reached the client, and nothing
\* does from a server without -f.
SuSpeaksFirst ==
    /\ suProg["c"].body = "select" /\ SuHas("c", "o") /\ suOut["s"] # <<>> => suOut["c"] # <<>>
    /\ suOut["c"] # <<>> => SuHas("s", "f")

\* A source with -w 0 sends empty datagrams only.
SuZero(e) == SuHas(e, "0")

\* Every variable that the properties read keeps its type.
SuTypeOK ==
    /\ suProg \in [c : SuClients, s : SuServers]
    /\ suAt \in [SuSide -> {"select", "stdin", "sock", "oncemore", "source", "gone"}]
    /\ suSent \in [SuSide -> Nat] /\ suAddr \in {"garbage", "peer"}
    /\ suBox \in [SuSide -> Seq(Nat)] /\ suOut \in [SuSide -> Seq(Nat)]

\* Of n datagrams sent, some are in out and some wait in box, in the order sent; between a
\* peek and the taking the first that waits is the last in out too.
SuInOrder(out, box, n, at) ==
    /\ \A i \in DOMAIN box : 0 < box[i] /\ box[i] <= n
    /\ \A i, j \in DOMAIN box : i < j => box[i] < box[j]
    /\ \A i \in DOMAIN out : 0 < out[i] /\ out[i] <= n
    /\ \A i \in DOMAIN out, j \in DOMAIN box : out[i] < box[j] \/ (at = "oncemore" /\ i = Len(out) /\ j = 1)

SuAllEmpty(s) == \A i \in DOMAIN s : s[i] = 0

\* What side e has shown and what waits there.
SuFlow(e) ==
    IF SuZero(SuOther(e)) THEN SuAllEmpty(suOut[e]) /\ SuAllEmpty(suBox[e])
    ELSE SuInOrder(suOut[e], suBox[e], suSent[SuOther(e)], suAt[e])

\* With -Z an odd number has been shown only between peek and taking.
SuPeeked(e) ==
    /\ SuPeeks(e) => (suAt[e] = "oncemore" <=> Len(suOut[e]) % 2 = 1)
    /\ suAt[e] = "oncemore" =>
           /\ SuPeeks(e) /\ ~SuZero(SuOther(e))
           /\ suOut[e] # <<>> /\ suBox[e] # <<>> /\ suOut[e][Len(suOut[e])] = suBox[e][1]

\* Who has heard from whom.
SuHeard ==
    /\ suOut["c"] # <<>> \/ suBox["c"] # <<>> => SuHas("s", "f")
    /\ suAddr = "peer" => suOut["c"] # <<>>
    /\ suProg["c"].body = "select" /\ SuHas("c", "o") /\ (suOut["s"] # <<>> \/ suBox["s"] # <<>>) =>
           suOut["c"] # <<>>

\* The inductive invariant of the sock program over UDP.
SuInv == SuTypeOK /\ (\A e \in SuSide : SuFlow(e) /\ SuPeeked(e)) /\ SuOnce /\ SuHeard

\* The client ends, and the server if it has an input: a sink waits for ever.
SuFinishes == <>(suAt["c"] = "gone" /\ (suAt["s"] = "gone" \/ suProg["s"].body = "sock"))

(***************************************************************************)
(* servopen.c and tellwait.c of src/unpv13e/sock: the server that forks a  *)
(* child for each connection and waits, with SIGUSR2, until the child is   *)
(* done with the terminal.  TELL_WAIT blocks the signal once, before the   *)
(* first accept; WAIT_CHILD puts the old mask back and nothing blocks the  *)
(* signal again.                                                           *)
(***************************************************************************)

CONSTANT
    SfConn      \* bound: how many clients connect

ASSUME SfAssumption == SfConn \in Nat

VARIABLES
    dofork,         \* the option -F
    sfParent,       \* where servopen is
    sfMask,         \* "blocked" or "open": SIGUSR1 and SIGUSR2
    sigflag,
    sfPending,      \* SIGUSR2 sent and not delivered
    sfBacklog,      \* connections that wait in the listen queue
    sfCome,         \* connections so far
    sfKid           \* the place of the child of each connection

sfVars == <<dofork, sfParent, sfMask, sigflag, sfPending, sfBacklog, sfCome, sfKid>>

SfKids == 1 .. SfConn

\* The socket is bound and listens; with -F TELL_WAIT has blocked the signals.
SfInit ==
    /\ dofork \in {0, 1}
    /\ sfParent = "accept" /\ sigflag = 0 /\ sfPending = "no"
    /\ sfMask = IF dofork = 1 THEN "blocked" ELSE "open"
    /\ sfBacklog = 0 /\ sfCome = 0 /\ sfKid = [k \in SfKids |-> "none"]

SfConnect ==
    /\ sfCome < SfConn /\ sfCome' = sfCome + 1 /\ sfBacklog' = sfBacklog + 1
    /\ UNCHANGED <<dofork, sfParent, sfMask, sigflag, sfPending, sfKid>>

SfForked == Cardinality({k \in SfKids : sfKid[k] # "none"})

\* accept, and with -F fork; without it the process itself goes on with the connection
\* and never comes back to accept.
SfAccept ==
    /\ sfParent = "accept" /\ sfBacklog > 0 /\ sfBacklog' = sfBacklog - 1
    /\ IF dofork = 1 THEN sfParent' = "test" /\ sfKid' = [sfKid EXCEPT ![SfForked + 1] = "open"]
                     ELSE sfParent' = "serving" /\ UNCHANGED sfKid
    /\ UNCHANGED <<dofork, sfMask, sigflag, sfPending, sfCome>>

(***************************************************************************)
(* The child: the terminal, the socket options, TELL_PARENT, the service.  *)
(***************************************************************************)
SfKidTells(k) ==
    /\ sfKid[k] = "open" /\ sfKid' = [sfKid EXCEPT ![k] = "serving"]
    /\ sfPending' = "yes"
    /\ UNCHANGED <<dofork, sfParent, sfMask, sigflag, sfBacklog, sfCome>>

\* getsockname, a buffer size or a socket option fails: err_sys before TELL_PARENT.
SfKidFails(k) ==
    /\ sfKid[k] = "open" /\ sfKid' = [sfKid EXCEPT ![k] = "failed"]
    /\ UNCHANGED <<dofork, sfParent, sfMask, sigflag, sfPending, sfBacklog, sfCome>>

SfKidEnds(k) ==
    /\ sfKid[k] = "serving" /\ sfKid' = [sfKid EXCEPT ![k] = "ended"]
    /\ UNCHANGED <<dofork, sfParent, sfMask, sigflag, sfPending, sfBacklog, sfCome>>

(***************************************************************************)
(* tellwait.c.                                                             *)
(***************************************************************************)

\* The signal is delivered where it is not blocked; sigsuspend blocks nothing, and ends
\* with the handler.
sig_usr ==
    /\ sfPending = "yes" /\ (sfMask = "open" \/ sfParent = "suspend")
    /\ sfPending' = "no" /\ sigflag' = 1
    /\ sfParent' = IF sfParent = "suspend" THEN "test" ELSE sfParent
    /\ UNCHANGED <<dofork, sfMask, sfBacklog, sfCome, sfKid>>

\* while (sigflag == 0) ... of WAIT_CHILD.
SfTest ==
    /\ sfParent = "test" /\ sfParent' = IF sigflag = 0 THEN "tosuspend" ELSE "reset"
    /\ UNCHANGED <<dofork, sfMask, sigflag, sfPending, sfBacklog, sfCome, sfKid>>

sigsuspend ==
    /\ sfParent = "tosuspend" /\ sfParent' = "suspend"
    /\ UNCHANGED <<dofork, sfMask, sigflag, sfPending, sfBacklog, sfCome, sfKid>>

\* Mutant: sigflag stays set.
SfReset_keeps ==
    /\ sfParent = "reset" /\ sfParent' = "accept" /\ sfMask' = "open"
    /\ UNCHANGED <<dofork, sigflag, sfPending, sfBacklog, sfCome, sfKid>>

\* sigflag is cleared, then the old mask is restored.
SfReset ==
    /\ sfParent = "reset" /\ sfParent' = "accept" /\ sigflag' = 0 /\ sfMask' = "open"
    /\ UNCHANGED <<dofork, sfPending, sfBacklog, sfCome, sfKid>>

WAIT_CHILD == SfTest \/ sigsuspend \/ SfReset

SfServes == SfAccept \/ WAIT_CHILD \/ sig_usr
SfNext == SfConnect \/ SfServes \/ \E k \in SfKids : SfKidTells(k) \/ SfKidFails(k) \/ SfKidEnds(k)

SfSpec == SfInit /\ [][SfNext]_sfVars

(***************************************************************************)
(* Properties.                                                             *)
(***************************************************************************)

\* "wait for child to output to terminal": while a child is between fork and
\* TELL_PARENT the parent does not go back to accept, and no other child is.
SfTerminalAlone ==
    \A k \in SfKids : sfKid[k] = "open" =>
        /\ sfParent # "accept"
        /\ \A j \in SfKids \ {k} : sfKid[j] # "open"

\* The signal that WAIT_CHILD waits for has come between its test and sigsuspend.
SfMissed == sfParent \in {"tosuspend", "suspend"} /\ sigflag = 1

\* TELL_WAIT keeps the first child's signal from being missed; any later one's can be.
SfFirstIsKept == SfMissed => SfForked > 1

\* Where the terminal is: with a child, on its way back as a signal, or back in sigflag;
\* the parent waits in WAIT_CHILD until it has it.  The mask is open from the first
\* WAIT_CHILD on.
SfWaits == sfParent \in {"test", "tosuspend", "suspend"}
SfInv ==
    /\ dofork \in {0, 1} /\ sfParent \in {"accept", "test", "tosuspend", "suspend", "reset", "serving"}
    /\ sfMask \in {"blocked", "open"} /\ sigflag \in {0, 1} /\ sfPending \in {"no", "yes"}
    /\ sfBacklog \in Nat /\ sfCome \in 0 .. SfConn
    /\ sfKid \in [SfKids -> {"none", "open", "serving", "failed", "ended"}]
    /\ SfForked \in Nat /\ SfForked + sfBacklog <= sfCome
    /\ \A k \in SfKids : sfKid[k] # "none" <=> k <= SfForked
    /\ SfTerminalAlone
    /\ (\E k \in SfKids : sfKid[k] = "open") => sfPending = "no" /\ sigflag = 0 /\ SfWaits
    /\ sfPending = "yes" => sigflag = 0 /\ SfWaits
    /\ sigflag = 1 => sfParent = "reset" \/ SfWaits
    /\ sfParent = "reset" => sigflag = 1
    /\ sfMask = "blocked" /\ sfParent \in {"tosuspend", "suspend"} => sigflag = 0
    /\ dofork = 0 => sfParent \in {"accept", "serving"}
    /\ dofork = 1 /\ sfParent # "accept" => SfForked >= IF sfMask = "open" THEN 2 ELSE 1
    /\ dofork = 1 /\ sfMask = "open" => SfForked >= 1

\* The listen queue is emptied, unless the server serves only one, a child failed
\* before TELL_PARENT or its signal was missed: then the parent sleeps for good.
SfAccepted ==
    sfBacklog > 0 ~> sfBacklog = 0 \/ dofork = 0 \/ SfMissed \/ \E k \in SfKids : sfKid[k] = "failed"

\* Datagrams are shown once and in order and nobody answers an address it does not have
\* (SuOnce in SuInv, SuSpeaksFirst); a child of the forking server has the terminal to
\* itself, and the first child's signal is kept (SfTerminalAlone in SfInv, SfFirstIsKept).
SockModesSound == SuInv /\ SuSpeaksFirst /\ SfInv /\ SfFirstIsKept
=============================================================================
