------------------------------ MODULE LabTest ------------------------------
(***************************************************************************)
(* The lab exercise as a whole (src/实验室任务): the tester thread of      *)
(* test_client.cpp generates strings, registers each one with the referee  *)
(* by gRPC and queues it; the client's main thread sends the queue over    *)
(* TCP; the main thread of test_server.cpp receives and commits.           *)
(*                                                                         *)
(* The framed TCP connection is the channel MsgChannel, which StickyPacket *)
(* implements: test_client.cpp and test_server.cpp carry the same sendMsg, *)
(* writen, recvMsg and readn.                                              *)
(***************************************************************************)
EXTENDS NetworkTestServer, SequencesExt

CONSTANTS
    Batches,   \* the numbers of messages RunClientTest generates between checks
    MaxU32     \* the largest uint32_t

Lab == "lab"   \* the one connection

VARIABLES
    pc,             \* the tester: "gen", "push", "check", "done", "passed", "thrown"
    batchNo, left,  \* the batch being generated, and how many are left of it
    gen,            \* history: the strings generated
    lost,           \* history: those whose AnswerRegister call failed
    SendSeq, SuccessMaxIdx,
    msgs,           \* the MsgBuf between the two threads of the client
    chan, recvd, cut,   \* the connection
    reset,          \* the connection was reset, not closed
    up              \* the server process runs

tester == <<pc, batchNo, left, gen, lost, SendSeq, SuccessMaxIdx>>
link == <<chan, recvd, cut>>
labVars == <<refvars, tester, msgs, link, reset, up>>

Tcp == INSTANCE MsgChannel WITH Conn <- {Lab}

ASSUME LabAssumption ==
    /\ Batches \in Seq(Nat \ {0}) /\ Batches # <<>>
    /\ MaxU32 \in Nat
    /\ Blank = <<>>
    /\ \A m \in Msg : m \in Seq(Nat) /\ \A n \in 1 .. Len(m) : SubSeq(m, 1, n) \in Msg

LabInit ==
    /\ RefInit
    /\ Tcp!ChInit
    /\ pc = "gen" /\ batchNo = 1 /\ left = Batches[1]
    /\ gen = <<>> /\ lost = {}
    /\ SendSeq = MaxU32 /\ SuccessMaxIdx = MaxU32      \* uint32_t initialised with -1
    /\ msgs = <<>>
    /\ reset = FALSE /\ up = TRUE

(***************************************************************************)
(* The tester thread: genAsciiMsg and genBinMsg, Check, RunClientTest.     *)
(***************************************************************************)
Larger(x, y) == IF x < y THEN y ELSE x
ErrorLevel == {"Diff", "TestError"}

\* What QueryStatus and SendAnswer do with a response.
Digest(r, next) ==
    IF r.reason \in ErrorLevel
    THEN pc' = "thrown" /\ UNCHANGED SuccessMaxIdx
    ELSE /\ pc' = next
         /\ SuccessMaxIdx' = IF r.reason = "Success" THEN Larger(SuccessMaxIdx, r.id)
                                                     ELSE SuccessMaxIdx

\* A call that fails leaves the response as constructed, reason 0, which is
\* Success; the exception for it is constructed but not thrown.
NoResponse == Result(0, "Success")

\* Mutant: a call that failed is repeated, although it was executed.
SendAnswer_retry(s) ==
    /\ pc = "gen" /\ up /\ seq + 1 < MaxSeq
    /\ SendSeq' = (SendSeq + 1) % (MaxU32 + 1)
    /\ gen' = Append(gen, s)
    /\ seq' = seq + 2
    /\ info' = [info EXCEPT ![seq + 1] = MessageInfo(s, Blank), ![seq + 2] = MessageInfo(s, Blank)]
    /\ Digest(NoResponse, "push")
    /\ UNCHANGED <<status, recv_seq, cmp, reply, compared, lost, batchNo, left, msgs, link, reset, up>>

\* SendAnswer; the string is pushed after it returns.  The call is executed, and
\* its response may get lost, or it never reaches the referee.
SendAnswer(s) ==
    /\ pc = "gen"
    /\ SendSeq' = (SendSeq + 1) % (MaxU32 + 1)
    /\ gen' = Append(gen, s)
    /\ \/ /\ up
          /\ AnswerRegister(s)
          /\ \E r \in {reply', NoResponse} : Digest(r, "push")
          /\ UNCHANGED lost
       \/ /\ UNCHANGED refvars
          /\ Digest(NoResponse, "push")
          /\ lost' = lost \cup {Len(gen) + 1}
    /\ UNCHANGED <<batchNo, left, msgs, link, reset, up>>

push ==
    /\ pc = "push"
    /\ msgs' = Append(msgs, Last(gen))
    /\ left' = left - 1
    /\ pc' = IF left = 1 THEN "check" ELSE "gen"
    /\ UNCHANGED <<refvars, batchNo, gen, lost, SendSeq, SuccessMaxIdx, link, reset, up>>

\* The outcome of Check is only printed, the next batch follows in any case.
AfterCheck == IF batchNo = Len(Batches) THEN "done" ELSE "gen"

Check ==
    /\ pc = "check"
    /\ IF SendSeq <= SuccessMaxIdx
       THEN pc' = AfterCheck /\ UNCHANGED <<refvars, SuccessMaxIdx>>
       ELSE up /\ ResultQuery(SendSeq) /\ Digest(reply', AfterCheck)
    /\ batchNo' = batchNo + 1
    /\ left' = IF batchNo = Len(Batches) THEN 0 ELSE Batches[batchNo + 1]
    /\ UNCHANGED <<gen, lost, SendSeq, msgs, link, reset, up>>

\* "Success Pass All Test", _exit(0): the main thread ends wherever it is.
Pass ==
    /\ pc = "done"
    /\ pc' = "passed"
    /\ msgs' = <<>>
    /\ Tcp!Cut(Lab)
    /\ UNCHANGED <<refvars, batchNo, left, gen, lost, SendSeq, SuccessMaxIdx, reset, up>>

(***************************************************************************)
(* The client's main thread: pop, skip an empty string, sendMsg.  On a     *)
(* connection that was reset sendMsg fails and the loop goes on.           *)
(***************************************************************************)

\* Mutant: an empty string ends the loop.
ClientMain_break ==
    /\ msgs # <<>> /\ Head(msgs) # Blank
    /\ msgs' = Tail(msgs)
    /\ IF cut[Lab] THEN UNCHANGED link ELSE Tcp!Put(Lab, Head(msgs))
    /\ UNCHANGED <<refvars, tester, reset, up>>

ClientMain ==
    /\ msgs # <<>>
    /\ msgs' = Tail(msgs)
    /\ IF Head(msgs) = Blank \/ cut[Lab] THEN UNCHANGED link ELSE Tcp!Put(Lab, Head(msgs))
    /\ UNCHANGED <<refvars, tester, reset, up>>

\* The network resets the connection.
Reset ==
    /\ ~cut[Lab]
    /\ reset' = TRUE
    /\ Tcp!Cut(Lab)
    /\ UNCHANGED <<refvars, tester, msgs, up>>

(***************************************************************************)
(* The server's main thread.                                               *)
(***************************************************************************)
ServerMain ==
    /\ up
    /\ Tcp!Get(Lab)
    /\ commit(Head(chan[Lab]))
    /\ UNCHANGED <<tester, msgs, reset, up>>

\* recvMsg returns less than a message: what there is of it is committed, or the
\* socket closed if there is nothing.
ServerMain_short ==
    /\ up /\ ~reset
    /\ Tcp!GetDamaged(Lab)
    /\ LET buf == Last(recvd'[Lab]).buf
       IN  IF buf = <<>> THEN UNCHANGED refvars ELSE commit(buf)
    /\ UNCHANGED <<tester, msgs, reset, up>>

\* A reset inside the body: recvMsg returns -1, std::string(buf, -1) throws and
\* the process ends.  Inside the header the error is overlooked and the length
\* is 0 or followed by end of stream: the socket is closed.
ServerMain_reset ==
    /\ up /\ reset
    /\ Tcp!GetDamaged(Lab)
    /\ up' \in {Last(recvd'[Lab]).buf = <<>>, FALSE}
    /\ UNCHANGED <<refvars, tester, msgs, reset>>

Server == ServerMain \/ ServerMain_short \/ ServerMain_reset

LabNext ==
    \/ \E s \in Text : SendAnswer(s)
    \/ push \/ Check \/ Pass
    \/ ClientMain \/ Reset
    \/ Server

LabSpec == LabInit /\ [][LabNext]_labVars

(***************************************************************************)
(* Properties.                                                             *)
(***************************************************************************)

\* The strings pushed to the client's main thread.
Pushed == IF pc = "push" THEN Front(gen) ELSE gen
Sendable == SelectSeq(Pushed, LAMBDA s : s # Blank)

\* Neither an empty string, which is registered but never sent, nor one whose registration
\* failed is among the first k.
NoneLost(k) == k <= Len(gen) /\ \A j \in 1 .. k : j \notin lost
Clean(k) == NoneLost(k) /\ \A j \in 1 .. k : gen[j] # Blank

\* The referee's k-th entry pairs the k-th string's answer with the message that
\* arrived for it, whole unless it is the one the client's exit cut short; this
\* breaks down only after an empty string or a failed registration.
Paired ==
    \A k \in 1 .. recv_seq :
        Clean(k) =>
            /\ info[k].ptr = "live" /\ info[k].answer = gen[k]
            /\ \/ info[k].msg = gen[k]
               \/ cut[Lab] /\ k = recv_seq /\ IsPrefix(info[k].msg, gen[k])

\* How many strings the main thread was given, has popped, and has sent.
NPushed == IF pc = "push" THEN Len(gen) - 1 ELSE Len(gen)
Popped == NPushed - Len(msgs)
Sent == recv_seq + Len(chan[Lab])

LabTypeOK ==
    /\ pc \in {"gen", "push", "check", "done", "passed", "thrown"}
    /\ gen \in Seq(Text) /\ lost \subseteq 1 .. Len(gen) /\ (pc = "push" => gen # <<>>)
    /\ msgs \in Seq(Text)
    /\ chan \in [{Lab} -> Seq(Msg)] /\ cut \in [{Lab} -> BOOLEAN]
    /\ recvd \in [{Lab} -> Seq([whole : BOOLEAN, buf : Text])]
    /\ SendSeq \in 0 .. MaxU32

\* The tester never queries, because SuccessMaxIdx starts at the largest uint32_t, so that
\* no entry is ever compared or erased.
Quiet == status = "Success" /\ cmp = 0 /\ SuccessMaxIdx = MaxU32

\* Up to the first loss, answers stand where their strings were generated.
Registered ==
    /\ lost = {} => seq = Len(gen)
    /\ \A k \in 1 .. Len(gen) : NoneLost(k) => k <= seq /\ info[k].answer = gen[k]

\* A string is on its way at its own position.
OnItsWay ==
    /\ Sent <= Len(gen)
    /\ ~cut[Lab] =>
          /\ Sent <= Popped
          /\ \A i \in 1 .. Len(msgs) : msgs[i] = gen[Popped + i]
          /\ \A k \in 1 .. Popped : Clean(k) => k <= Sent
    /\ ~Tcp!Damaged(Lab) =>
          \A i \in 1 .. Len(chan[Lab]) : Clean(recv_seq + i) => chan[Lab][i] = gen[recv_seq + i]

\* Only the last message that arrived is not whole, and none arrives after it.
Arrived ==
    \A k \in 1 .. recv_seq :
        Clean(k) => \/ info[k].msg = gen[k]
                    \/ /\ cut[Lab] /\ Tcp!Damaged(Lab)
                       /\ k = recv_seq /\ IsPrefix(info[k].msg, gen[k])

\* The inductive invariant.
LabInv == RefInv /\ LabTypeOK /\ Quiet /\ Registered /\ OnItsWay /\ Arrived

\* The k-th answer meets the k-th message (Paired), with the invariant this follows from,
\* from the first string on.
LabPaired == gen # <<>> => LabInv /\ Paired

\* Every string pushed that is not empty is eventually committed, unless the
\* connection ends first.
EventuallyCommitted ==
    \A n \in 1 .. MaxSeq : (Len(Sendable) >= n) ~> (recv_seq >= n \/ cut[Lab])

\* "Success Pass All Test" (test_client.cpp:217): if no call failed and the
\* connection was not reset, the referee has compared every string.
PassMeansCompared == pc = "passed" /\ lost = {} /\ ~reset => cmp = Len(gen)
=============================================================================
