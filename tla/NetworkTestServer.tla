------------------------ MODULE NetworkTestServer ------------------------
(***************************************************************************)
(* The referee of the lab exercise (class NetworkTestServer in             *)
(* src/实验室任务/test_server.cpp): gRPC calls register the expected       *)
(* answers, the student's server commits the messages it received, and a   *)
(* query compares them.  Every operation holds mtx, so it is one action.   *)
(*                                                                         *)
(* Here any gRPC client may call, in any order; LabTest composes the       *)
(* referee with the programs of the exercise.                              *)
(***************************************************************************)
EXTENDS Integers, Sequences, FiniteSets

CONSTANTS
    Msg,      \* message contents
    Blank,    \* the empty std::string
    MaxSeq    \* bound: registrations and commits

ASSUME RefereeAssumption == Blank \notin Msg /\ MaxSeq \in Nat

TestStatus == {"Success", "Wait", "WaitRPC", "Diff", "TestError"}
Index == 1 .. MaxSeq
Text == Msg \cup {Blank}

\* What an entry of the map points to.
MessageInfo(answer, msg) == [ptr |-> "live", answer |-> answer, msg |-> msg]
Null == [ptr |-> "null", answer |-> Blank, msg |-> Blank]     \* or no entry
Freed == [ptr |-> "freed", answer |-> Blank, msg |-> Blank]   \* deleted

VARIABLES
    status,
    info,                \* Index -> what info[k] points to
    recv_seq, seq, cmp,
    reply,               \* the Result of the last gRPC call
    compared             \* history: the MessageInfo that Update compared, in order

refvars == <<status, info, recv_seq, seq, cmp, reply, compared>>

Result(i, r) == [id |-> i, reason |-> r]

RefInit ==
    /\ status = "Success"
    /\ info = [k \in Index |-> Null]
    /\ recv_seq = 0 /\ seq = 0 /\ cmp = 0
    /\ reply = Result(0, "Success")
    /\ compared = <<>>

\* AnswerRegister: always a new MessageInfo, whatever the entry held.
AnswerRegister(content) ==
    IF status # "Success"
    THEN reply' = Result(0, status) /\ UNCHANGED <<status, info, recv_seq, seq, cmp, compared>>
    ELSE /\ seq < MaxSeq
         /\ seq' = seq + 1
         /\ info' = [info EXCEPT ![seq + 1] = MessageInfo(content, Blank)]
         /\ reply' = Result(cmp, "Success")
         /\ UNCHANGED <<status, recv_seq, cmp, compared>>

\* commit: creates the entry if the answer is not registered yet.
commit(m) ==
    IF status # "Success" THEN UNCHANGED refvars
    ELSE /\ recv_seq < MaxSeq
         /\ recv_seq' = recv_seq + 1
         /\ info' = [info EXCEPT ![recv_seq + 1] =
                        MessageInfo(IF @ = Null THEN Blank ELSE @.answer, m)]
         /\ UNCHANGED <<status, seq, cmp, reply, compared>>

(***************************************************************************)
(* Update compares the entries after cmp, up to the first one it objects   *)
(* to; that one is deleted but stays in the map.                           *)
(***************************************************************************)
Objects(t) == t.answer = t.msg

avaliableMaxResult == IF recv_seq < seq THEN recv_seq ELSE seq

\* Mutant: the loop goes on after an objection.
LoopEnds_on(stop) == stop = avaliableMaxResult

\* The while loop ends with cmp = stop.
LoopEnds(stop) ==
    /\ stop \in cmp .. avaliableMaxResult
    /\ \A k \in cmp + 1 .. stop - 1 : ~Objects(info[k])
    /\ stop # avaliableMaxResult => stop > cmp /\ Objects(info[stop])

Objected(stop) == stop > cmp /\ Objects(info[stop])

Update(stop) ==
    /\ LoopEnds(stop)
    /\ cmp' = stop
    /\ info' = [k \in Index |-> IF k \notin cmp + 1 .. stop THEN info[k]
                                ELSE IF k = stop /\ Objected(stop) THEN Freed ELSE Null]
    /\ compared' = compared \o [i \in 1 .. stop - cmp |-> info[cmp + i]]

\* ResultQuery after Update: cmp >= queryIdx is tested before the status is.
Answer(q, stop) ==
    IF stop >= q THEN "Success"
    ELSE IF Objected(stop) THEN "Diff"
    ELSE IF stop = recv_seq THEN "Wait"
    ELSE IF stop = seq THEN "WaitRPC" ELSE "TestError"

ResultQuery_known(q) ==
    /\ ~(status = "Success" /\ q > cmp)
    /\ reply' = Result(cmp, status)
    /\ UNCHANGED <<status, info, recv_seq, seq, cmp, compared>>

\* Mutant: Update does not test the status.
ResultQuery_update_again(q) ==
    /\ q > cmp
    /\ \E stop \in 0 .. MaxSeq :
          /\ Update(stop)
          /\ reply' = Result(stop, Answer(q, stop))
          /\ status' = IF Objected(stop) THEN "Diff" ELSE "Success"
    /\ UNCHANGED <<recv_seq, seq>>

\* The first alternative is Update's own test of the counters.
ResultQuery_update(q) ==
    /\ status = "Success" /\ q > cmp
    /\ IF cmp > avaliableMaxResult
       THEN /\ status' = "TestError" /\ reply' = Result(cmp, "TestError")
            /\ UNCHANGED <<info, cmp, compared>>
       ELSE \E stop \in 0 .. MaxSeq :
            /\ Update(stop)
            /\ reply' = Result(stop, Answer(q, stop))
            /\ status' = IF Objected(stop) THEN "Diff"
                         ELSE IF Answer(q, stop) = "TestError" THEN "TestError" ELSE "Success"
    /\ UNCHANGED <<recv_seq, seq>>

ResultQuery(q) == ResultQuery_known(q) \/ ResultQuery_update(q)

RefNext ==
    \/ \E m \in Text : AnswerRegister(m)
    \/ \E m \in Msg : commit(m)
    \/ \E q \in 0 .. MaxSeq + 1 : ResultQuery(q)

RefSpec == RefInit /\ [][RefNext]_refvars

(***************************************************************************)
(* Properties.                                                             *)
(***************************************************************************)

Entry == [ptr : {"live", "null", "freed"}, answer : Text, msg : Text]

\* Every variable of the referee keeps its type.
RefTypeOK ==
    /\ status \in TestStatus
    /\ info \in [Index -> Entry]
    /\ recv_seq \in 0 .. MaxSeq /\ seq \in 0 .. MaxSeq /\ cmp \in 0 .. MaxSeq
    /\ reply \in [id : 0 .. MaxSeq, reason : TestStatus]
    /\ compared \in Seq(Entry)

\* Whatever the order of the calls, Update and commit never dereference a null
\* or a deleted entry: while status is Success every entry after cmp that was
\* registered or committed is there, and no other.
EntriesAlive ==
    status = "Success" =>
        \A k \in Index :
            IF k > cmp /\ (k <= seq \/ k <= recv_seq) THEN info[k].ptr = "live"
                                                      ELSE info[k].ptr = "null"

\* The counters never contradict each other: both tests of the code that set
\* the status TestError are unreachable.
NoTestError == cmp <= recv_seq /\ cmp <= seq /\ status # "TestError"

\* Entries are compared one by one up to the first that Update objects to, in however many
\* calls, and the status says whether there was one.  (Update objects to a message that
\* equals its answer, the reverse of the client's "Msg is Error".)
StopsAtObjection ==
    /\ Len(compared) = cmp
    /\ \A k \in 1 .. cmp - 1 : ~Objects(compared[k])
    /\ cmp > 0 => (Objects(compared[cmp]) <=> status = "Diff")

\* The verdict Diff is final, and every call after it reports it: only the query that
\* found it may have been answered Success, because it tests the index first.
VerdictIsFinal ==
    [][status = "Diff" =>
        status' = "Diff" /\ cmp' = cmp /\ (reply' # reply => reply'.reason = "Diff")]_refvars

\* The inductive invariant: which entries exist depends on the counters, and
\* the counters stay ordered because Update stops at the smaller one.
RefInv == RefTypeOK /\ EntriesAlive /\ NoTestError

\* The referee, whatever the order of the calls: it uses no entry that is not there, its
\* counters agree, and it compares in order up to its first objection.
RefereeSound == RefInv /\ StopsAtObjection
=============================================================================
