----------------------------- MODULE LabProofs -----------------------------
(***************************************************************************)
(* The referee's invariants, for every set of messages and every bound,    *)
(* and those of the lab exercise around the referee.                       *)
(***************************************************************************)
EXTENDS LabTest, SequenceTheorems, TLAPS

\* The entries the operations make are entries.
LEMMA Entries ==
    /\ Null \in Entry /\ Freed \in Entry
    /\ \A a, m \in Text : MessageInfo(a, m) \in Entry
BY DEF Entry, Text, Null, Freed, MessageInfo

\* Initially nothing is registered or committed.
LEMMA RefInitial == RefInit => RefInv
<1> SUFFICES ASSUME RefInit PROVE RefInv
    OBVIOUS
<1>1. RefTypeOK
    BY Entries, RefereeAssumption DEF RefInit, RefTypeOK, Result, TestStatus
<1>2. EntriesAlive
    BY RefereeAssumption DEF RefInit, EntriesAlive, Index, Null
<1>3. NoTestError
    BY DEF RefInit, NoTestError
<1> QED BY <1>1, <1>2, <1>3 DEF RefInv

\* AnswerRegister adds the one entry after seq, which lies after cmp.
LEMMA RegisterKeeps ==
    ASSUME RefInv, NEW m \in Text, AnswerRegister(m) PROVE RefInv'
<1> USE DEF RefInv
<1>1. CASE status # "Success"
  <2>1. reply' \in [id : 0 .. MaxSeq, reason : TestStatus]
    BY <1>1, RefereeAssumption DEF AnswerRegister, Result, RefTypeOK
  <2>2. UNCHANGED <<status, info, recv_seq, seq, cmp, compared>>
    BY <1>1 DEF AnswerRegister
  <2> QED BY <2>1, <2>2 DEF RefTypeOK, EntriesAlive, NoTestError
<1>2. CASE status = "Success"
  <2>1. /\ seq < MaxSeq /\ seq' = seq + 1
        /\ info' = [info EXCEPT ![seq + 1] = MessageInfo(m, Blank)]
        /\ reply' = Result(cmp, "Success")
        /\ UNCHANGED <<status, recv_seq, cmp, compared>>
    BY <1>2 DEF AnswerRegister
  <2>2. MessageInfo(m, Blank) \in Entry /\ MessageInfo(m, Blank).ptr = "live"
    BY Entries DEF Text, MessageInfo
  <2>3. RefTypeOK'
    <3>1. reply' \in [id : 0 .. MaxSeq, reason : TestStatus]
      BY <2>1 DEF Result, RefTypeOK, TestStatus
    <3>2. seq' \in 0 .. MaxSeq
      BY <2>1, RefereeAssumption DEF RefTypeOK
    <3>3. info' \in [Index -> Entry]
      BY <2>1, <2>2, Zenon DEF RefTypeOK
    <3> QED BY <2>1, <3>1, <3>2, <3>3 DEF RefTypeOK
  <2>4. EntriesAlive'
    BY <1>2, <2>1, <2>2, RefereeAssumption DEF EntriesAlive, RefTypeOK, NoTestError, Index
  <2>5. NoTestError'
    BY <2>1 DEF NoTestError, RefTypeOK
  <2> QED BY <2>3, <2>4, <2>5
<1> QED BY <1>1, <1>2

\* commit fills or adds the one entry after recv_seq, which lies after cmp.
LEMMA CommitKeeps ==
    ASSUME RefInv, NEW m \in Text, commit(m) PROVE RefInv'
<1> USE DEF RefInv
<1>1. CASE status # "Success"
    BY <1>1 DEF commit, refvars, RefTypeOK, EntriesAlive, NoTestError
<1>2. CASE status = "Success"
  <2> DEFINE k == recv_seq + 1
             e == MessageInfo(IF info[k] = Null THEN Blank ELSE info[k].answer, m)
  <2>1. /\ recv_seq < MaxSeq /\ recv_seq' = k
        /\ info' = [info EXCEPT ![k] = e]
        /\ UNCHANGED <<status, seq, cmp, reply, compared>>
    BY <1>2 DEF commit
  <2>2. k \in Index
    BY <2>1, RefereeAssumption DEF RefTypeOK, Index
  <2>3. info[k] \in Entry
    BY <2>2 DEF RefTypeOK
  <2>4. info[k].answer \in Text
    BY <2>3 DEF Entry
  <2>5. e \in Entry /\ e.ptr = "live"
    BY <2>4, Entries DEF Text, MessageInfo
  <2> HIDE DEF e
  <2>6. RefTypeOK'
    <3>1. recv_seq' \in 0 .. MaxSeq
      BY <2>1, RefereeAssumption DEF RefTypeOK
    <3>2. info' \in [Index -> Entry]
      BY <2>1, <2>5, Zenon DEF RefTypeOK
    <3> QED BY <2>1, <3>1, <3>2 DEF RefTypeOK
  <2>7. EntriesAlive'
    BY <1>2, <2>1, <2>2, <2>5, RefereeAssumption DEF EntriesAlive, RefTypeOK, NoTestError, Index
  <2>8. NoTestError'
    BY <2>1 DEF NoTestError, RefTypeOK
  <2> QED BY <2>6, <2>7, <2>8
<1> QED BY <1>1, <1>2

\* Update moves cmp up to the smaller counter at most and erases what it passes;
\* the entry it deletes without erasing comes with the status Diff.
LEMMA QueryKeeps ==
    ASSUME RefInv, NEW q \in Nat, ResultQuery(q) PROVE RefInv'
<1> USE DEF RefInv
<1>1. CASE ResultQuery_known(q)
  <2>1. reply' \in [id : 0 .. MaxSeq, reason : TestStatus]
    BY <1>1 DEF ResultQuery_known, Result, RefTypeOK
  <2> QED BY <1>1, <2>1 DEF ResultQuery_known, RefTypeOK, EntriesAlive, NoTestError
<1>2. CASE ResultQuery_update(q)
  <2>1. cmp <= avaliableMaxResult
    BY DEF NoTestError, avaliableMaxResult, RefTypeOK
  <2>2. PICK stop \in 0 .. MaxSeq :
          /\ Update(stop)
          /\ reply' = Result(stop, Answer(q, stop))
          /\ status' = IF Objected(stop) THEN "Diff"
                       ELSE IF Answer(q, stop) = "TestError" THEN "TestError" ELSE "Success"
    BY <1>2, <2>1, RefereeAssumption DEF ResultQuery_update, RefTypeOK, avaliableMaxResult
  <2>3. status = "Success" /\ UNCHANGED <<recv_seq, seq>>
    BY <1>2 DEF ResultQuery_update
  <2>4. cmp' = stop /\ stop \in cmp .. avaliableMaxResult
    BY <2>2 DEF Update, LoopEnds
  <2>5. stop <= recv_seq /\ stop <= seq
    BY <2>4 DEF avaliableMaxResult, RefTypeOK
  <2>6. Objected(stop) \/ stop = recv_seq \/ stop = seq
    BY <2>2 DEF Update, LoopEnds, Objected, avaliableMaxResult
  <2>7. Answer(q, stop) # "TestError" /\ Answer(q, stop) \in TestStatus
    BY <2>6 DEF Answer, TestStatus
  <2>8. status' = IF Objected(stop) THEN "Diff" ELSE "Success"
    BY <2>2, <2>7
  <2>9. RefTypeOK'
    <3>1. reply' \in [id : 0 .. MaxSeq, reason : TestStatus] /\ status' \in TestStatus
      BY <2>2, <2>7, <2>8 DEF Result, TestStatus
    <3>2. info' \in [Index -> Entry]
      BY <2>2, Entries DEF Update, RefTypeOK
    <3>3. compared' \in Seq(Entry)
      <4> DEFINE done == [i \in 1 .. stop - cmp |-> info[cmp + i]]
      <4>1. stop - cmp \in Nat /\ \A i \in 1 .. stop - cmp : info[cmp + i] \in Entry
        BY <2>4, RefereeAssumption DEF RefTypeOK, Index
      <4>2. done \in Seq(Entry)
        BY <4>1
      <4>3. compared' = compared \o done
        BY <2>2 DEF Update
      <4> QED BY <4>2, <4>3 DEF RefTypeOK
    <3> QED BY <2>3, <2>4, <3>1, <3>2, <3>3 DEF RefTypeOK
  <2>10. EntriesAlive'
    <3> SUFFICES ASSUME ~Objected(stop), NEW k \in Index
                 PROVE  IF k > stop /\ (k <= seq \/ k <= recv_seq)
                        THEN info'[k].ptr = "live" ELSE info'[k].ptr = "null"
      BY <2>3, <2>4, <2>8 DEF EntriesAlive
    <3>1. info'[k] = IF k \notin cmp + 1 .. stop THEN info[k] ELSE Null
      BY <2>2 DEF Update
    <3>2. Null.ptr = "null"
      BY DEF Null
    <3> QED BY <2>3, <2>4, <2>5, <3>1, <3>2, RefereeAssumption DEF EntriesAlive, RefTypeOK, Index
  <2>11. NoTestError'
    BY <2>3, <2>4, <2>5, <2>8 DEF NoTestError
  <2> QED BY <2>9, <2>10, <2>11
<1> QED BY <1>1, <1>2 DEF ResultQuery

\* The invariant holds however gRPC calls and commits follow each other.
THEOREM RefereeInvariant == RefSpec => []RefInv
<1>1. RefInv /\ [RefNext]_refvars => RefInv'
  <2> SUFFICES ASSUME RefInv, [RefNext]_refvars PROVE RefInv'
    OBVIOUS
  <2>1. CASE UNCHANGED refvars
    BY <2>1 DEF refvars, RefInv, RefTypeOK, EntriesAlive, NoTestError
  <2>2. CASE RefNext
    BY <2>2, RegisterKeeps, CommitKeeps, QueryKeeps, RefereeAssumption DEF RefNext, Text
  <2> QED BY <2>1, <2>2
<1> QED BY RefInitial, <1>1, PTL DEF RefSpec

\* Update and commit never dereference a null or a deleted entry.
THEOREM NoDeadEntryUsed == RefSpec => []EntriesAlive
BY RefereeInvariant, PTL DEF RefInv

\* The status TestError is never reached: the code's two tests of the counters
\* in Update and ResultQuery cannot succeed.
THEOREM TestErrorUnreachable == RefSpec => []NoTestError
BY RefereeInvariant, PTL DEF RefInv

\* What a call does to the verdict once it is Diff: register and query report it, commit
\* and Update are not reached.
LEMMA DiffKept ==
    ASSUME status = "Diff", RefNext
    PROVE  status' = "Diff" /\ cmp' = cmp /\ compared' = compared /\ (reply' # reply => reply'.reason = "Diff")
<1>1. CASE \E s \in Text : AnswerRegister(s)
  BY <1>1 DEF AnswerRegister, Result
<1>2. CASE \E m \in Msg : commit(m)
  BY <1>2 DEF commit, refvars
<1>3. CASE \E q \in 0 .. MaxSeq + 1 : ResultQuery(q)
  BY <1>3 DEF ResultQuery, ResultQuery_known, ResultQuery_update, Result
<1> QED BY <1>1, <1>2, <1>3 DEF RefNext

\* Diff is final and reported by every later call.
THEOREM DiffIsFinal == RefSpec => VerdictIsFinal
<1>1. [RefNext]_refvars =>
        [status = "Diff" =>
            status' = "Diff" /\ cmp' = cmp /\ (reply' # reply => reply'.reason = "Diff")]_refvars
  BY DiffKept
<1> QED BY <1>1, PTL DEF RefSpec, VerdictIsFinal

\* What appending a sequence of entries gives.
LEMMA AppendedAll ==
    ASSUME NEW S, NEW s \in Seq(S), NEW t \in Seq(S)
    PROVE  /\ Len(s \o t) = Len(s) + Len(t)
           /\ \A k \in 1 .. Len(s) + Len(t) : (s \o t)[k] = IF k <= Len(s) THEN s[k] ELSE t[k - Len(s)]
  OBVIOUS

\* Comparison stops at the first objection, and the status says whether there was one.
THEOREM ComparesUpToObjection == RefSpec => []StopsAtObjection
<1>1. RefInit => StopsAtObjection
  BY DEF RefInit, StopsAtObjection
<1>2. RefInv /\ StopsAtObjection /\ [RefNext]_refvars => StopsAtObjection'
  <2> SUFFICES ASSUME RefInv, StopsAtObjection, [RefNext]_refvars PROVE StopsAtObjection'
    OBVIOUS
  <2>1. CASE UNCHANGED <<status, cmp, compared>>
    BY <2>1 DEF StopsAtObjection
  <2>2. CASE UNCHANGED refvars
    BY <2>1, <2>2 DEF refvars
  <2>3. CASE \E s \in Text : AnswerRegister(s)
    BY <2>1, <2>3 DEF AnswerRegister
  <2>4. CASE \E m \in Msg : commit(m)
    BY <2>1, <2>4 DEF commit, refvars
  <2>5. CASE \E q \in 0 .. MaxSeq + 1 : ResultQuery_known(q)
    BY <2>1, <2>5 DEF ResultQuery_known
  <2>6. ASSUME NEW q \in 0 .. MaxSeq + 1, ResultQuery_update(q) PROVE StopsAtObjection'
    <3>1. status = "Success" /\ ~(cmp > avaliableMaxResult)
      BY <2>6 DEF ResultQuery_update, RefInv, RefTypeOK, NoTestError, avaliableMaxResult
    <3>2. PICK stop \in 0 .. MaxSeq :
            /\ Update(stop)
            /\ status' = IF Objected(stop) THEN "Diff"
                         ELSE IF Answer(q, stop) = "TestError" THEN "TestError" ELSE "Success"
      BY <2>6, <3>1 DEF ResultQuery_update
    <3> DEFINE done == [i \in 1 .. stop - cmp |-> info[cmp + i]]
    <3>3. stop \in cmp .. avaliableMaxResult /\ cmp' = stop /\ compared' = compared \o done
      BY <3>2 DEF Update, LoopEnds
    <3>4. cmp \in Nat /\ stop \in Nat /\ stop >= cmp /\ compared \in Seq(Entry) /\ Len(compared) = cmp
      BY <3>3, RefereeAssumption DEF RefInv, RefTypeOK, StopsAtObjection
    <3>5. done \in Seq(Entry) /\ Len(done) = stop - cmp
      <4>1. \A i \in 1 .. stop - cmp : info[cmp + i] \in Entry
        BY <3>4, RefereeAssumption DEF RefInv, RefTypeOK, Index
      <4> QED BY <3>4, <4>1
    <3>6. /\ Len(compared') = stop
          /\ \A k \in 1 .. stop : compared'[k] = IF k <= cmp THEN compared[k] ELSE info[k]
      <4>1. Len(compared') = stop
        <5> HIDE DEF done
        <5>1. Len(compared \o done) = Len(compared) + Len(done)
          BY <3>4, <3>5, AppendedAll
        <5>2. compared' = compared \o done
          BY <3>3
        <5> QED BY <5>1, <5>2, <3>4, <3>5
      <4>2. ASSUME NEW k \in 1 .. stop PROVE compared'[k] = IF k <= cmp THEN compared[k] ELSE info[k]
        <5>1. compared'[k] = IF k <= cmp THEN compared[k] ELSE done[k - cmp]
          <6> HIDE DEF done
          <6> QED BY <3>3, <3>4, <3>5, AppendedAll
        <5>2. CASE k <= cmp
          BY <5>1, <5>2
        <5>3. CASE ~(k <= cmp)
          <6>1. k - cmp \in 1 .. stop - cmp /\ cmp + (k - cmp) = k
            BY <5>3, <3>4
          <6> QED BY <5>1, <5>3, <6>1
        <5> QED BY <5>2, <5>3
      <4> QED BY <4>1, <4>2
    <3>7. \A k \in 1 .. cmp : ~Objects(compared[k])
      BY <3>1, <3>4 DEF StopsAtObjection
    <3>8. \A k \in 1 .. stop - 1 : ~Objects(compared'[k])
      BY <3>2, <3>4, <3>6, <3>7 DEF Update, LoopEnds
    <3>9. stop > 0 => (Objects(compared'[stop]) <=> Objected(stop))
      BY <3>4, <3>6, <3>7 DEF Objected
    <3>10. status' = "Diff" <=> Objected(stop)
      BY <3>2
    <3> QED BY <3>3, <3>6, <3>8, <3>9, <3>10 DEF StopsAtObjection
  <2> QED BY <2>2, <2>3, <2>4, <2>5, <2>6 DEF RefNext, ResultQuery
<1> QED BY <1>1, <1>2, RefereeInvariant, PTL DEF RefSpec

\* The referee's whole safety property, for every set of messages and every number of
\* calls.
THEOREM RefereeIsSound == RefSpec => []RefereeSound
BY RefereeInvariant, ComparesUpToObjection, PTL DEF RefereeSound

(***************************************************************************)
(* The lab exercise.                                                       *)
(***************************************************************************)

\* The message the tester's calls get is Success with index 0, and leaves SuccessMaxIdx alone.
LEMMA DigestKeeps ==
    ASSUME LabInv, NEW r, r = Result(0, "Success"), NEW next, Digest(r, next)
    PROVE  pc' = next /\ SuccessMaxIdx' = MaxU32
<1>1. r.reason = "Success" /\ r.id = 0
  BY DEF Result
<1>2. SuccessMaxIdx' = Larger(MaxU32, 0) /\ pc' = next
  BY <1>1 DEF Digest, ErrorLevel, LabInv, Quiet
<1> QED BY <1>2, LabAssumption DEF Larger

\* The types.
LEMMA LabInitial == LabInit => LabInv
<1> SUFFICES ASSUME LabInit PROVE LabInv
  OBVIOUS
<1>1. RefInv /\ status = "Success" /\ cmp = 0 /\ seq = 0 /\ recv_seq = 0
  BY RefInitial DEF LabInit, RefInit
<1>2. /\ chan = [c \in {Lab} |-> <<>>] /\ recvd = [c \in {Lab} |-> <<>>] /\ cut = [c \in {Lab} |-> FALSE]
  BY DEF LabInit, Tcp!ChInit
<1>3. /\ pc = "gen" /\ gen = <<>> /\ lost = {} /\ SendSeq = MaxU32 /\ SuccessMaxIdx = MaxU32 /\ msgs = <<>>
  BY DEF LabInit
<1>4. LabTypeOK
  BY <1>2, <1>3, LabAssumption DEF LabTypeOK
<1> QED BY <1>1, <1>2, <1>3, <1>4 DEF LabInv, Quiet, Registered, OnItsWay, Arrived, Sent, Popped, NPushed

\* What is clean depends on what was generated and lost up to there.
LEMMA CleanKept ==
    ASSUME gen \in Seq(Text), NEW s, gen' = Append(gen, s),
           lost' = lost \/ lost' = lost \cup {Len(gen) + 1}
    PROVE  /\ Len(gen') = Len(gen) + 1
           /\ \A k \in 1 .. Len(gen) : /\ gen'[k] = gen[k]
                                       /\ NoneLost(k)' <=> NoneLost(k)
                                       /\ Clean(k)' <=> Clean(k)
<1>1. Len(gen') = Len(gen) + 1 /\ \A k \in 1 .. Len(gen) : gen'[k] = gen[k]
  OBVIOUS
<1>2. Len(gen) \in Nat
  OBVIOUS
<1>3. ASSUME NEW k \in 1 .. Len(gen)
      PROVE  (NoneLost(k)' <=> NoneLost(k)) /\ (Clean(k)' <=> Clean(k))
  <2>1. \A j \in 1 .. k : (j \in lost') <=> (j \in lost)
    BY <1>2
  <2>2. NoneLost(k)' <=> NoneLost(k)
    BY <1>1, <1>2, <2>1 DEF NoneLost
  <2>3. \A j \in 1 .. k : gen'[j] = gen[j]
    BY <1>1, <1>2
  <2> QED BY <2>2, <2>3 DEF Clean
<1> QED BY <1>1, <1>3

\* SendAnswer only adds a string, which nobody has been given yet.
LEMMA SendAnswerStep ==
    ASSUME LabInv, NEW s \in Text, SendAnswer(s) PROVE LabInv'
<1> USE DEF LabInv
<1>1. /\ gen \in Seq(Text) /\ gen' = Append(gen, s) /\ pc = "gen"
      /\ UNCHANGED <<msgs, link, reset, up>>
  BY DEF SendAnswer, LabTypeOK
<1>2. lost' = lost \/ lost' = lost \cup {Len(gen) + 1}
  BY DEF SendAnswer
<1>3. /\ Len(gen') = Len(gen) + 1
      /\ \A k \in 1 .. Len(gen) : /\ gen'[k] = gen[k]
                                  /\ NoneLost(k)' <=> NoneLost(k)
                                  /\ Clean(k)' <=> Clean(k)
  BY <1>1, <1>2, CleanKept
<1>4. /\ RefInv' /\ Quiet' /\ pc' = "push"
      /\ UNCHANGED <<recv_seq>>
      /\ \/ /\ lost' = lost /\ seq' = seq + 1
            /\ info' = [info EXCEPT ![seq + 1] = MessageInfo(s, Blank)]
         \/ /\ lost' = lost \cup {Len(gen) + 1} /\ UNCHANGED <<seq, info>>
  <2>1. CASE /\ AnswerRegister(s) /\ lost' = lost
             /\ \E r \in {reply', NoResponse} : Digest(r, "push")
    <3>1. RefInv'
      BY <2>1, RegisterKeeps
    <3>2. /\ seq' = seq + 1 /\ info' = [info EXCEPT ![seq + 1] = MessageInfo(s, Blank)]
          /\ reply' = Result(0, "Success") /\ UNCHANGED <<status, recv_seq, cmp>>
      BY <2>1 DEF AnswerRegister, Quiet
    <3>3. pc' = "push" /\ SuccessMaxIdx' = MaxU32
      BY <2>1, <3>2, DigestKeeps DEF NoResponse
    <3> QED BY <2>1, <3>1, <3>2, <3>3 DEF Quiet
  <2>2. CASE /\ UNCHANGED refvars /\ lost' = lost \cup {Len(gen) + 1}
             /\ Digest(NoResponse, "push")
    <3>1. pc' = "push" /\ SuccessMaxIdx' = MaxU32
      BY <2>2, DigestKeeps DEF NoResponse
    <3>2. RefInv' /\ UNCHANGED <<status, recv_seq, cmp, seq, info>>
      BY <2>2 DEF refvars, RefInv, RefTypeOK, EntriesAlive, NoTestError
    <3> QED BY <2>2, <3>1, <3>2 DEF Quiet
  <2> QED BY <2>1, <2>2 DEF SendAnswer
<1>5. LabTypeOK'
  <2>1. gen' \in Seq(Text) /\ gen' # <<>> /\ lost' \subseteq 1 .. Len(gen')
    <3>1. gen' \in Seq(Text) /\ gen' # <<>>
      BY <1>1
    <3>2. Len(gen) \in Nat /\ lost \subseteq 1 .. Len(gen)
      BY <1>1 DEF LabTypeOK
    <3>3. Len(gen') = Len(gen) + 1
      BY <1>3
    <3>4. lost' \subseteq 1 .. Len(gen) + 1
      <4>1. \A j \in 1 .. Len(gen) : j \in 1 .. Len(gen) + 1
        BY <3>2
      <4>2. Len(gen) + 1 \in 1 .. Len(gen) + 1
        BY <3>2
      <4>3. \A j \in lost' : j \in 1 .. Len(gen) \/ j = Len(gen) + 1
        BY <1>2, <3>2, Zenon
      <4> QED BY <4>1, <4>2, <4>3, Zenon
    <3> QED BY <3>1, <3>3, <3>4
  <2>2. SendSeq' \in 0 .. MaxU32
    BY LabAssumption DEF SendAnswer, LabTypeOK
  <2> QED BY <1>1, <1>4, <2>1, <2>2 DEF LabTypeOK, link
<1>6. Registered'
  <2>1. seq \in Nat /\ seq \in 0 .. MaxSeq /\ info \in [Index -> Entry] /\ Len(gen) \in Nat /\ lost \subseteq 1 .. Len(gen)
    BY <1>1, RefereeAssumption DEF RefInv, RefTypeOK, LabTypeOK
  <2>2. lost' = {} => seq' = Len(gen')
    BY <1>3, <1>4, <2>1 DEF Registered
  <2>3. ASSUME NEW k \in 1 .. Len(gen'), NoneLost(k)' PROVE k <= seq' /\ info'[k].answer = gen'[k]
    <3>1. CASE k <= Len(gen)
      <4>1. k \in 1 .. Len(gen) /\ NoneLost(k)
        BY <1>3, <2>1, <2>3, <3>1
      <4>2. k <= seq /\ info[k].answer = gen[k] /\ gen'[k] = gen[k]
        BY <1>3, <4>1 DEF Registered
      <4>3. k <= seq' /\ info'[k] = info[k]
        BY <1>4, <2>1, <4>1, <4>2
      <4> QED BY <4>2, <4>3
    <3>2. CASE ~(k <= Len(gen))
      <4>1. k = Len(gen) + 1
        BY <1>3, <2>1, <3>2
      <4>2. lost' = lost /\ lost = {} /\ seq' = seq + 1
            /\ info' = [info EXCEPT ![seq + 1] = MessageInfo(s, Blank)]
        BY <1>4, <2>1, <2>3, <4>1 DEF NoneLost
      <4>3. seq = Len(gen)
        BY <4>2 DEF Registered
      <4>4. k \in Index
        BY <1>4, <2>1, <4>1, <4>2, <4>3 DEF RefInv, RefTypeOK, Index
      <4>5. info'[k] = MessageInfo(s, Blank) /\ k <= seq'
        BY <2>1, <4>1, <4>2, <4>3, <4>4
      <4>6. gen'[k] = s
        BY <1>1, <4>1
      <4> QED BY <4>5, <4>6 DEF MessageInfo
    <3> QED BY <3>1, <3>2
  <2> QED BY <2>2, <2>3 DEF Registered
<1>7. OnItsWay'
  <2>1. /\ chan' = chan /\ cut' = cut /\ msgs' = msgs /\ recvd' = recvd /\ recv_seq' = recv_seq
    BY <1>1, <1>4 DEF link
  <2>2. Sent' = Sent /\ Popped' = Popped /\ (Tcp!Damaged(Lab)' <=> Tcp!Damaged(Lab))
    <3>1. Tcp!Damaged(Lab)' <=> Tcp!Damaged(Lab)
      BY <2>1 DEF Tcp!Damaged
    <3>2. Sent' = Sent
      BY <2>1 DEF Sent
    <3>3. Len(gen) \in Nat /\ Len(gen') = Len(gen) + 1
      BY <1>1, <1>3
    <3>4. NPushed' = NPushed
      BY <1>1, <1>4, <3>3 DEF NPushed
    <3> QED BY <2>1, <3>1, <3>2, <3>4 DEF Popped
  <2>3. /\ recv_seq \in Nat /\ Len(chan[Lab]) \in Nat /\ Len(gen) \in Nat /\ Len(msgs) \in Nat
        /\ Sent \in Nat /\ Sent = recv_seq + Len(chan[Lab]) /\ Popped = Len(gen) - Len(msgs)
    BY <1>1, RefereeAssumption DEF RefInv, RefTypeOK, LabTypeOK, Sent, Popped, NPushed
  <2>4. Sent <= Len(gen')
    <3>1. Sent <= Len(gen) /\ Len(gen') = Len(gen) + 1
      BY <1>3 DEF OnItsWay
    <3> QED BY <2>3, <3>1
  <2>5. ASSUME ~cut[Lab]
        PROVE  /\ Sent <= Popped
               /\ \A i \in 1 .. Len(msgs) : msgs[i] = gen'[Popped + i]
               /\ \A k \in 1 .. Popped : Clean(k)' => k <= Sent
    <3>1. Popped \in Nat /\ Popped + Len(msgs) = Len(gen) /\ Sent <= Popped
      BY <2>3, <2>5 DEF OnItsWay
    <3>2. \A i \in 1 .. Len(msgs) : Popped + i \in 1 .. Len(gen)
      BY <2>3, <3>1
    <3>3. \A k \in 1 .. Popped : k \in 1 .. Len(gen)
      BY <2>3, <3>1
    <3> QED BY <1>3, <2>5, <3>1, <3>2, <3>3 DEF OnItsWay
  <2>6. ASSUME ~Tcp!Damaged(Lab), NEW i \in 1 .. Len(chan[Lab]), Clean(recv_seq + i)'
        PROVE  chan[Lab][i] = gen'[recv_seq + i]
    <3>1. PICK n \in 1 .. Len(gen) : n = recv_seq + i
      BY <2>3 DEF OnItsWay
    <3>2. Clean(n)'
      BY <2>1, <2>6, <3>1
    <3>3. Clean(n) /\ gen'[n] = gen[n]
      BY <1>3, <3>2
    <3> QED BY <2>6, <3>1, <3>3 DEF OnItsWay
  <2> QED BY <2>1, <2>2, <2>4, <2>5, <2>6 DEF OnItsWay
<1>8. Arrived'
  <2>1. /\ cut' = cut /\ recvd' = recvd /\ recv_seq' = recv_seq /\ (Tcp!Damaged(Lab)' <=> Tcp!Damaged(Lab))
    BY <1>1, <1>4 DEF link, Tcp!Damaged
  <2>2. /\ recv_seq \in Nat /\ Len(gen) \in Nat /\ recv_seq <= Len(gen) /\ seq \in Nat /\ info \in [Index -> Entry]
    BY <1>1, RefereeAssumption DEF RefInv, RefTypeOK, LabTypeOK, Sent, OnItsWay
  <2>3. ASSUME NEW k \in 1 .. recv_seq, Clean(k)' PROVE info'[k] = info[k] /\ gen'[k] = gen[k] /\ Clean(k)
    <3>1. k \in 1 .. Len(gen) /\ Clean(k) /\ gen'[k] = gen[k]
      BY <1>3, <2>2, <2>3
    <3>2. k <= seq
      BY <3>1 DEF Registered, Clean
    <3>3. info'[k] = info[k]
      BY <1>4, <2>2, <3>1, <3>2
    <3> QED BY <3>1, <3>3
  <2> QED BY <2>1, <2>3 DEF Arrived
<1> QED BY <1>4, <1>5, <1>6, <1>7, <1>8

\* push hands over the string that was generated last.
LEMMA PushStep == ASSUME LabInv, push PROVE LabInv'
<1> USE DEF LabInv
<1>1. /\ pc = "push" /\ msgs' = Append(msgs, gen[Len(gen)])
      /\ pc' \in {"gen", "check"}
      /\ UNCHANGED <<refvars, gen, lost, SendSeq, SuccessMaxIdx, link>>
  BY DEF push, Last
<1>2. /\ UNCHANGED <<status, info, recv_seq, seq, cmp, reply, compared, gen, lost, chan, recvd, cut>>
      /\ UNCHANGED <<SendSeq, SuccessMaxIdx>>
  BY <1>1 DEF refvars, link
<1>3. gen \in Seq(Text) /\ gen # <<>> /\ msgs \in Seq(Text) /\ Len(gen) \in Nat /\ Len(gen) > 0 /\ Len(msgs) \in Nat
  BY <1>1 DEF LabTypeOK
<1>4. RefInv' /\ Quiet' /\ Registered' /\ Arrived'
  BY <1>2 DEF RefInv, RefTypeOK, EntriesAlive, NoTestError, Quiet, Registered, NoneLost, Clean, Arrived, Tcp!Damaged
<1>5. gen[Len(gen)] \in Text
  BY <1>3
<1>6. LabTypeOK'
  BY <1>1, <1>2, <1>3, <1>5 DEF LabTypeOK
<1>7. /\ Len(msgs') = Len(msgs) + 1
      /\ \A i \in 1 .. Len(msgs) : msgs'[i] = msgs[i]
      /\ msgs'[Len(msgs) + 1] = gen[Len(gen)]
  BY <1>1, <1>3, <1>5
<1>8. /\ Popped = Len(gen) - 1 - Len(msgs) /\ Popped' = Popped /\ Sent' = Sent
  BY <1>1, <1>2, <1>3, <1>7 DEF Popped, NPushed, Sent
<1>9. \A k : Clean(k)' <=> Clean(k)
  BY <1>2 DEF Clean, NoneLost
<1>10. ASSUME ~cut[Lab], NEW i \in 1 .. Len(msgs) + 1 PROVE msgs'[i] = gen[Popped + i]
  <2>1. CASE i \in 1 .. Len(msgs)
    BY <1>7, <1>10, <2>1 DEF OnItsWay
  <2>2. CASE i = Len(msgs) + 1
    <3>1. Popped + i = Len(gen)
      BY <1>3, <1>8, <2>2
    <3> QED BY <1>7, <2>2, <3>1
  <2> QED BY <1>3, <2>1, <2>2
<1>11. OnItsWay'
  <2>1. Sent' <= Len(gen')
    BY <1>2, <1>8 DEF OnItsWay
  <2>2. ~cut'[Lab] => /\ Sent' <= Popped'
                      /\ \A i \in 1 .. Len(msgs') : msgs'[i] = gen'[Popped' + i]
                      /\ \A k \in 1 .. Popped' : Clean(k)' => k <= Sent'
    BY <1>2, <1>7, <1>8, <1>9, <1>10 DEF OnItsWay
  <2>3. ~Tcp!Damaged(Lab)' => \A i \in 1 .. Len(chan'[Lab]) : Clean(recv_seq + i)' => chan'[Lab][i] = gen'[recv_seq' + i]
    BY <1>2, <1>9 DEF OnItsWay, Tcp!Damaged
  <2> QED BY <2>1, <2>2, <2>3 DEF OnItsWay
<1> QED BY <1>4, <1>6, <1>11

\* Check finds that everything is confirmed and does not query.
LEMMA CheckStep == ASSUME LabInv, Check PROVE LabInv'
<1> USE DEF LabInv
<1>1. SendSeq <= SuccessMaxIdx
  BY LabAssumption DEF LabTypeOK, Quiet
<1>2. pc = "check" /\ pc' \in {"done", "gen"} /\ UNCHANGED <<refvars, SuccessMaxIdx, gen, lost, SendSeq, msgs, link>>
  BY <1>1 DEF Check, AfterCheck
<1>3. UNCHANGED <<status, info, recv_seq, seq, cmp, reply, compared, SuccessMaxIdx, gen, lost, SendSeq, msgs, chan, recvd, cut>>
  BY <1>2 DEF refvars, link
<1>4. RefInv' /\ Quiet' /\ Registered' /\ Arrived' /\ LabTypeOK'
  BY <1>2, <1>3 DEF RefInv, RefTypeOK, EntriesAlive, NoTestError, Quiet, Registered, NoneLost, Clean, Arrived, Tcp!Damaged, LabTypeOK
<1>5. Popped' = Popped /\ Sent' = Sent
  BY <1>2, <1>3 DEF Popped, NPushed, Sent
<1>6. OnItsWay'
  BY <1>3, <1>5, Zenon DEF OnItsWay, Clean, NoneLost, Tcp!Damaged
<1> QED BY <1>4, <1>6

\* The connection ends, with or without the client.
LEMMA CutStep ==
    ASSUME LabInv, Tcp!Cut(Lab), UNCHANGED <<refvars, gen, lost, SendSeq, SuccessMaxIdx>>,
           msgs' \in Seq(Text), pc' = pc \/ pc' = "passed"
    PROVE  LabInv'
<1> USE DEF LabInv
<1>1. UNCHANGED <<status, info, recv_seq, seq, cmp, reply, compared, SuccessMaxIdx, gen, lost, SendSeq, chan, recvd>>
  BY DEF refvars, Tcp!Cut
<1>2. cut' \in [{Lab} -> BOOLEAN] /\ cut'[Lab] = TRUE
  BY DEF Tcp!Cut, LabTypeOK
<1>3. RefInv' /\ Quiet' /\ Registered' /\ LabTypeOK'
  BY <1>1, <1>2 DEF RefInv, RefTypeOK, EntriesAlive, NoTestError, Quiet, Registered, NoneLost, LabTypeOK
<1>4. Arrived'
  BY <1>1, <1>2 DEF Arrived, Clean, NoneLost, Tcp!Damaged
<1>5. OnItsWay'
  BY <1>1, <1>2 DEF OnItsWay, Sent, Clean, NoneLost, Tcp!Damaged
<1> QED BY <1>3, <1>4, <1>5

LEMMA TailIndex ==
    ASSUME NEW n \in Nat, NEW p \in Int, NEW i \in 1 .. n - 1
    PROVE  i + 1 \in 1 .. n /\ p + (i + 1) = p + 1 + i /\ i \in 1 .. n - 1
OBVIOUS

\* The main thread pops a string, and sends it at its own position if all before it were
\* sent.
LEMMA ClientMainStep == ASSUME LabInv, ClientMain PROVE LabInv'
<1> USE DEF LabInv
<1>1. /\ msgs # <<>> /\ msgs' = Tail(msgs)
      /\ IF Head(msgs) = Blank \/ cut[Lab] THEN UNCHANGED link ELSE Tcp!Put(Lab, Head(msgs))
      /\ UNCHANGED <<refvars, tester>>
  BY DEF ClientMain
<1>2. UNCHANGED <<status, info, recv_seq, seq, cmp, reply, compared, SuccessMaxIdx, gen, lost, SendSeq, pc>>
  BY <1>1 DEF refvars, tester
<1>3. UNCHANGED <<recvd, cut>>
  BY <1>1 DEF link, Tcp!Put
<1>4. RefInv' /\ Quiet' /\ Registered' /\ Arrived'
  BY <1>2, <1>3 DEF RefInv, RefTypeOK, EntriesAlive, NoTestError, Quiet, Registered, NoneLost, Clean, Arrived, Tcp!Damaged
<1>5. /\ msgs \in Seq(Text) /\ gen \in Seq(Text) /\ chan \in [{Lab} -> Seq(Msg)] /\ chan[Lab] \in Seq(Msg)
      /\ Len(msgs) \in Nat /\ Len(msgs) > 0 /\ Len(gen) \in Nat /\ Len(chan[Lab]) \in Nat
      /\ recv_seq \in Nat /\ NPushed \in Int /\ NPushed <= Len(gen)
  BY <1>1, RefereeAssumption DEF LabTypeOK, RefInv, RefTypeOK, NPushed
<1>6. Head(msgs) = msgs[1] /\ msgs[1] \in Text /\ msgs' \in Seq(Text) /\ Len(msgs') = Len(msgs) - 1
      /\ \A i \in 1 .. Len(msgs) - 1 : msgs'[i] = msgs[i + 1]
  BY <1>1, <1>5
<1>7. NPushed' = NPushed /\ Popped' = Popped + 1
  BY <1>2, <1>5, <1>6 DEF Popped, NPushed
<1>8. \A k : Clean(k)' <=> Clean(k)
  BY <1>2 DEF Clean, NoneLost
<1>9. Popped \in Int /\ Popped + Len(msgs) <= Len(gen)
  BY <1>5 DEF Popped
<1>10. Tcp!Damaged(Lab)' <=> Tcp!Damaged(Lab)
  BY <1>3 DEF Tcp!Damaged
<1>11. CASE Head(msgs) = Blank \/ cut[Lab]
  <2>1. chan' = chan /\ Sent' = Sent
    BY <1>1, <1>2, <1>11 DEF link, Sent
  <2>2. LabTypeOK'
    BY <1>2, <1>3, <1>6, <2>1 DEF LabTypeOK
  <2>3. ASSUME ~cut[Lab]
        PROVE  /\ Sent <= Popped + 1
               /\ \A i \in 1 .. Len(msgs') : msgs'[i] = gen[Popped + 1 + i]
               /\ \A k \in 1 .. Popped + 1 : Clean(k) => k <= Sent
    <3>1. /\ Sent <= Popped /\ Sent \in Nat
          /\ \A i \in 1 .. Len(msgs) : msgs[i] = gen[Popped + i]
          /\ \A k \in 1 .. Popped : Clean(k) => k <= Sent
      BY <2>3, <1>5 DEF OnItsWay, Sent
    <3>2. ASSUME NEW i \in 1 .. Len(msgs') PROVE msgs'[i] = gen[Popped + 1 + i]
      <4>0. i \in 1 .. Len(msgs) - 1
        BY <1>6, Zenon
      <4>1. i + 1 \in 1 .. Len(msgs) /\ Popped + (i + 1) = Popped + 1 + i /\ i \in 1 .. Len(msgs) - 1
        BY <1>5, <1>9, <4>0, TailIndex
      <4>2. msgs'[i] = msgs[i + 1] /\ msgs[i + 1] = gen[Popped + (i + 1)]
        BY <1>6, <3>1, <4>1
      <4> QED BY <4>1, <4>2
    <3>3. gen[Popped + 1] = Blank
      BY <1>5, <1>6, <1>11, <2>3, <3>1
    <3>4. ~Clean(Popped + 1)
      <4>1. Popped \in Nat
        <5>1. Popped \in Int /\ Sent \in Nat /\ Sent <= Popped
          BY <1>9, <3>1
        <5> QED BY <5>1
      <4>2. Popped + 1 \in 1 .. Popped + 1
        BY <4>1
      <4> QED BY <3>3, <4>2 DEF Clean
    <3>5. \A k \in 1 .. Popped + 1 : k \in 1 .. Popped \/ k = Popped + 1
      BY <1>9
    <3>6. Sent <= Popped + 1
      BY <1>9, <3>1
    <3>7. \A k \in 1 .. Popped + 1 : Clean(k) => k <= Sent
      BY <3>1, <3>4, <3>5, Zenon
    <3> QED BY <3>2, <3>6, <3>7, Zenon
  <2>4. OnItsWay'
    <3>1. Sent' <= Len(gen')
      BY <1>2, <2>1 DEF OnItsWay
    <3>2. ~cut'[Lab] => /\ Sent' <= Popped'
                        /\ \A i \in 1 .. Len(msgs') : msgs'[i] = gen'[Popped' + i]
                        /\ \A k \in 1 .. Popped' : Clean(k)' => k <= Sent'
      BY <1>2, <1>3, <1>7, <1>8, <2>1, <2>3
    <3>3. ~Tcp!Damaged(Lab)' =>
            \A i \in 1 .. Len(chan'[Lab]) : Clean(recv_seq + i)' => chan'[Lab][i] = gen'[recv_seq' + i]
      BY <1>2, <1>8, <1>10, <2>1 DEF OnItsWay
    <3> QED BY <3>1, <3>2, <3>3 DEF OnItsWay
  <2> QED BY <1>4, <2>2, <2>4
<1>12. CASE ~(Head(msgs) = Blank \/ cut[Lab])
  <2>1. ~cut[Lab] /\ chan' = [chan EXCEPT ![Lab] = Append(@, msgs[1])] /\ msgs[1] \in Msg
    BY <1>1, <1>6, <1>12 DEF Tcp!Put, Text
  <2>2. /\ chan' \in [{Lab} -> Seq(Msg)] /\ Len(chan'[Lab]) = Len(chan[Lab]) + 1
        /\ \A i \in 1 .. Len(chan[Lab]) : chan'[Lab][i] = chan[Lab][i]
        /\ chan'[Lab][Len(chan[Lab]) + 1] = msgs[1]
    <3>1. chan'[Lab] = Append(chan[Lab], msgs[1]) /\ chan' \in [{Lab} -> Seq(Msg)]
      BY <1>5, <2>1
    <3> HIDE DEF Lab
    <3> QED BY <1>5, <2>1, <3>1
  <2>3. LabTypeOK'
    BY <1>2, <1>3, <1>6, <2>2 DEF LabTypeOK
  <2>4. Sent' = Sent + 1 /\ Sent \in Nat
    BY <1>2, <1>5, <2>2 DEF Sent
  <2>5. /\ Sent <= Popped
        /\ \A i \in 1 .. Len(msgs) : msgs[i] = gen[Popped + i]
        /\ \A k \in 1 .. Popped : Clean(k) => k <= Sent
    BY <2>1 DEF OnItsWay
  <2>6. \A i \in 1 .. Len(msgs') : msgs'[i] = gen[Popped + 1 + i]
    <3> TAKE i \in 1 .. Len(msgs')
    <3>0. i \in 1 .. Len(msgs) - 1
      BY <1>6, Zenon
    <3>1. i + 1 \in 1 .. Len(msgs) /\ Popped + (i + 1) = Popped + 1 + i /\ i \in 1 .. Len(msgs) - 1
      BY <1>5, <1>9, <3>0, TailIndex
    <3>2. msgs'[i] = msgs[i + 1] /\ msgs[i + 1] = gen[Popped + (i + 1)]
      BY <1>6, <2>5, <3>1
    <3> QED BY <3>1, <3>2
  <2>7. \A k \in 1 .. Popped + 1 : Clean(k) => k <= Sent + 1
    <3> SUFFICES ASSUME NEW k \in 1 .. Popped + 1, Clean(k) PROVE k <= Sent + 1
      OBVIOUS
    <3>1. CASE k <= Popped
      BY <1>9, <2>4, <2>5, <3>1
    <3>2. CASE k = Popped + 1 /\ Popped = 0
      BY <2>4, <3>2
    <3>3. CASE k = Popped + 1 /\ Popped > 0
      <4>1. Popped \in 1 .. Popped /\ \A j \in 1 .. Popped : j \in 1 .. k
        BY <1>9, <3>3
      <4>2. Clean(Popped)
        BY <1>5, <1>9, <3>3, <4>1 DEF Clean, NoneLost
      <4>3. Popped <= Sent
        BY <2>5, <4>1, <4>2
      <4> QED BY <1>9, <2>4, <3>3, <4>3
    <3> QED BY <1>9, <2>4, <2>5, <3>1, <3>2, <3>3
  <2>8. Clean(Sent + 1) => Sent = Popped
    <3> SUFFICES ASSUME Clean(Sent + 1), Sent < Popped PROVE FALSE
      BY <1>9, <2>4, <2>5
    <3>1. Sent + 1 \in 1 .. Popped
      BY <1>9, <2>4
    <3> QED BY <2>4, <2>5, <3>1
  <2>9. ASSUME ~Tcp!Damaged(Lab), NEW i \in 1 .. Len(chan[Lab]) + 1, Clean(recv_seq + i)
        PROVE  chan'[Lab][i] = gen[recv_seq + i]
    <3>1. CASE i \in 1 .. Len(chan[Lab])
      BY <2>2, <2>9, <3>1 DEF OnItsWay
    <3>2. CASE i = Len(chan[Lab]) + 1
      <4>1. recv_seq + i = Sent + 1
        BY <1>5, <3>2 DEF Sent
      <4>2. Sent = Popped
        BY <2>8, <2>9, <4>1
      <4>3. msgs[1] = gen[Popped + 1]
        BY <1>5, <2>5
      <4> QED BY <2>2, <3>2, <4>1, <4>2, <4>3
    <3> QED BY <1>5, <3>1, <3>2
  <2>10. OnItsWay'
    <3>1. Sent' <= Len(gen')
      BY <1>2, <1>5, <1>9, <2>4, <2>5
    <3>2. ~cut'[Lab] => /\ Sent' <= Popped'
                        /\ \A i \in 1 .. Len(msgs') : msgs'[i] = gen'[Popped' + i]
                        /\ \A k \in 1 .. Popped' : Clean(k)' => k <= Sent'
      BY <1>2, <1>7, <1>8, <1>9, <2>4, <2>5, <2>6, <2>7
    <3>3. ~Tcp!Damaged(Lab)' =>
            \A i \in 1 .. Len(chan'[Lab]) : Clean(recv_seq + i)' => chan'[Lab][i] = gen'[recv_seq' + i]
      BY <1>2, <1>8, <1>10, <2>2, <2>9
    <3> QED BY <3>1, <3>2, <3>3 DEF OnItsWay
  <2> QED BY <1>4, <2>3, <2>10
<1> QED BY <1>11, <1>12

\* The record of what recvMsg gave says whether the connection has delivered its last.
LEMMA DamagedAfter ==
    ASSUME LabTypeOK, NEW w \in BOOLEAN, NEW m \in Text,
           recvd' = [recvd EXCEPT ![Lab] = Append(@, [whole |-> w, buf |-> m])]
    PROVE  /\ recvd' \in [{Lab} -> Seq([whole : BOOLEAN, buf : Text])]
           /\ Tcp!Damaged(Lab)' <=> ~w
<1> DEFINE Given == [whole : BOOLEAN, buf : Text]
           r == [whole |-> w, buf |-> m]
<1>1. r \in Given /\ r.whole = w
  OBVIOUS
<1>2. recvd \in [{Lab} -> Seq(Given)] /\ recvd[Lab] \in Seq(Given)
  BY DEF LabTypeOK
<1> HIDE DEF Given, r
<1>3. recvd' \in [{Lab} -> Seq(Given)] /\ recvd'[Lab] = Append(recvd[Lab], r)
  <2>1. recvd' = [recvd EXCEPT ![Lab] = Append(recvd[Lab], r)]
    BY DEF r
  <2>2. Append(recvd[Lab], r) \in Seq(Given)
    BY <1>1, <1>2
  <2> QED BY <1>2, <2>1, <2>2
<1>4. recvd'[Lab] # <<>> /\ recvd'[Lab][Len(recvd'[Lab])] = r
  BY <1>1, <1>2, <1>3
<1>5. Tcp!Damaged(Lab)' <=> ~r.whole
  BY <1>4, Zenon DEF Tcp!Damaged
<1>6. Tcp!Damaged(Lab)' <=> ~w
  BY <1>1, <1>5, Zenon
<1> QED BY <1>3, <1>6 DEF Given

\* The receiver takes the first message of the channel, and nothing is committed: it was
\* cut short to nothing, or the process ends.
LEMMA DroppedStep ==
    ASSUME LabInv, cut[Lab], chan[Lab] # <<>>, NEW m \in Text,
           recvd' = [recvd EXCEPT ![Lab] = Append(@, [whole |-> FALSE, buf |-> m])],
           chan' = [chan EXCEPT ![Lab] = Tail(@)], cut' = cut,
           UNCHANGED <<refvars, tester, msgs>>
    PROVE  LabInv'
<1> USE DEF LabInv
<1>1. UNCHANGED <<status, info, recv_seq, seq, cmp, reply, compared, SuccessMaxIdx, gen, lost, SendSeq, pc, msgs, cut>>
  BY DEF refvars, tester
<1>2. /\ recvd' \in [{Lab} -> Seq([whole : BOOLEAN, buf : Text])] /\ Tcp!Damaged(Lab)'
  BY DamagedAfter, ZenonT(30)
<1>3. chan \in [{Lab} -> Seq(Msg)] /\ chan[Lab] \in Seq(Msg) /\ Len(chan[Lab]) \in Nat
  BY DEF LabTypeOK
<1>4. chan' \in [{Lab} -> Seq(Msg)] /\ Len(chan'[Lab]) = Len(chan[Lab]) - 1
  <2>1. Tail(chan[Lab]) \in Seq(Msg) /\ Len(Tail(chan[Lab])) = Len(chan[Lab]) - 1
    BY <1>3
  <2> QED BY <1>3, <2>1
<1>5. LabTypeOK'
  BY <1>1, <1>2, <1>4 DEF LabTypeOK
<1>6. RefInv' /\ Quiet' /\ Registered'
  BY <1>1 DEF RefInv, RefTypeOK, EntriesAlive, NoTestError, Quiet, Registered, NoneLost
<1>7. Arrived'
  BY <1>1, <1>2, ZenonT(30) DEF Arrived, Clean, NoneLost
<1>8. OnItsWay'
  <2>1. Sent' <= Len(gen')
    <3>1. recv_seq \in Nat /\ Len(gen) \in Nat /\ Sent <= Len(gen)
      BY RefereeAssumption DEF RefInv, RefTypeOK, LabTypeOK, OnItsWay
    <3> QED BY <1>1, <1>3, <1>4, <3>1 DEF Sent
  <2> QED BY <1>1, <1>2, <2>1 DEF OnItsWay
<1> QED BY <1>5, <1>6, <1>7, <1>8

\* The indices of the referee's map, around the one that is committed next.
LEMMA UpToIndex == ASSUME NEW n \in 0 .. MaxSeq, NEW j \in Nat, NEW k \in 1 .. j, k <= n
                   PROVE  k \in Index
BY RefereeAssumption DEF Index

LEMMA BeforeLast == ASSUME NEW n \in Nat, n < MaxSeq, NEW k \in 1 .. n
                    PROVE  k \in Index /\ k # n + 1
BY RefereeAssumption DEF Index

LEMMA LastOrBefore == ASSUME NEW n \in Nat, NEW k \in 1 .. n + 1
                      PROVE  k \in 1 .. n \/ k = n + 1
OBVIOUS

\* The receiver takes the first message of the channel, whole or the beginning of it, and
\* commits it behind the answer that was registered before the message was sent.
LEMMA DeliveredStep ==
    ASSUME LabInv, ~Tcp!Damaged(Lab), chan[Lab] # <<>>, NEW m \in Text, commit(m),
           NEW w \in BOOLEAN,
           recvd' = [recvd EXCEPT ![Lab] = Append(@, [whole |-> w, buf |-> m])],
           chan' = [chan EXCEPT ![Lab] = Tail(@)], cut' = cut,
           w => m = chan[Lab][1],
           ~w => cut[Lab] /\ IsPrefix(m, chan[Lab][1]),
           UNCHANGED <<tester, msgs>>
    PROVE  LabInv'
<1> USE DEF LabInv
<1>1. UNCHANGED <<SuccessMaxIdx, gen, lost, SendSeq, pc, msgs, cut>>
  BY DEF tester
<1>2. /\ recvd' \in [{Lab} -> Seq([whole : BOOLEAN, buf : Text])] /\ (Tcp!Damaged(Lab)' <=> ~w)
  BY DamagedAfter, Zenon
<1>3. chan \in [{Lab} -> Seq(Msg)] /\ chan[Lab] \in Seq(Msg) /\ Len(chan[Lab]) \in Nat /\ Len(chan[Lab]) > 0
  BY DEF LabTypeOK
<1>4. chan' \in [{Lab} -> Seq(Msg)] /\ Len(chan'[Lab]) = Len(chan[Lab]) - 1
      /\ \A i \in 1 .. Len(chan[Lab]) - 1 : chan'[Lab][i] = chan[Lab][i + 1]
  <2>1. Tail(chan[Lab]) \in Seq(Msg) /\ Len(Tail(chan[Lab])) = Len(chan[Lab]) - 1
        /\ \A i \in 1 .. Len(chan[Lab]) - 1 : Tail(chan[Lab])[i] = chan[Lab][i + 1]
    BY <1>3
  <2>2. chan'[Lab] = Tail(chan[Lab])
    BY <1>3
  <2> QED BY <1>3, <2>1, <2>2
<1>5. LabTypeOK'
  BY <1>1, <1>2, <1>4 DEF LabTypeOK
<1>6. /\ recv_seq < MaxSeq /\ recv_seq' = recv_seq + 1
      /\ info' = [info EXCEPT ![recv_seq + 1] = MessageInfo(IF @ = Null THEN Blank ELSE @.answer, m)]
      /\ UNCHANGED <<status, seq, cmp>>
  BY DEF commit, Quiet
<1>7. RefInv' /\ Quiet'
  BY <1>1, <1>6, CommitKeeps DEF Quiet
<1>8. /\ recv_seq \in Nat /\ Len(gen) \in Nat /\ Sent <= Len(gen) /\ seq \in 0 .. MaxSeq /\ info \in [Index -> Entry]
      /\ recv_seq + 1 \in Index /\ recv_seq + 1 <= Len(gen)
  BY <1>3, <1>6, RefereeAssumption DEF RefInv, RefTypeOK, LabTypeOK, OnItsWay, Index, Sent
<1>9. Sent' = Sent
  BY <1>3, <1>4, <1>6, <1>8 DEF Sent
<1>10. \A k : (Clean(k)' <=> Clean(k)) /\ (NoneLost(k)' <=> NoneLost(k))
  BY <1>1 DEF Clean, NoneLost
<1>11. NoneLost(recv_seq + 1) => info[recv_seq + 1].ptr = "live"
  BY <1>8 DEF Registered, RefInv, EntriesAlive, Quiet
<1>12. NoneLost(recv_seq + 1) => info'[recv_seq + 1] = MessageInfo(info[recv_seq + 1].answer, m)
  <2>1. Null.ptr # "live"
    BY DEF Null
  <2>2. NoneLost(recv_seq + 1) => info[recv_seq + 1] # Null
    BY <1>11, <2>1, Zenon
  <2> QED BY <1>6, <1>8, <2>2
<1>13. \A k \in Index : k # recv_seq + 1 => info'[k] = info[k]
  BY <1>6, <1>8
<1>14. Registered'
  <2>1. ASSUME NEW k \in 1 .. Len(gen), NoneLost(k) PROVE k <= seq /\ info'[k].answer = gen[k]
    <3>1. k <= seq /\ info[k].answer = gen[k] /\ k \in Index
      <4>1. k <= seq /\ info[k].answer = gen[k]
        BY <2>1, Zenon DEF Registered
      <4> QED BY <1>8, <4>1, UpToIndex, ZenonT(30)
    <3>2. CASE k = recv_seq + 1
      BY <1>12, <2>1, <3>1, <3>2 DEF MessageInfo
    <3>3. CASE k # recv_seq + 1
      BY <1>13, <3>1, <3>3
    <3> QED BY <3>1, <3>2, <3>3
  <2> QED BY <1>1, <1>6, <1>10, <2>1 DEF Registered
<1>15. Clean(recv_seq + 1) => chan[Lab][1] = gen[recv_seq + 1]
  BY <1>3 DEF OnItsWay
<1>16. Arrived'
  <2>1. ASSUME NEW k \in 1 .. recv_seq + 1, Clean(k)
        PROVE  \/ info'[k].msg = gen[k]
               \/ cut[Lab] /\ Tcp!Damaged(Lab)' /\ k = recv_seq + 1 /\ IsPrefix(info'[k].msg, gen[k])
    <3>1. CASE k \in 1 .. recv_seq
      <4>1. k \in Index /\ k # recv_seq + 1
        BY <1>6, <1>8, <3>1, BeforeLast
      <4>2. info'[k] = info[k] /\ info[k].msg = gen[k]
        BY <1>13, <2>1, <3>1, <4>1 DEF Arrived
      <4> QED BY <4>2, ZenonT(30)
    <3>2. CASE k = recv_seq + 1
      <4>1. info'[k].msg = m
        BY <1>12, <2>1, <3>2 DEF Clean, MessageInfo
      <4>2. CASE w
        BY <1>15, <2>1, <3>2, <4>1, <4>2, ZenonT(30)
      <4>3. CASE ~w
        BY <1>2, <1>15, <2>1, <3>2, <4>1, <4>3, Zenon
      <4> QED BY <4>2, <4>3
    <3> QED BY <1>8, <3>1, <3>2, LastOrBefore
  <2> QED BY <1>1, <1>6, <1>10, <2>1 DEF Arrived
<1>17. OnItsWay'
  <2>1. Popped' = Popped
    BY <1>1 DEF Popped, NPushed
  <2>2. Sent' <= Len(gen')
    BY <1>1, <1>8, <1>9
  <2>3. ~cut'[Lab] => /\ Sent' <= Popped'
                      /\ \A i \in 1 .. Len(msgs') : msgs'[i] = gen'[Popped' + i]
                      /\ \A k \in 1 .. Popped' : Clean(k)' => k <= Sent'
    BY <1>1, <1>9, <1>10, <2>1 DEF OnItsWay
  <2>4. ASSUME NEW i \in 1 .. Len(chan'[Lab]), Clean(recv_seq' + i)
        PROVE  chan'[Lab][i] = gen[recv_seq' + i]
    <3>1. i \in 1 .. Len(chan[Lab]) - 1 /\ i + 1 \in 1 .. Len(chan[Lab]) /\ recv_seq' + i = recv_seq + (i + 1)
      BY <1>3, <1>4, <1>6, <1>8
    <3>2. Clean(recv_seq + (i + 1))
      BY <2>4, <3>1
    <3>3. chan[Lab][i + 1] = gen[recv_seq + (i + 1)]
      BY <3>1, <3>2 DEF OnItsWay
    <3> QED BY <1>4, <3>1, <3>3
  <2>5. ~Tcp!Damaged(Lab)' =>
          \A i \in 1 .. Len(chan'[Lab]) : Clean(recv_seq + i)' => chan'[Lab][i] = gen'[recv_seq' + i]
    BY <1>1, <1>10, <2>4
  <2> QED BY <2>2, <2>3, <2>5, Zenon DEF OnItsWay
<1> QED BY <1>5, <1>7, <1>14, <1>16, <1>17

\* What a message cut short leaves is nothing or one of the messages, and its beginning.
LEMMA CutShort ==
    ASSUME NEW x \in Msg, NEW n \in 0 .. Len(x) - 1
    PROVE  SubSeq(x, 1, n) \in Text /\ IsPrefix(SubSeq(x, 1, n), x)
<1>1. x \in Seq(Nat) /\ n \in Nat /\ n <= Len(x) /\ Len(x) \in Nat
  BY LabAssumption
<1>2. Len(SubSeq(x, 1, n)) = n /\ SubSeq(x, 1, n) \in Seq(Nat)
  BY <1>1, SubSeqProperties
<1>3. SubSeq(x, 1, n) \in Text
  <2>1. CASE n = 0
    <3>1. SubSeq(x, 1, n) = <<>>
      BY <1>2, <2>1, EmptySeq
    <3> QED BY <3>1, LabAssumption DEF Text
  <2>2. CASE n # 0
    <3>1. n \in 1 .. Len(x)
      BY <1>1, <2>2
    <3> QED BY <3>1, LabAssumption DEF Text
  <2> QED BY <2>1, <2>2
<1>4. SubSeq(SubSeq(x, 1, n), 1, n) = SubSeq(x, 1, n)
  <2> DEFINE y == SubSeq(x, 1, n)
  <2>1. y \in Seq(Nat) /\ Len(y) = n
    BY <1>2
  <2> HIDE DEF y
  <2>2. SubSeq(y, 1, n) = y
    BY <1>1, <2>1, SubSeqFull
  <2> QED BY <2>2 DEF y
<1> QED BY <1>1, <1>2, <1>3, <1>4 DEF IsPrefix

\* The server's main thread.
LEMMA ServerStep == ASSUME LabInv, Server PROVE LabInv'
<1>1. chan \in [{Lab} -> Seq(Msg)] /\ (chan[Lab] # <<>> => chan[Lab][1] \in Msg /\ Head(chan[Lab]) = chan[Lab][1])
  BY DEF LabInv, LabTypeOK
<1>2. CASE ServerMain
  <2>1. /\ chan[Lab] # <<>> /\ ~Tcp!Damaged(Lab) /\ commit(chan[Lab][1])
        /\ recvd' = [recvd EXCEPT ![Lab] = Append(@, [whole |-> TRUE, buf |-> chan[Lab][1]])]
        /\ chan' = [chan EXCEPT ![Lab] = Tail(@)] /\ cut' = cut
        /\ UNCHANGED <<tester, msgs>>
    BY <1>1, <1>2 DEF ServerMain, Tcp!Get
  <2>2. chan[Lab][1] \in Text
    BY <1>1, <2>1 DEF Text
  <2> QED BY <2>1, <2>2, DeliveredStep, Zenon
<1>3. ASSUME Tcp!GetDamaged(Lab)
      PROVE  /\ chan[Lab] # <<>> /\ ~Tcp!Damaged(Lab) /\ cut[Lab]
             /\ chan' = [chan EXCEPT ![Lab] = Tail(@)] /\ cut' = cut
             /\ \E m \in Text :
                   /\ IsPrefix(m, chan[Lab][1]) /\ Last(recvd'[Lab]).buf = m
                   /\ recvd' = [recvd EXCEPT ![Lab] = Append(@, [whole |-> FALSE, buf |-> m])]
  <2>1. /\ chan[Lab] # <<>> /\ ~Tcp!Damaged(Lab) /\ cut[Lab]
        /\ chan' = [chan EXCEPT ![Lab] = Tail(@)] /\ cut' = cut
    BY <1>3 DEF Tcp!GetDamaged
  <2>2. PICK n \in 0 .. Len(chan[Lab][1]) - 1 :
          recvd' = [recvd EXCEPT ![Lab] = Append(@, [whole |-> FALSE, buf |-> SubSeq(chan[Lab][1], 1, n)])]
    BY <1>3, Zenon DEF Tcp!GetDamaged
  <2>3. PICK m \in Text : m = SubSeq(chan[Lab][1], 1, n) /\ IsPrefix(m, chan[Lab][1])
    BY <1>1, <2>1, CutShort, Zenon
  <2>4. recvd' = [recvd EXCEPT ![Lab] = Append(@, [whole |-> FALSE, buf |-> m])]
    BY <2>2, <2>3
  <2>5. Last(recvd'[Lab]).buf = m
    <3> DEFINE Given == [whole : BOOLEAN, buf : Text]
               r == [whole |-> FALSE, buf |-> m]
    <3>1. r \in Given /\ r.buf = m
      OBVIOUS
    <3>2. recvd \in [{Lab} -> Seq(Given)] /\ recvd[Lab] \in Seq(Given)
      BY DEF LabInv, LabTypeOK
    <3> HIDE DEF Given
    <3>3. recvd'[Lab] = Append(recvd[Lab], r)
      BY <2>4, <3>2
    <3> HIDE DEF r
    <3>4. Last(recvd'[Lab]) = r
      BY <3>1, <3>2, <3>3 DEF Last
    <3> QED BY <3>1, <3>4
  <2> QED BY <2>1, <2>3, <2>4, <2>5, Zenon
<1>4. CASE ServerMain_short
  <2>1. PICK m \in Text :
          /\ IsPrefix(m, chan[Lab][1]) /\ Last(recvd'[Lab]).buf = m
          /\ recvd' = [recvd EXCEPT ![Lab] = Append(@, [whole |-> FALSE, buf |-> m])]
    BY <1>3, <1>4, ZenonT(30) DEF ServerMain_short
  <2>2. /\ chan[Lab] # <<>> /\ ~Tcp!Damaged(Lab) /\ cut[Lab]
        /\ chan' = [chan EXCEPT ![Lab] = Tail(@)] /\ cut' = cut /\ UNCHANGED <<tester, msgs>>
    BY <1>3, <1>4, Zenon DEF ServerMain_short
  <2>3. CASE m = <<>>
    <3>1. UNCHANGED refvars
      BY <1>4, <2>1, <2>3, Zenon DEF ServerMain_short
    <3> QED BY <2>1, <2>2, <3>1, DroppedStep, Zenon
  <2>4. CASE m # <<>>
    <3>1. commit(m)
      BY <1>4, <2>1, <2>4 DEF ServerMain_short
    <3> QED BY <2>1, <2>2, <3>1, DeliveredStep, Zenon
  <2> QED BY <2>3, <2>4
<1>5. CASE ServerMain_reset
  <2>1. PICK m \in Text :
          recvd' = [recvd EXCEPT ![Lab] = Append(@, [whole |-> FALSE, buf |-> m])]
    BY <1>3, <1>5, ZenonT(30) DEF ServerMain_reset
  <2>2. /\ chan[Lab] # <<>> /\ cut[Lab] /\ chan' = [chan EXCEPT ![Lab] = Tail(@)] /\ cut' = cut
        /\ UNCHANGED <<refvars, tester, msgs>>
    BY <1>3, <1>5, ZenonT(30) DEF ServerMain_reset
  <2> QED BY <2>1, <2>2, DroppedStep, Zenon
<1> QED BY <1>2, <1>4, <1>5 DEF Server

\* The whole exercise keeps the invariant: strings, answers and messages stay aligned up to
\* the first loss, and the tester never queries.
THEOREM LabInvariant == LabSpec => []LabInv
<1>1. LabInv /\ [LabNext]_labVars => LabInv'
  <2> SUFFICES ASSUME LabInv, [LabNext]_labVars PROVE LabInv'
    OBVIOUS
  <2>1. CASE UNCHANGED labVars
    <3>1. UNCHANGED <<status, info, recv_seq, seq, cmp, reply, compared, pc, gen, lost, SendSeq, SuccessMaxIdx, msgs, chan, recvd, cut>>
      BY <2>1 DEF labVars, refvars, tester, link
    <3>2. RefInv' /\ LabTypeOK' /\ Quiet' /\ Registered' /\ Arrived'
      BY <3>1 DEF LabInv, RefInv, RefTypeOK, EntriesAlive, NoTestError, LabTypeOK, Quiet, Registered, NoneLost, Clean, Arrived, Tcp!Damaged
    <3>3. Sent' = Sent /\ Popped' = Popped
      BY <3>1 DEF Sent, Popped, NPushed
    <3>4. OnItsWay'
      BY <3>1, <3>3, Zenon DEF LabInv, OnItsWay, Clean, NoneLost, Tcp!Damaged
    <3> QED BY <3>2, <3>4 DEF LabInv
  <2>2. CASE \E s \in Text : SendAnswer(s)
    BY <2>2, SendAnswerStep
  <2>3. CASE push
    BY <2>3, PushStep
  <2>4. CASE Check
    BY <2>4, CheckStep
  <2>5. CASE Pass
    BY <2>5, CutStep DEF Pass
  <2>6. CASE ClientMain
    BY <2>6, ClientMainStep
  <2>7. CASE Reset
    <3>1. msgs \in Seq(Text)
      BY DEF LabInv, LabTypeOK
    <3> QED BY <2>7, <3>1, CutStep DEF Reset, tester
  <2>8. CASE Server
    BY <2>8, ServerStep
  <2> QED BY <2>1, <2>2, <2>3, <2>4, <2>5, <2>6, <2>7, <2>8 DEF LabNext
<1> QED BY LabInitial, <1>1, PTL DEF LabSpec

\* For every set of messages and every batches: the k-th answer meets the k-th message,
\* whole unless it is the last one and the client's exit cut it short.
THEOREM LabIsPaired == LabSpec => []LabPaired
<1>1. LabInv => Paired
  <2> SUFFICES ASSUME LabInv, NEW k \in 1 .. recv_seq, Clean(k)
               PROVE  /\ info[k].ptr = "live" /\ info[k].answer = gen[k]
                      /\ \/ info[k].msg = gen[k]
                         \/ cut[Lab] /\ k = recv_seq /\ IsPrefix(info[k].msg, gen[k])
    BY DEF Paired
  <2>1. k \in Index /\ k > cmp /\ status = "Success"
    BY RefereeAssumption DEF LabInv, RefInv, RefTypeOK, Index, Quiet
  <2>2. info[k].ptr = "live"
    BY <2>1 DEF LabInv, RefInv, EntriesAlive
  <2>3. k \in 1 .. Len(gen) /\ NoneLost(k)
    BY <2>1 DEF Clean, NoneLost, LabInv, LabTypeOK
  <2> QED BY <2>2, <2>3, ZenonT(30) DEF LabInv, Registered, Arrived
<1>2. LabInv => LabPaired
  BY <1>1 DEF LabPaired
<1> QED BY LabInvariant, <1>2, PTL
=============================================================================
