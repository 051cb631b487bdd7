--------------------------- MODULE SignalProofs -----------------------------
(***************************************************************************)
(* Proofs about UDP programs that a signal interrupts: the clients that    *)
(* time a reply, the client that retransmits on SIGALRM, and the server    *)
(* driven by SIGIO.                                                        *)
(***************************************************************************)
EXTENDS DgCli, ReliableUdp, SigioEcho, SequenceTheorems, TLAPS

(***************************************************************************)
(* The UDP clients that time a reply: where the alarm is and which line a  *)
(* reply belongs to, in every version and for every number of lines.       *)
(***************************************************************************)

\* What the versions have in common, field by field.
LEMMA VersionFacts ==
    ASSUME NEW v \in Versions
    PROVE  /\ v.replies \in {"one", "all"}
           /\ v.handler \in {"jump", "pipe"} => v.replies = "all" /\ v.timer = "alarm" /\ v.mask = "open"
           /\ v.handler = "return" => v.timer = "alarm"
           /\ v.call = "pselect" <=> v.mask = "blocked"
           /\ v.call = "pselect" => v.replies = "all" /\ v.handler = "return" /\ v.timer = "alarm"
           /\ v.handler = "return" => v.call \in {"recvfrom", "pselect"}
           /\ v.replies = "one" /\ v.timer = "alarm" => v.handler = "return" /\ v.call = "recvfrom" /\ v.mask = "open"
           /\ v.timer # "alarm" => v.replies = "one" /\ v.handler = "none" /\ v.mask = "open"
           /\ v.timer = "alarm" => v.handler \in {"return", "jump", "pipe"}
BY DEF Versions, Version, dgclibcast1, dgclibcast2, dgclibcast3, dgclibcast4, dgclibcast5, dgclibcast6,
       dgclitimeo, dgclitimeo1, dgclitimeo2, dgclitimeo3, dgcliaddr, dgcliinetaddr, dgcliconnect

\* The same facts of the version that runs.
LEMMA VerFacts ==
    ASSUME DgCliTypeOK
    PROVE  /\ ver.replies \in {"one", "all"}
           /\ ver.handler \in {"jump", "pipe"} => Many /\ ver.timer = "alarm" /\ ver.mask = "open"
           /\ ver.handler = "return" => ver.timer = "alarm"
           /\ ver.call = "pselect" <=> ver.mask = "blocked"
           /\ ver.call = "pselect" => Many /\ ver.handler = "return" /\ ver.timer = "alarm"
           /\ ver.handler = "return" => ver.call \in {"recvfrom", "pselect"}
           /\ ~Many /\ ver.timer = "alarm" => ver.handler = "return" /\ ver.call = "recvfrom" /\ ver.mask = "open"
           /\ ver.timer # "alarm" => ~Many /\ ver.handler = "none" /\ ver.mask = "open"
           /\ ver.timer = "alarm" => ver.handler \in {"return", "jump", "pipe"}
BY VersionFacts DEF DgCliTypeOK, Many

\* The client starts in the invariant.
LEMMA DgCliInitial == DgCliInit => DgCliInv
<1> SUFFICES ASSUME DgCliInit PROVE DgCliInv
  OBVIOUS
<1>1. DgCliTypeOK
  BY DgCliAssumption DEF DgCliInit, DgCliTypeOK, ALRM
<1>2. AlarmHeld
  BY <1>1, VerFacts DEF DgCliInit, AlarmHeld, AlarmCount
<1>3. WaitOK /\ OneReply /\ OwnReply
  BY DEF DgCliInit, WaitOK, OneReply, OwnReply, Covered, Due
<1> QED BY <1>1, <1>2, <1>3 DEF DgCliInv

\* The steps that only move the client on, or the alarm.
LEMMA StartAlarmStep == ASSUME DgCliInv, StartAlarm PROVE DgCliInv'
<1> USE DEF DgCliInv
<1>1. DgCliTypeOK'
  BY DEF StartAlarm, DgCliTypeOK
<1>2. AlarmHeld'
  BY VerFacts DEF StartAlarm, AlarmHeld, AlarmCount, DgCliTypeOK
<1>3. WaitOK'
  BY DEF StartAlarm, WaitOK, DgCliTypeOK
<1>4. (~Many => OneReply)' /\ OwnReply'
  BY DEF StartAlarm, OneReply, OwnReply, Covered, Due, Many
<1> QED BY <1>1, <1>2, <1>3, <1>4

\* The head of the loop lets SIGALRM in only where it is blocked otherwise.
LEMMA LoopStepDg == ASSUME DgCliInv, Loop PROVE DgCliInv'
<1> USE DEF DgCliInv
<1>1. DgCliTypeOK'
  BY DEF Loop, DgCliTypeOK
<1>2. AlarmHeld'
  BY VerFacts DEF Loop, AlarmHeld, AlarmCount, DgCliTypeOK
<1>3. WaitOK'
  BY DEF Loop, WaitOK, DgCliTypeOK
<1>4. (~Many => OneReply)' /\ OwnReply'
  BY DEF Loop, OneReply, OwnReply, Covered, Due, Many
<1> QED BY <1>1, <1>2, <1>3, <1>4

\* Entering the call changes nothing else.
LEMMA EnterStep == ASSUME DgCliInv, Enter PROVE DgCliInv'
<1> USE DEF DgCliInv, sigState
<1>1. DgCliTypeOK'
  BY DEF Enter, DgCliTypeOK
<1>2. AlarmHeld'
  BY VerFacts DEF Enter, AlarmHeld, AlarmCount, DgCliTypeOK
<1>3. WaitOK'
  BY DEF Enter, WaitOK, DgCliTypeOK
<1>4. (~Many => OneReply)' /\ OwnReply'
  BY DEF Enter, OneReply, OwnReply, Covered, Due, Many
<1> QED BY <1>1, <1>2, <1>3, <1>4

\* What select found stays true until it is used.
LEMMA ReturnsStep == ASSUME DgCliInv, Returns PROVE DgCliInv'
<1> USE DEF DgCliInv, sigState
<1>1. DgCliTypeOK'
  BY DEF Returns, DgCliTypeOK
<1>2. AlarmHeld'
  BY VerFacts DEF Returns, AlarmHeld, AlarmCount, DgCliTypeOK
<1>3. WaitOK'
  BY DEF Returns, WaitOK, DgCliTypeOK
<1>4. (~Many => OneReply)' /\ OwnReply'
  BY DEF Returns, OneReply, OwnReply, Covered, Due, Many
<1> QED BY <1>1, <1>2, <1>3, <1>4

\* The alarm moves from the clock to the pending signals.
LEMMA ExpireStep == ASSUME DgCliInv, Expire PROVE DgCliInv'
<1> USE DEF DgCliInv
<1>1. DgCliTypeOK'
  BY DEF Expire, DgCliTypeOK
<1>2. AlarmHeld'
  BY VerFacts DEF Expire, AlarmHeld, AlarmCount, DgCliTypeOK, ALRM
<1>3. WaitOK'
  BY DEF Expire, WaitOK, DgCliTypeOK
<1>4. (~Many => OneReply)' /\ OwnReply'
  BY DEF Expire, OneReply, OwnReply, Covered, Due, Many
<1> QED BY <1>1, <1>2, <1>3, <1>4

\* siglongjmp covers the line whose wait it ends.
LEMMA JumpStep == ASSUME DgCliInv, Jump PROVE DgCliInv'
<1> USE DEF DgCliInv
<1>1. DgCliTypeOK'
  BY DEF Jump, DgCliTypeOK, Deliverable, AlarmHeld, AlarmCount, WaitOK
<1>2. AlarmHeld'
  BY VerFacts DEF Jump, AlarmHeld, AlarmCount, DgCliTypeOK, ALRM, Deliverable
<1>3. WaitOK'
  BY DEF Jump, WaitOK, DgCliTypeOK, Deliverable, AlarmHeld, AlarmCount
<1>4. (~Many => OneReply)' /\ OwnReply'
  BY VerFacts DEF Jump, OneReply, OwnReply, Covered, Due, Many
<1> QED BY <1>1, <1>2, <1>3, <1>4

\* The alarm moves from the pending signals to the pipe.
LEMMA WritePipeStep == ASSUME DgCliInv, WritePipe PROVE DgCliInv'
<1> USE DEF DgCliInv
<1>1. DgCliTypeOK'
  BY DEF WritePipe, DgCliTypeOK, Deliverable, AlarmHeld, AlarmCount
<1>2. AlarmHeld'
  BY VerFacts DEF WritePipe, AlarmHeld, AlarmCount, DgCliTypeOK, ALRM, Deliverable
<1>3. WaitOK'
  BY DEF WritePipe, WaitOK, DgCliTypeOK, Deliverable, AlarmHeld, AlarmCount
<1>4. (~Many => OneReply)' /\ OwnReply'
  BY VerFacts DEF WritePipe, OneReply, OwnReply, Covered, Due, Many
<1> QED BY <1>1, <1>2, <1>3, <1>4

\* A handler that only returns either ends the wait or loses the alarm.
LEMMA InterruptStep == ASSUME DgCliInv, Interrupt PROVE DgCliInv'
<1> USE DEF DgCliInv
<1>0. at # "fgets" /\ line \in 1 .. line /\ line \in Nat
  BY DgCliAssumption DEF Interrupt, Deliverable, AlarmHeld, AlarmCount, DgCliTypeOK, WaitOK
<1>1. DgCliTypeOK'
  BY <1>0, Zenon DEF Interrupt, DgCliTypeOK
<1>2. AlarmHeld'
  <2>1. ver.handler = "return" /\ ver.timer = "alarm" /\ ver.call \in {"recvfrom", "pselect"} /\ pipefd = 0
    BY VerFacts DEF Interrupt, AlarmHeld
  <2>2. alarmOn = "off" /\ sigs' = {} /\ UNCHANGED <<ver, alarmOn, pipefd>>
    BY <2>1 DEF Interrupt, Deliverable, AlarmHeld, AlarmCount, DgCliTypeOK
  <2>3. AlarmCount' = 0
    BY <2>1, <2>2 DEF AlarmCount
  <2>4. CASE at = "blocked"
    <3>1. at' = "fgets" /\ mask' = IF ver.mask = "around" THEN ALRM ELSE mask
      BY <2>4 DEF Interrupt
    <3> QED BY <2>1, <2>2, <2>3, <3>1 DEF AlarmHeld
  <2>5. CASE at # "blocked"
    <3>1. at' = at /\ mask' = mask /\ mask = {}
      BY <2>5 DEF Interrupt, Deliverable
    <3>2. ver.call = "recvfrom"
      BY <1>0, <2>1, <3>1, VerFacts DEF AlarmHeld, ALRM
    <3> QED BY <2>1, <2>2, <2>3, <3>1, <3>2 DEF AlarmHeld
  <2> QED BY <2>4, <2>5
<1>3. WaitOK'
  BY DEF Interrupt, WaitOK, DgCliTypeOK, Deliverable
<1>4. late \subseteq late' /\ (at' = "fgets" => line \in late')
  BY <1>0 DEF Interrupt
<1>5. \A n : Covered(n) => Covered(n)'
  BY <1>4 DEF Covered
<1>6. line \in Nat /\ \A n : Due(n) => Due(n)'
  <2>1. line \in Nat
    BY <1>0
  <2>2. ASSUME NEW n, Due(n) PROVE Due(n)'
    <3>1. CASE n = line /\ at' = "fgets"
      <4>1. line <= n
        BY <2>1, <3>1
      <4>2. Covered(n)'
        BY <1>4, <3>1, <4>1 DEF Covered
      <4> QED BY <2>2, <4>2 DEF Due, Interrupt
    <3> QED BY <1>5, <2>2, <3>1 DEF Due, Interrupt
  <2> QED BY <2>1, <2>2
<1>7. UNCHANGED <<ver, line, got, sockq, flying, printed>>
  BY DEF Interrupt
<1>8. (~Many => OneReply)'
  BY <1>6, <1>7 DEF OneReply, Many
<1>9. OwnReply'
  BY <1>5, <1>7 DEF OwnReply, Many
<1> QED BY <1>1, <1>2, <1>3, <1>8, <1>9

\* The call's own timeout covers the line.
LEMMA CallTimesOutStep == ASSUME DgCliInv, CallTimesOut PROVE DgCliInv'
<1> USE DEF DgCliInv, sigState
<1>0. at = "blocked" /\ at' = "fgets" /\ line \in 1 .. line /\ line \in Nat /\ late' = late \cup {line}
  BY DgCliAssumption DEF CallTimesOut, DgCliTypeOK, WaitOK
<1>1. DgCliTypeOK'
  BY <1>0 DEF CallTimesOut, DgCliTypeOK
<1>2. AlarmHeld'
  BY <1>0, VerFacts DEF CallTimesOut, AlarmHeld, AlarmCount, DgCliTypeOK
<1>3. WaitOK'
  BY <1>0 DEF CallTimesOut, WaitOK, DgCliTypeOK
<1>5. \A n : Covered(n) => Covered(n)'
  BY <1>0 DEF Covered
<1>7. UNCHANGED <<ver, line, got, sockq, flying, printed>>
  BY DEF CallTimesOut
<1>6. \A n : Due(n) => Due(n)'
  <2>1. Covered(line)'
    BY <1>0, <1>7 DEF Covered
  <2> QED BY <1>5, <1>7, <2>1 DEF Due
<1>8. (~Many => OneReply)'
  BY <1>6, <1>7 DEF OneReply, Many
<1>9. OwnReply'
  BY <1>5, <1>7 DEF OwnReply, Many
<1> QED BY <1>1, <1>2, <1>3, <1>8, <1>9

\* The next line: what is still under way is covered.
LEMMA SendtoStep == ASSUME DgCliInv, ~Deliverable, Sendto PROVE DgCliInv'
<1> USE DEF DgCliInv
<1>0. /\ at = "fgets" /\ line' = line + 1 /\ line < MaxLine /\ line \in Nat /\ line \in 0 .. MaxLine
      /\ UNCHANGED <<ver, got, ready, alarmOn, sigs, jmpbuf, pipefd, sockq, late, printed>>
      /\ at' \in {"alarm", "call"} /\ (at' = "alarm" <=> ver.timer = "alarm")
      /\ mask' = IF ver.mask = "blocked" THEN ALRM ELSE mask
  BY DgCliAssumption DEF Sendto, DgCliTypeOK
<1>r. PICK rs \in SUBSET {r \in Reply : r.to = line + 1} :
        (~Many => \A r, q \in rs : r = q) /\ flying' = flying \cup rs
  BY DEF Sendto
<1>1. DgCliTypeOK'
  <2>1. flying' \subseteq Reply
    BY <1>r DEF DgCliTypeOK
  <2>2. line' \in 0 .. MaxLine
    BY <1>0, DgCliAssumption
  <2>3. late' \subseteq 1 .. line'
    BY <1>0 DEF DgCliTypeOK
  <2> QED BY <1>0, <2>1, <2>2, <2>3 DEF DgCliTypeOK, ALRM
<1>2. AlarmHeld'
  BY <1>0, VerFacts DEF AlarmHeld, AlarmCount, DgCliTypeOK
<1>3. WaitOK'
  BY <1>0 DEF WaitOK
<1>5. \A n : Covered(n)' <=> Covered(n)
  BY <1>0 DEF Covered
<1>6. ASSUME NEW n \in Int, Due(n) PROVE Due(n)' /\ n # line'
  BY <1>0, <1>5, <1>6 DEF Due
<1>7. OwnReply'
  BY <1>0, <1>5 DEF OwnReply, Many
<1>8. ASSUME ~Many PROVE OneReply'
  <2>0. (\A r \in Reply : r.to \in Int) /\ flying \subseteq Reply /\ sockq \in Seq(Reply)
    BY DgCliAssumption DEF Reply, DgCliTypeOK
  <2>a. \A i \in DOMAIN sockq : sockq[i] \in Reply
    BY <2>0
  <2>1. /\ \A r \in flying : r.to \in Int /\ Due(r.to)
        /\ \A i \in DOMAIN sockq : sockq[i].to \in Int /\ Due(sockq[i].to)
    BY <1>8, <2>0, <2>a DEF OneReply
  <2>2. \A r \in flying : Due(r.to)' /\ r.to # line'
    BY <1>6, <2>1
  <2>3. \A i \in DOMAIN sockq : Due(sockq[i].to)' /\ sockq[i].to # line'
    <3> TAKE i \in DOMAIN sockq
    <3>1. PICK n \in Int : n = sockq[i].to
      BY <2>1
    <3>2. Due(n)
      BY <2>1, <3>1
    <3>3. Due(n)' /\ n # line'
      BY <1>6, <3>2
    <3> QED BY <1>0, <3>1, <3>3
  <2>4. got' = NoReply
    BY <1>0 DEF WaitOK
  <2>5. \A r \in rs : r.to = line'
    BY <1>0
  <2>6. \A r \in rs : Due(r.to)'
    BY <1>0, <2>5 DEF Due
  <2>7. \A r \in flying' : r \in flying \/ r \in rs
    BY <1>r
  <2>8. \A r \in flying' : Due(r.to)'
    BY <2>2, <2>6, <2>7
  <2>9. \A r, q \in flying' : r.to = line' /\ q.to = line' => r = q
    BY <1>r, <1>8, <2>2, <2>7
  <2>10. sockq' = sockq
    BY <1>0
  <2> QED BY <2>3, <2>4, <2>8, <2>9, <2>10 DEF OneReply
<1> QED BY <1>0, <1>1, <1>2, <1>3, <1>7, <1>8 DEF Many

\* Taking the first reply off the socket's buffer shifts the others.
LEMMA TailFacts == ASSUME sockq \in Seq(Reply), sockq # <<>>
                   PROVE  /\ Tail(sockq) \in Seq(Reply) /\ Head(sockq) \in Reply
                          /\ 1 \in DOMAIN sockq /\ Head(sockq) = sockq[1]
                          /\ \A i \in DOMAIN Tail(sockq) : i + 1 \in DOMAIN sockq /\ Tail(sockq)[i] = sockq[i + 1]
                                                           /\ i \in Int
<1>1. Len(sockq) \in Nat /\ Len(sockq) # 0 /\ DOMAIN sockq = 1 .. Len(sockq)
  BY EmptySeq
<1>2. Tail(sockq) \in Seq(Reply) /\ Len(Tail(sockq)) = Len(sockq) - 1
      /\ \A i \in 1 .. Len(Tail(sockq)) : Tail(sockq)[i] = sockq[i + 1]
  BY HeadTailProperties
<1>3. Head(sockq) \in Reply /\ Head(sockq) = sockq[1]
  BY HeadTailProperties
<1>4. DOMAIN Tail(sockq) = 1 .. Len(Tail(sockq))
  BY <1>2
<1> QED BY <1>1, <1>2, <1>3, <1>4

\* Reading a reply takes it out of the buffer, once.
LEMMA ReadStep == ASSUME DgCliInv, ~Deliverable, Read PROVE DgCliInv'
<1> USE DEF DgCliInv
<1>0. /\ at = "read" /\ at' = "print" /\ got = NoReply
      /\ UNCHANGED <<ver, line, ready, alarmOn, sigs, jmpbuf, pipefd, flying, late, printed>>
      /\ mask' = IF ver.mask = "around" THEN ALRM ELSE mask
      /\ sockq \in Seq(Reply)
  BY DEF Read, WaitOK, DgCliTypeOK
<1>1. AlarmHeld'
  BY <1>0, VerFacts DEF AlarmHeld, AlarmCount, DgCliTypeOK
<1>5. \A n : Covered(n)' <=> Covered(n)
  BY <1>0 DEF Covered
<1>6. \A n : Due(n)' <=> Due(n)
  BY <1>0, <1>5 DEF Due
<1>7. OwnReply'
  BY <1>0, <1>5 DEF OwnReply, Many
<1>8. CASE "socket" \in ready
  <2>1. got' = Head(sockq) /\ sockq' = Tail(sockq) /\ sockq # <<>>
    BY <1>0, <1>8 DEF Read, WaitOK
  <2>2. DgCliTypeOK'
    <3>1. sockq' \in Seq(Reply) /\ got' \in Reply
      BY <1>0, <2>1, TailFacts
    <3> QED BY <1>0, <3>1 DEF DgCliTypeOK, ALRM
  <2>3. WaitOK'
    BY <1>0 DEF WaitOK
  <2>4. ASSUME ~Many PROVE OneReply'
    <3>1. OneReply /\ 1 \in DOMAIN sockq /\ got' = sockq[1] /\ flying' = flying /\ line' = line
      BY <2>4, <1>0, <2>1, TailFacts
    <3>2. \A i \in DOMAIN sockq' : i + 1 \in DOMAIN sockq /\ sockq'[i] = sockq[i + 1] /\ i \in Int /\ i + 1 # 1
      <4>1. \A i \in DOMAIN sockq' : i + 1 \in DOMAIN sockq /\ sockq'[i] = sockq[i + 1] /\ i \in Int
        BY <1>0, <2>1, TailFacts
      <4>2. DOMAIN sockq = 1 .. Len(sockq) /\ DOMAIN sockq' = 1 .. Len(sockq') /\ Len(sockq') \in Nat
        BY <1>0, <2>1, TailFacts
      <4>3. \A i \in DOMAIN sockq' : i + 1 # 1
        BY <4>2
      <4> QED BY <4>1, <4>3
    <3>3. (\A r \in flying : Due(r.to))' /\ (\A i \in DOMAIN sockq : Due(sockq[i].to))' /\ Due(got.to)'
      BY <1>0, <3>1, <3>2 DEF OneReply, Due, Covered
    <3>4. \A r, q \in flying' : r.to = line' /\ q.to = line' => r = q
      BY <3>1 DEF OneReply
    <3>5. \A r \in flying', i \in DOMAIN sockq' : r.to = line' => sockq'[i].to # line'
      BY <3>1, <3>2 DEF OneReply
    <3>6. ASSUME NEW i \in DOMAIN sockq', NEW j \in DOMAIN sockq', sockq'[i].to = line', sockq'[j].to = line'
          PROVE  i = j
      <4>1. i + 1 = j + 1
        BY <3>1, <3>2, <3>6 DEF OneReply
      <4> QED BY <3>2, <4>1
    <3>7. got'.to = line' => (\A r \in flying' : r.to # line') /\ \A i \in DOMAIN sockq' : sockq'[i].to # line'
      BY <3>1, <3>2 DEF OneReply
    <3> QED BY <3>3, <3>4, <3>5, <3>6, <3>7 DEF OneReply
  <2> QED BY <1>0, <1>1, <1>7, <2>2, <2>3, <2>4 DEF Many
<1>9. CASE "socket" \notin ready
  <2>1. got' = got /\ sockq' = sockq
    BY <1>9 DEF Read
  <2>2. DgCliTypeOK'
    BY <1>0, <2>1 DEF DgCliTypeOK, ALRM
  <2>3. WaitOK'
    BY <1>0 DEF WaitOK
  <2>4. (~Many => OneReply)'
    BY <1>0, <1>6, <2>1 DEF OneReply, Many
  <2> QED BY <1>1, <1>7, <2>2, <2>3, <2>4
<1> QED BY <1>8, <1>9

\* The reply is printed or dropped, and what is covered from then on.
LEMMA ShowStep == ASSUME DgCliInv, ~Deliverable, Show PROVE DgCliInv'
<1> USE DEF DgCliInv
<1>0. /\ at = "print" /\ UNCHANGED <<ver, line, sigs, mask, jmpbuf, sockq, flying>>
      /\ printed' = (IF Shown THEN printed \cup {[line |-> line, to |-> got.to]} ELSE printed)
      /\ late' = (IF ~Many /\ ~Shown THEN late \cup {line} ELSE late)
      /\ got' = NoReply /\ ready' = {}
      /\ at' = (IF Many /\ "pipe" \notin ready THEN "loop" ELSE "fgets")
      /\ pipefd' = (IF "pipe" \in ready THEN pipefd - 1 ELSE pipefd)
      /\ alarmOn' = (IF ~Many /\ ver.timer = "alarm" THEN "off" ELSE alarmOn)
  BY DEF Show
<1>n. line \in Nat /\ line > 0 /\ line \in 1 .. MaxLine /\ line \in 1 .. line
  BY <1>0, DgCliAssumption DEF WaitOK, DgCliTypeOK
<1>g. got # NoReply => got.to \in 1 .. MaxLine
  <2>1. got # NoReply => got \in Reply
    BY DEF DgCliTypeOK
  <2>2. \A r \in Reply : r.to \in 1 .. MaxLine
    BY DEF Reply
  <2> QED BY <2>1, <2>2
<1>p. "pipe" \in ready => pipefd = 1
  BY DEF WaitOK
<1>1. DgCliTypeOK'
  <2>1. printed' \subseteq [line : 1 .. MaxLine, to : 1 .. MaxLine]
    BY <1>0, <1>n, <1>g DEF DgCliTypeOK, Shown
  <2>2. late' \subseteq 1 .. line'
    BY <1>0, <1>n, Zenon DEF DgCliTypeOK
  <2>3. pipefd' \in 0 .. 1
    BY <1>0, <1>p DEF DgCliTypeOK
  <2>4. at' \in {"fgets", "loop"} /\ alarmOn' \in {"on", "off"}
    BY <1>0 DEF DgCliTypeOK
  <2> QED BY <1>0, <2>1, <2>2, <2>3, <2>4 DEF DgCliTypeOK
<1>2. AlarmHeld'
  <2>1. CASE Many /\ "pipe" \notin ready
    BY <1>0, <2>1, VerFacts DEF AlarmHeld, AlarmCount, DgCliTypeOK
  <2>2. CASE "pipe" \in ready
    <3>1. pipefd = 1 /\ pipefd' = 0 /\ alarmOn = "off" /\ sigs = {} /\ sigs' = {} /\ alarmOn' = "off" /\ at' = "fgets"
      BY <1>0, <1>p, <2>2 DEF AlarmHeld, AlarmCount, DgCliTypeOK
    <3>2. AlarmCount' = 0
      BY <3>1 DEF AlarmCount
    <3> QED BY <1>0, <3>1, <3>2 DEF AlarmHeld
  <2>3. CASE ~Many /\ "pipe" \notin ready
    <3>1. ver.mask = "open" /\ ver.handler # "pipe"
      BY <2>3, VerFacts DEF Many
    <3>2. pipefd = 0 /\ mask = {} /\ sigs = {} /\ pipefd' = 0 /\ sigs' = {} /\ at' = "fgets"
      BY <1>0, <2>3, <3>1 DEF AlarmHeld, Deliverable
    <3>3. alarmOn' = "off"
      BY <1>0, <2>3 DEF AlarmHeld, AlarmCount, DgCliTypeOK
    <3>4. AlarmCount' = 0
      BY <3>2, <3>3 DEF AlarmCount
    <3> QED BY <1>0, <3>1, <3>2, <3>4 DEF AlarmHeld
  <2> QED BY <2>1, <2>2, <2>3
<1>3. WaitOK'
  BY <1>0, <1>n DEF WaitOK
<1>4. \A n : Covered(n) => Covered(n)'
  BY <1>0 DEF Covered
<1>5. ASSUME Many PROVE OwnReply' /\ (~Many => OneReply)'
  BY <1>0, <1>5 DEF OwnReply, Many
<1>6. ASSUME ~Many PROVE OwnReply' /\ (~Many => OneReply)'
  <2>1. at' = "fgets" /\ OneReply
    BY <1>0, <1>6
  <2>2. ~Shown => Covered(line)'
    BY <1>0, <1>6, <1>n DEF Covered
  <2>3. Shown => got # NoReply /\ Due(got.to)
    BY <2>1 DEF OneReply, Shown
  <2>4. Shown /\ got.to # line => Covered(got.to) /\ got.to < line /\ got.to \in Int
    BY <1>n, <1>g, <2>3 DEF Due
  <2>5. OwnReply'
    <3>1. \A p \in printed : p.to # p.line => p.to < p.line /\ Covered(p.to)
      BY <1>6 DEF OwnReply
    <3>2. ASSUME NEW p \in printed', p.to # p.line PROVE p.to < p.line /\ Covered(p.to)'
      <4>1. CASE p \in printed
        BY <1>4, <3>1, <3>2, <4>1
      <4>2. CASE p \notin printed
        <5>1. Shown /\ p = [line |-> line, to |-> got.to]
          BY <1>0, <4>2
        <5>2. p.line = line /\ p.to = got.to
          BY <5>1
        <5> QED BY <1>4, <2>4, <3>2, <5>1, <5>2
      <4> QED BY <4>1, <4>2
    <3> QED BY <3>2 DEF OwnReply
  <2>6. Shown /\ got.to # line => Covered(line)'
    <3>1. ASSUME Shown, got.to # line PROVE Covered(line)'
      <4>1. PICK l \in late : l <= got.to
        BY <2>4, <3>1 DEF Covered
      <4>2. l \in Int /\ got.to \in Int /\ got.to < line
        BY <2>4, <3>1, <1>n DEF DgCliTypeOK
      <4>3. l <= line
        BY <1>n, <4>1, <4>2
      <4>4. l \in late' /\ line' = line
        BY <1>0
      <4> QED BY <4>3, <4>4 DEF Covered
    <3> QED BY <3>1
  <2>7. OneReply'
    <3>0. sockq' = sockq /\ flying' = flying /\ line' = line /\ got' = NoReply
      BY <1>0
    <3>1. CASE Covered(line)'
      <4>1. \A n : Due(n) => Due(n)'
        BY <1>4, <3>0, <3>1 DEF Due
      <4> QED BY <2>1, <3>0, <4>1, Zenon DEF OneReply
    <3>2. CASE ~Covered(line)'
      <4>1. got # NoReply /\ got.to = line
        BY <2>2, <2>3, <2>6, <3>2
      <4>2. (\A r \in flying : r.to # line) /\ \A i \in DOMAIN sockq : sockq[i].to # line
        BY <2>1, <4>1 DEF OneReply
      <4>3. \A n : Due(n) /\ n # line => Due(n)'
        BY <1>4, <3>0 DEF Due
      <4> QED BY <2>1, <3>0, <4>2, <4>3 DEF OneReply
    <3> QED BY <3>1, <3>2
  <2> QED BY <2>5, <2>7
<1> QED BY <1>1, <1>2, <1>3, <1>5, <1>6

\* A reply that arrives is not under way any more.
LEMMA ReplyArrivesStep == ASSUME DgCliInv, NEW r \in flying, ReplyArrives(r) PROVE DgCliInv'
<1> USE DEF DgCliInv, sigState
<1>0. /\ UNCHANGED <<ver, at, line, got, ready, alarmOn, sigs, mask, jmpbuf, pipefd, late, printed>>
      /\ flying' = flying \ {r} /\ r \in Reply /\ sockq \in Seq(Reply)
      /\ (sockq' = sockq \/ sockq' = Append(sockq, r))
  BY DEF ReplyArrives, DgCliTypeOK
<1>a. Append(sockq, r) # <<>> /\ Append(sockq, r) \in Seq(Reply)
      /\ Len(Append(sockq, r)) = Len(sockq) + 1 /\ Len(sockq) \in Nat
  BY <1>0, AppendProperties
<1>1. DgCliTypeOK'
  BY <1>0, <1>a DEF DgCliTypeOK
<1>2. AlarmHeld'
  BY <1>0 DEF AlarmHeld, AlarmCount
<1>3. WaitOK'
  BY <1>0, <1>a DEF WaitOK
<1>5. \A n : Covered(n)' <=> Covered(n)
  BY <1>0 DEF Covered
<1>6. \A n : Due(n)' <=> Due(n)
  BY <1>0, <1>5 DEF Due
<1>7. OwnReply'
  BY <1>0, <1>5 DEF OwnReply, Many
<1>8. ASSUME ~Many PROVE OneReply'
  <2>0. OneReply /\ line' = line /\ got' = got
    BY <1>0, <1>8
  <2>1. CASE sockq' = sockq
    BY <1>0, <1>6, <2>0, <2>1, ZenonT(30) DEF OneReply
  <2>2. CASE sockq' = Append(sockq, r)
    <3>1. \A i \in DOMAIN sockq' : (i \in DOMAIN sockq /\ sockq'[i] = sockq[i]) \/ (i = Len(sockq) + 1 /\ sockq'[i] = r)
      <4>1. DOMAIN sockq' = 1 .. Len(sockq) + 1 /\ DOMAIN sockq = 1 .. Len(sockq)
        BY <1>0, <1>a, <2>2
      <4>2. \A i \in 1 .. Len(sockq) : sockq'[i] = sockq[i]
        BY <1>0, <2>2
      <4>3. sockq'[Len(sockq) + 1] = r
        BY <1>0, <2>2
      <4>4. \A i \in 1 .. Len(sockq) + 1 : i \in 1 .. Len(sockq) \/ i = Len(sockq) + 1
        BY <1>a
      <4> QED BY <4>1, <4>2, <4>3, <4>4
    <3>2. (\A q \in flying : Due(q.to))' /\ (\A i \in DOMAIN sockq : Due(sockq[i].to))' /\ (got # NoReply => Due(got.to))'
      BY <1>0, <2>0, <3>1 DEF OneReply, Due, Covered
    <3>3. \A p, q \in flying' : p.to = line' /\ q.to = line' => p = q
      BY <1>0, <2>0, Zenon DEF OneReply
    <3>4. \A q \in flying' : q \in flying /\ q # r
      BY <1>0
    <3>5. \A q \in flying', i \in DOMAIN sockq' : q.to = line' => sockq'[i].to # line'
      BY <2>0, <3>1, <3>4, ZenonT(30) DEF OneReply
    <3>6. \A i, j \in DOMAIN sockq' : sockq'[i].to = line' /\ sockq'[j].to = line' => i = j
      BY <2>0, <3>1 DEF OneReply
    <3>7. got' # NoReply /\ got'.to = line' =>
            (\A q \in flying' : q.to # line') /\ \A i \in DOMAIN sockq' : sockq'[i].to # line'
      BY <2>0, <3>1, <3>4 DEF OneReply
    <3> QED BY <3>2, <3>3, <3>5, <3>6, <3>7, Zenon DEF OneReply
  <2> QED BY <1>0, <2>1, <2>2
<1> QED BY <1>0, <1>1, <1>2, <1>3, <1>7, <1>8 DEF Many

\* The invariant depends on the variables of the client only.
LEMMA DgCliStutters == ASSUME DgCliInv, UNCHANGED dgcliVars PROVE DgCliInv'
<1>0. UNCHANGED <<ver, at, line, got, ready, alarmOn, sigs, mask, jmpbuf, pipefd, sockq, flying, late, printed>>
  BY DEF dgcliVars, sigState
<1>1. \A n : Covered(n)' <=> Covered(n)
  BY <1>0 DEF Covered
<1>2. \A n : Due(n)' <=> Due(n)
  BY <1>0, <1>1 DEF Due
<1>3. DgCliTypeOK' /\ AlarmHeld' /\ WaitOK'
  BY <1>0 DEF DgCliInv, DgCliTypeOK, AlarmHeld, AlarmCount, WaitOK
<1>4. (~Many => OneReply)'
  BY <1>0, <1>2, Zenon DEF DgCliInv, OneReply, Many
<1>5. OwnReply'
  BY <1>0, <1>1 DEF DgCliInv, OwnReply, Many
<1> QED BY <1>3, <1>4, <1>5 DEF DgCliInv

\* The inductive invariant of the UDP clients, for every number of lines: one alarm at most
\* is in the clock, pending or in the pipe, what select found is still there when it is
\* read, and an answer under way is awaited or belongs to a line that has been covered.
THEOREM DgCliInvariant == DgCliSpec => []DgCliInv
<1>1. DgCliInit => DgCliInv
  BY DgCliInitial
<1>2. DgCliInv /\ [DgCliNext]_dgcliVars => DgCliInv'
  <2> SUFFICES ASSUME DgCliInv, [DgCliNext]_dgcliVars PROVE DgCliInv'
    OBVIOUS
  <2>1. CASE dg_cli
    BY <2>1, SendtoStep, StartAlarmStep, LoopStepDg, EnterStep, ReturnsStep, ReadStep, ShowStep, CallTimesOutStep
       DEF dg_cli
  <2>2. CASE Expire
    BY <2>2, ExpireStep
  <2>3. CASE recvfrom_alarm
    BY <2>3, InterruptStep, JumpStep, WritePipeStep DEF recvfrom_alarm
  <2>4. CASE \E r \in flying : ReplyArrives(r)
    BY <2>4, ReplyArrivesStep
  <2>5. CASE UNCHANGED dgcliVars
    BY <2>5, DgCliStutters
  <2> QED BY <2>1, <2>2, <2>3, <2>4, <2>5 DEF DgCliNext
<1> QED BY <1>1, <1>2, PTL DEF DgCliSpec

\* In dgclibcast1 to 6 and dgclitimeo, 1, 2, 3, for every number of lines: the alarm is
\* lost only where the handler just returns and recvfrom is called with SIGALRM open, no
\* alarm and no byte in the pipe is left over for the next line, and a reply that is not
\* the one to the line comes after a line that was given up or whose reply was ignored.
THEOREM DgCliIsSound == DgCliSpec => []DgCliSound
<1>1. DgCliInv => DgCliSound
  <2> SUFFICES ASSUME DgCliInv PROVE AlarmNotLost /\ AlarmIsOwn
    BY DEF DgCliSound
  <2>1. AlarmNotLost
    BY DEF AlarmNotLost, Hung, DgCliInv, AlarmHeld, AlarmCount
  <2>2. AlarmIsOwn
    BY DEF AlarmIsOwn, DgCliInv, AlarmHeld, AlarmCount, DgCliTypeOK
  <2> QED BY <2>1, <2>2
<1> QED BY <1>1, DgCliInvariant, PTL

(***************************************************************************)
(* Proofs about the retransmitting UDP client, for every limit on the      *)
(* number of retransmissions, every length of the sequence number and      *)
(* every number of questions.                                              *)
(***************************************************************************)

\* The client starts in a state that satisfies the invariant.
LEMMA RttInitInv == RttInit => RttInv
BY RttAssumption DEF RttInit, RttInv, RttTypeOK, Message, NoAnswer, AnswersMatch, GivesUpAfterAll

\* A new question: all messages on the network belong to earlier ones.
LEMMA NewPackStep == RttInv /\ NewPack => RttInv'
<1> SUFFICES ASSUME RttInv, NewPack PROVE RttInv'
  OBVIOUS
<1> USE RttAssumption
<1>1. RttTypeOK'
  BY DEF RttInv, NewPack, RttTypeOK
<1>2. MaxQuestions < SeqMod => seq' = question' /\ \A m \in asked' : m.question < question'
  BY DEF RttInv, NewPack, RttTypeOK, Message
<1> QED
  BY <1>1, <1>2 DEF RttInv, NewPack, RttTypeOK, Message, AnswersMatch, GivesUpAfterAll

\* A transmission carries a timestamp of its own.
LEMMA SendmsgStep == RttInv /\ Sendmsg => RttInv'
<1> SUFFICES ASSUME RttInv, Sendmsg PROVE RttInv'
  OBVIOUS
<1> USE RttAssumption
<1>1. RttTypeOK'
  BY DEF RttInv, Sendmsg, RttTypeOK, timerVars
<1>2. asked' \subseteq Message /\ answers' \subseteq asked' /\ recvhdr' \in Message
  BY DEF RttInv, Sendmsg, RttTypeOK, timerVars, Message
<1>3. MaxQuestions < SeqMod =>
        /\ seq' = question'
        /\ \A m \in asked' :
               /\ m.seq = m.question /\ m.question <= question' /\ m.ts <= sends'
               /\ m.question = question' => m.ts > first'
  BY DEF RttInv, Sendmsg, RttTypeOK, timerVars, Message
<1>4. /\ step = "sendagain" /\ step' = "alarm" /\ sends' = sends + 1
      /\ UNCHANGED <<question, first, nrexmt, clock, answered>>
  BY DEF Sendmsg, timerVars
<1>5. sends - first = nrexmt /\ nrexmt <= RTT_MAXNREXMT /\ clock # "on" /\ AnswersMatch
  BY <1>4 DEF RttInv
<1>6. sends' - first' = nrexmt' + 1
  BY <1>4, <1>5 DEF RttInv, RttTypeOK
<1>7. AnswersMatch' /\ GivesUpAfterAll'
  BY <1>4, <1>5 DEF AnswersMatch, GivesUpAfterAll
<1> QED
  BY <1>1, <1>2, <1>3, <1>4, <1>5, <1>6, <1>7 DEF RttInv

\* The steps between a transmission and the return of an answer.
LEMMA ReceiveStep ==
    RttInv /\ (StartTimer \/ Setjmp \/ StopTimer \/ \E a \in answers : Recvmsg(a)) => RttInv'
<1> SUFFICES ASSUME RttInv, StartTimer \/ Setjmp \/ StopTimer \/ \E a \in answers : Recvmsg(a)
             PROVE RttInv'
  OBVIOUS
<1> USE RttAssumption
<1>1. CASE StartTimer
  BY <1>1 DEF RttInv, StartTimer, RttTypeOK, AnswersMatch, GivesUpAfterAll
<1>2. CASE Setjmp
  BY <1>2 DEF RttInv, Setjmp, RttTypeOK, AnswersMatch, GivesUpAfterAll
<1>3. CASE StopTimer
  BY <1>3 DEF RttInv, StopTimer, RttTypeOK, AnswersMatch, GivesUpAfterAll
<1>4. CASE \E a \in answers : Recvmsg(a)
  BY <1>4 DEF RttInv, Recvmsg, timerVars, RttTypeOK, AnswersMatch, GivesUpAfterAll
<1> QED
  BY <1>1, <1>2, <1>3, <1>4

\* The answer that is returned has the question's sequence number, and so is its own.
LEMMA AnswerStep == RttInv /\ rtt_stop => RttInv'
<1> SUFFICES ASSUME RttInv, rtt_stop PROVE RttInv'
  OBVIOUS
<1> USE RttAssumption
<1>1. MaxQuestions < SeqMod => recvhdr.question = question
  BY DEF RttInv, rtt_stop
<1>2. AnswersMatch'
  BY <1>1 DEF RttInv, rtt_stop, AnswersMatch
<1> QED
  BY <1>2 DEF RttInv, rtt_stop, RttTypeOK, GivesUpAfterAll

\* A timeout, and the echo of a question by the server.
LEMMA TimeoutStep == RttInv /\ (sig_alrm \/ dg_echo_rtt) => RttInv'
<1> SUFFICES ASSUME RttInv, sig_alrm \/ dg_echo_rtt PROVE RttInv'
  OBVIOUS
<1> USE RttAssumption
<1>1. CASE sig_alrm
  BY <1>1 DEF RttInv, sig_alrm, RttTypeOK, AnswersMatch, GivesUpAfterAll
<1>2. CASE dg_echo_rtt
  BY <1>2 DEF RttInv, dg_echo_rtt, timerVars, RttTypeOK, AnswersMatch, GivesUpAfterAll
<1> QED
  BY <1>1, <1>2

\* The invariant RttInv holds in every state of dg_cli, dg_send_recv and the server.
THEOREM RttInvariant == RttSpec => []RttInv
<1>1. RttInv /\ [RttNext]_rttVars => RttInv'
  <2> SUFFICES ASSUME RttInv, [RttNext]_rttVars PROVE RttInv'
    OBVIOUS
  <2>1. CASE RttNext
    BY <2>1, NewPackStep, SendmsgStep, ReceiveStep, AnswerStep, TimeoutStep DEF RttNext, dg_send_recv
  <2>2. CASE UNCHANGED rttVars
    BY <2>2 DEF rttVars, timerVars, RttInv, RttTypeOK, AnswersMatch, GivesUpAfterAll
  <2> QED
    BY <2>1, <2>2
<1> QED
  BY <1>1, RttInitInv, PTL DEF RttSpec

\* What dg_send_recv returns answers the question it was called with, as long as the
\* sequence numbers have not wrapped round.
THEOREM RttAnswersMatch == RttSpec => []AnswersMatch
<1>1. RttInv => AnswersMatch
  BY DEF RttInv
<1> QED
  BY <1>1, RttInvariant, PTL

\* rtt_stop measures from a transmission of the question just answered.
THEOREM RttSampleIsOwn == RttSpec => []SampleIsOwn
<1>1. RttInv => SampleIsOwn
  BY DEF RttInv, RttTypeOK, Message, SampleIsOwn
<1> QED
  BY <1>1, RttInvariant, PTL

\* dg_cli gives up only after RTT_MAXNREXMT retransmissions.
THEOREM RttGivesUpAfterAll == RttSpec => []GivesUpAfterAll
<1>1. RttInv => GivesUpAfterAll
  BY DEF RttInv
<1> QED
  BY <1>1, RttInvariant, PTL

\* The variables of the client keep their types.
THEOREM RttTypes == RttSpec => []RttTypeOK
<1>1. RttInv => RttTypeOK
  BY DEF RttInv
<1> QED
  BY <1>1, RttInvariant, PTL

(***************************************************************************)
(* Proofs about SigioEcho: SigioInv is inductive, for every size of the    *)
(* ring and every number of datagrams.                                     *)
(***************************************************************************)

LEMMA SigioInitInv == SigioInit => SigioInv
  <1> SUFFICES ASSUME SigioInit PROVE SigioInv OBVIOUS
  <1>1. echoed \in Seq(Nat) /\ Len(echoed) = 0 /\ EchoedInOrder
    BY DEF SigioInit, EchoedInOrder
  <1>2. SigioTypeOK
    BY <1>1, QSizeAssumption DEF SigioInit, SigioTypeOK, Slot
  <1>3. Live = 0 /\ Queued = 0
    <2>1. main = "setup" /\ nqueue = 0 /\ taken = 0
      BY DEF SigioInit
    <2> QED BY <2>1, <1>1 DEF Live, Queued
  <1> QED
    BY <1>1, <1>2, <1>3, QSizeAssumption DEF SigioInit, SigioInv, SlotHeldWhileSent, Ahead, Slot

\* The kernel's steps do not touch the ring.
LEMMA KernelStep == ASSUME SigioInv, Arrive \/ Deliver PROVE SigioInv'
  <1>1. CASE Arrive
    <2>1. UNCHANGED <<ring, flags, main, handler, nread, taken, echoed>>
      BY <1>1 DEF Arrive
    <2>2. arrived' \in Nat /\ taken \in 0 .. arrived' /\ signalled' \in 0 .. arrived'
      BY <1>1 DEF Arrive, SigioInv, SigioTypeOK
    <2>3. pending' \subseteq {"SIGIO"}
      BY <1>1, Zenon DEF Arrive, SigioInv, SigioTypeOK
    <2>4. SigioTypeOK'
      BY <2>1, <2>2, <2>3 DEF ring, SigioInv, SigioTypeOK
    <2> QED
      BY <2>1, <2>4 DEF ring, SigioInv, EchoedInOrder, SlotHeldWhileSent, Queued, Live, Ahead
  <1>2. CASE Deliver
    BY <1>2, QSizeAssumption, Zenon
       DEF Deliver, ring, SigioInv, SigioTypeOK, EchoedInOrder, SlotHeldWhileSent, Queued, Live, Ahead, Slot
  <1> QED BY <1>1, <1>2

\* sig_io reads into the slot at iput, which is the first one that is not Live.
LEMMA HandlerStep == ASSUME SigioInv, sig_io PROVE SigioInv'
  <1>1. CASE Overflow
    BY <1>1, QSizeAssumption, Zenon
       DEF Overflow, ring, sock, SigioInv, SigioTypeOK, EchoedInOrder, SlotHeldWhileSent, Queued, Live,
           Ahead, Slot
  <1>2. CASE ReadOne
    <2>1. SigioTypeOK'
      <3>1. dg' \in [Slot -> Nat]
        BY <1>2 DEF ReadOne, SigioInv, SigioTypeOK
      <3>2. iput' \in Slot
        BY <1>2, QSizeAssumption DEF ReadOne, Wrap, SigioInv, SigioTypeOK, Slot
      <3>3. nqueue' \in 0 .. QSIZE /\ nread' \in Nat /\ taken' \in 0 .. arrived
        BY <1>2, QSizeAssumption DEF ReadOne, SigioInv, SigioTypeOK
      <3>4. UNCHANGED <<iget, sock, main, handler, echoed>>
        BY <1>2 DEF ReadOne
      <3> QED
        BY <3>1, <3>2, <3>3, <3>4 DEF sock, SigioInv, SigioTypeOK
    <2>2. EchoedInOrder' /\ SlotHeldWhileSent'
      <3>1. UNCHANGED <<main, echoed>> /\ taken' = taken + 1 /\ nqueue' = nqueue + 1
        BY <1>2 DEF ReadOne
      <3>2. taken \in Nat /\ nqueue \in Nat /\ Len(echoed) \in Nat
        BY QSizeAssumption DEF SigioInv, SigioTypeOK
      <3>3. SlotHeldWhileSent'
        BY <3>1, <3>2 DEF SigioInv, SlotHeldWhileSent, Queued
      <3> QED BY <3>1, <3>3 DEF SigioInv, EchoedInOrder
    <2>3. Live' = Live + 1 /\ Live \in 0 .. QSIZE - 1
      BY <1>2, QSizeAssumption
         DEF ReadOne, sock, Live, SigioInv, SigioTypeOK, Slot
    <2>4. iput' = IF iget' + Live' >= QSIZE THEN iget' + Live' - QSIZE ELSE iget' + Live'
      BY <1>2, <2>3, QSizeAssumption DEF ReadOne, Wrap, SigioInv, SigioTypeOK, Slot
    <2>5. ASSUME NEW i \in Slot, Ahead(i)' < Live'
          PROVE  dg'[i] = taken' - Live' + Ahead(i)' + 1
      <3>1. Ahead(i)' = Ahead(i) /\ Ahead(iput) = Live
        BY <1>2, <2>3, QSizeAssumption DEF ReadOne, Ahead, SigioInv, SigioTypeOK, Slot
      <3>2. CASE i = iput
        BY <1>2, <2>3, <3>1, <3>2, QSizeAssumption DEF ReadOne, SigioInv, SigioTypeOK, Slot
      <3>3. CASE i # iput
        <4>1. Ahead(i) # Live
          BY <3>3, <2>3, QSizeAssumption DEF Ahead, SigioInv, SigioTypeOK, Slot
        <4>2. Ahead(i) < Live
          BY <4>1, <3>1, <2>3, <2>5, QSizeAssumption DEF Ahead, SigioInv, SigioTypeOK, Slot
        <4> QED
          BY <4>2, <3>3, <3>1, <2>3, <1>2 DEF ReadOne, Ahead, SigioInv, SigioTypeOK, Slot
      <3> QED BY <3>2, <3>3
    <2>6. main' \in {"send", "advance", "block", "release"} => nqueue' >= 1
      BY <1>2 DEF ReadOne, SigioInv, SigioTypeOK
    <2> QED BY <2>1, <2>2, <2>4, <2>5, <2>6 DEF SigioInv
  <1>3. CASE WouldBlock
    BY <1>3, QSizeAssumption, Zenon
       DEF WouldBlock, ring, sock, SigioInv, SigioTypeOK, EchoedInOrder, SlotHeldWhileSent, Queued, Live,
           Ahead, Slot
  <1> QED BY <1>1, <1>2, <1>3 DEF sig_io

LEMMA LoopStep == ASSUME SigioInv, dg_echo PROVE SigioInv'
  <1>1. CASE Setup
    BY <1>1, QSizeAssumption, Zenon
       DEF Setup, Main, ring, SigioInv, SigioTypeOK, EchoedInOrder, SlotHeldWhileSent, Queued, Live, Ahead, Slot
  <1>2. CASE Wait
    <2>1. /\ main = "wait" /\ main' \in {"suspend", "send"} /\ (main' = "send" => nqueue # 0)
          /\ UNCHANGED <<ring, sock, handler, nread, taken, echoed>>
      BY <1>2 DEF Wait, Main
    <2> QED
      BY <2>1
         DEF ring, sock, SigioInv, SigioTypeOK, EchoedInOrder, SlotHeldWhileSent, Queued, Live, Ahead
  <1>3. CASE Send
    <2>1. dg[iget] = Len(echoed) + 1 /\ dg[iget] \in Nat
      BY <1>3, QSizeAssumption
         DEF Send, Main, SigioInv, SigioTypeOK, SlotHeldWhileSent, Queued, Live, Ahead, Slot
    <2>2. echoed' \in Seq(Nat) /\ Len(echoed') = Len(echoed) + 1 /\ EchoedInOrder'
      BY <2>1, <1>3 DEF Send, SigioInv, SigioTypeOK, EchoedInOrder
    <2>3. Live' = Live
      BY <1>3 DEF Send, Main, ring, Live
    <2>4. main = "send" /\ main' = "advance" /\ UNCHANGED <<ring, sock, handler, nread, taken>>
      BY <1>3 DEF Send, Main
    <2>5. SigioTypeOK'
      BY <2>4, <2>2 DEF ring, sock, SigioInv, SigioTypeOK
    <2>6. SlotHeldWhileSent'
      BY <2>4, <2>2 DEF ring, SigioInv, SigioTypeOK, SlotHeldWhileSent, Queued
    <2> QED
      BY <2>2, <2>3, <2>4, <2>5, <2>6 DEF ring, SigioInv, Ahead
  <1>4. CASE Advance
    <2>1. SigioTypeOK' /\ EchoedInOrder' /\ SlotHeldWhileSent'
      BY <1>4, QSizeAssumption
         DEF Advance, Main, sock, Wrap, SigioInv, SigioTypeOK, EchoedInOrder, SlotHeldWhileSent, Queued,
             Slot
    <2>2. Live' = Live - 1 /\ Live \in 1 .. QSIZE
      BY <1>4, QSizeAssumption DEF Advance, Main, Live, SigioInv, SigioTypeOK
    <2>3. iput' = IF iget' + Live' >= QSIZE THEN iget' + Live' - QSIZE ELSE iget' + Live'
      BY <1>4, <2>2, QSizeAssumption DEF Advance, Wrap, SigioInv, SigioTypeOK, Slot
    <2>4. ASSUME NEW i \in Slot, Ahead(i)' < Live'
          PROVE  dg'[i] = taken' - Live' + Ahead(i)' + 1
      <3>1. Ahead(i) = Ahead(i)' + 1
        BY <1>4, <2>2, <2>4, QSizeAssumption DEF Advance, Wrap, Ahead, SigioInv, SigioTypeOK, Slot
      <3>2. Ahead(i)' \in Int
        BY <1>4, QSizeAssumption DEF Advance, Ahead, Wrap, SigioInv, SigioTypeOK, Slot
      <3>3. dg[i] = taken - Live + Ahead(i) + 1
        <4>1. Ahead(i) < Live
          BY <2>2, <2>4, <3>1, <3>2
        <4> QED BY <4>1 DEF SigioInv
      <3> QED
        BY <1>4, <2>2, <3>1, <3>2, <3>3 DEF Advance, Main, SigioInv, SigioTypeOK
    <2> QED BY <1>4, <2>1, <2>3, <2>4 DEF Advance, Main, SigioInv
  <1>5. CASE Block
    BY <1>5, QSizeAssumption, ZenonT(30)
       DEF Block, Main, ring, sock, SigioInv, SigioTypeOK, EchoedInOrder, SlotHeldWhileSent, Queued, Live,
           Ahead, Slot
  <1>6. CASE Release
    <2>1. Live' = Live /\ Live \in Int
      BY <1>6, QSizeAssumption DEF Release, Main, Live, SigioInv, SigioTypeOK
    <2>2. SigioTypeOK' /\ EchoedInOrder' /\ SlotHeldWhileSent'
      BY <1>6, QSizeAssumption
         DEF Release, Main, sock, SigioInv, SigioTypeOK, EchoedInOrder, SlotHeldWhileSent, Queued
    <2> QED
      BY <1>6, <2>1, <2>2 DEF Release, Main, sock, SigioInv, Ahead
  <1> QED BY <1>1, <1>2, <1>3, <1>4, <1>5, <1>6 DEF dg_echo

\* Whatever the size of the ring, and wherever SIGIO interrupts dg_echo, the ring stays
\* consistent: sig_io and the loop agree on which slots hold datagrams.
THEOREM SigioInvariant == SigioSpec => []SigioInv
  <1>1. SigioInv /\ [SigioNext]_sigioVars => SigioInv'
    <2> SUFFICES ASSUME SigioInv, [SigioNext]_sigioVars PROVE SigioInv' OBVIOUS
    <2>1. CASE UNCHANGED sigioVars
      BY <2>1, Zenon
         DEF sigioVars, ring, sock, SigioInv, SigioTypeOK, EchoedInOrder, SlotHeldWhileSent, Queued, Live,
             Ahead
    <2> QED BY <2>1, KernelStep, HandlerStep, LoopStep DEF SigioNext
  <1> QED BY <1>1, SigioInitInv, PTL DEF SigioSpec

\* The echo server of sigio sends every datagram at most once and in the order of arrival.
THEOREM SigioEchoesInOrder == SigioSpec => []EchoedInOrder
  BY SigioInvariant, PTL DEF SigioInv

\* sig_io never reads into the slot that dg_echo is sending.
THEOREM SigioSlotHeld == SigioSpec => []SlotHeldWhileSent
  BY SigioInvariant, PTL DEF SigioInv

\* The variables of dg_echo keep their types; nqueue never passes QSIZE.
THEOREM SigioTypes == SigioSpec => []SigioTypeOK
  BY SigioInvariant, PTL DEF SigioInv
=============================================================================
