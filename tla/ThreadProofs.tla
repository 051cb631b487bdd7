--------------------------- MODULE ThreadProofs -----------------------------
(***************************************************************************)
(* Proofs about threads and what they share: the examples of               *)
(* src/unpv13e/threads, the programs with mutexes, and the clients that    *)
(* fetch several files with select or with threads.                        *)
(***************************************************************************)
EXTENDS ThreadExamples, WebClient, TLAPS

(***************************************************************************)
(* The thread examples that lock keep every increment and every item, for  *)
(* every NLOOP and every BUFFSIZE.                                         *)
(***************************************************************************)

\* The programs, told apart by what they use.
LEMMA TxPrograms ==
    ASSUME TxTypeOK
    PROVE  /\ tx.locks \in {"yes", "no"} /\ tx.buffer \in {"yes", "no"}
           /\ tx = example02 => tx.locks = "yes" /\ tx.buffer = "no"
           /\ tx = example03 => tx.locks = "yes" /\ tx.buffer = "yes"
           /\ tx.buffer = "yes" => tx = example03 /\ tx # example02
           /\ tx.locks = "no" => tx # example02 /\ tx # example03
BY DEF TxTypeOK, example01, example02, example03

\* An item appended at the end keeps consume's order.
LEMMA TxAppended ==
    ASSUME NEW s \in Seq(Nat), NEW v \in Nat, v = Len(s),
           \A k \in DOMAIN s : s[k] = k - 1
    PROVE  /\ Append(s, v) \in Seq(Nat) /\ Len(Append(s, v)) = Len(s) + 1
           /\ \A k \in DOMAIN Append(s, v) : Append(s, v)[k] = k - 1
OBVIOUS

LEMMA TxInitInv == TxInit => TxInv
<1> SUFFICES ASSUME TxInit PROVE TxInv
    OBVIOUS
<1>1. TxTypeOK
    BY TxAssumption DEF TxInit, TxTypeOK, TxSlot, TxThread
<1>2. TxExcluded
    BY DEF TxInit, TxExcluded, TxCritical, TxThread, TxMustWait, txRing
<1>3. TxMonotonic /\ TxInOrder /\ TxCounted
    BY DEF TxInit, TxMonotonic, TxInOrder, TxCounted, TxThread
<1>4. TxFilled
    BY TxAssumption DEF TxInit, TxFilled, TxThread, TxSlot, TxAhead
<1> QED
    BY <1>1, <1>2, <1>3, <1>4 DEF TxInv

\* The head of the loop leaves counter and ring alone.
LEMMA TxTopKeeps ==
    ASSUME TxInv, NEW t \in TxThread, TxTop(t)
    PROVE  TxInv'
<1> USE TxPrograms DEF TxInv, TxTop, TxGoes
<1>1. TxTypeOK'
    BY Zenon DEF TxTypeOK, txRing
<1>2. TxExcluded'
    BY DEF TxTypeOK, TxExcluded, TxCritical, TxThread, TxMustWait, txRing
<1>3. TxMonotonic'
    BY DEF TxTypeOK, TxMonotonic, TxCounted, TxExcluded, TxCritical, TxThread
<1>4. TxInOrder'
    BY DEF TxTypeOK, TxInOrder, txRing
<1>5. (tx = example02 => TxCounted)'
    BY DEF TxTypeOK, TxCounted, TxExcluded, TxCritical, TxThread
<1>6. (tx = example03 => TxFilled)'
    BY DEF TxTypeOK, TxFilled, TxAhead, TxExcluded, txRing
<1> QED
    BY <1>1, <1>2, <1>3, <1>4, <1>5, <1>6

\* The mutex is taken only when nobody holds it.
LEMMA TxLockKeeps ==
    ASSUME TxInv, NEW t \in TxThread, TxLock(t)
    PROVE  TxInv'
<1> USE TxPrograms DEF TxInv, TxLock, TxGoes
<1>1. TxTypeOK'
    BY DEF TxTypeOK, txRing
<1>2. TxExcluded'
    BY DEF TxTypeOK, TxExcluded, TxCritical, TxThread, TxMustWait, txRing
<1>3. TxMonotonic'
    BY DEF TxTypeOK, TxMonotonic, TxCounted, TxExcluded, TxCritical, TxThread
<1>4. TxInOrder'
    BY DEF TxTypeOK, TxInOrder, txRing
<1>5. (tx = example02 => TxCounted)'
    BY DEF TxTypeOK, TxCounted, TxExcluded, TxCritical, TxThread
<1>6. (tx = example03 => TxFilled)'
    BY DEF TxTypeOK, TxFilled, TxAhead, TxExcluded, txRing
<1> QED
    BY <1>1, <1>2, <1>3, <1>4, <1>5, <1>6

\* What is fetched is the counter.
LEMMA TxFetchKeeps ==
    ASSUME TxInv, NEW t \in TxThread, TxFetch(t)
    PROVE  TxInv'
<1> USE TxPrograms DEF TxInv, TxFetch, TxGoes
<1>1. TxTypeOK'
    BY DEF TxTypeOK, txRing
<1>2. TxExcluded'
    BY DEF TxTypeOK, TxExcluded, TxCritical, TxThread, TxMustWait, txRing
<1>3. TxMonotonic'
    BY DEF TxTypeOK, TxMonotonic, TxCounted, TxExcluded, TxCritical, TxThread
<1>4. TxInOrder'
    BY DEF TxTypeOK, TxInOrder, txRing
<1>5. (tx = example02 => TxCounted)'
    BY DEF TxTypeOK, TxCounted, TxExcluded, TxCritical, TxThread
<1>6. (tx = example03 => TxFilled)'
    BY DEF TxTypeOK, TxFilled, TxAhead, TxExcluded, txRing
<1> QED
    BY <1>1, <1>2, <1>3, <1>4, <1>5, <1>6

\* What is printed is one more than the counter.
LEMMA TxPrintKeeps ==
    ASSUME TxInv, NEW t \in TxThread, TxPrint(t)
    PROVE  TxInv'
<1> USE TxPrograms DEF TxInv, TxPrint, TxGoes
<1>1. TxTypeOK'
    BY DEF TxTypeOK, txRing
<1>2. TxExcluded'
    BY DEF TxTypeOK, TxExcluded, TxCritical, TxThread, TxMustWait, txRing
<1>3. TxMonotonic'
    BY DEF TxTypeOK, TxMonotonic, TxCounted, TxExcluded, TxCritical, TxThread
<1>4. TxInOrder'
    BY DEF TxTypeOK, TxInOrder, txRing
<1>5. (tx = example02 => TxCounted)'
    BY DEF TxTypeOK, TxCounted, TxExcluded, TxCritical, TxThread
<1>6. (tx = example03 => TxFilled)'
    BY DEF TxTypeOK, TxFilled, TxAhead, TxExcluded, txRing
<1> QED
    BY <1>1, <1>2, <1>3, <1>4, <1>5, <1>6

\* The value stored is one more than what was fetched under the same lock.
LEMMA TxStoreKeeps ==
    ASSUME TxInv, NEW t \in TxThread, TxStore(t)
    PROVE  TxInv'
<1> USE TxPrograms DEF TxInv, TxStore, TxGoes
<1>1. TxTypeOK'
    BY DEF TxTypeOK, txRing
<1>2. TxExcluded'
    BY DEF TxTypeOK, TxExcluded, TxCritical, TxThread, TxMustWait, txRing
<1>3. TxMonotonic'
    BY DEF TxTypeOK, TxMonotonic, TxCounted, TxExcluded, TxCritical, TxThread
<1>4. TxInOrder'
    BY DEF TxTypeOK, TxInOrder, txRing
<1>5. (tx = example02 => TxCounted)'
    BY DEF TxTypeOK, TxCounted, TxExcluded, TxCritical, TxThread
<1>6. (tx = example03 => TxFilled)'
    BY DEF TxTypeOK, TxFilled, TxAhead, TxExcluded, txRing
<1> QED
    BY <1>1, <1>2, <1>3, <1>4, <1>5, <1>6, Zenon

\* The holder leaves the critical section with the mutex.
LEMMA TxUnlockKeeps ==
    ASSUME TxInv, NEW t \in TxThread, TxUnlock(t)
    PROVE  TxInv'
<1> USE TxPrograms DEF TxInv, TxUnlock, TxGoes
<1>1. TxTypeOK'
    BY DEF TxTypeOK, txRing
<1>2. TxExcluded'
    BY DEF TxTypeOK, TxExcluded, TxCritical, TxThread, TxMustWait, txRing
<1>3. TxMonotonic'
    BY DEF TxTypeOK, TxMonotonic, TxCounted, TxExcluded, TxCritical, TxThread
<1>4. TxInOrder'
    BY DEF TxTypeOK, TxInOrder, txRing
<1>5. (tx = example02 => TxCounted)'
    BY DEF TxTypeOK, TxCounted, TxExcluded, TxCritical, TxThread
<1>6. (tx = example03 => TxFilled)'
    BY DEF TxTypeOK, TxFilled, TxAhead, TxExcluded, txRing
<1> QED
    BY <1>1, <1>2, <1>3, <1>4, <1>5, <1>6

\* A thread that may not move gives the mutex back.
LEMMA TxTestKeeps ==
    ASSUME TxInv, NEW t \in TxThread, TxTest(t)
    PROVE  TxInv'
<1> USE TxPrograms DEF TxInv, TxTest, TxGoes
<1>1. TxTypeOK'
    BY Zenon DEF TxTypeOK, txRing
<1>2. TxExcluded'
    BY DEF TxTypeOK, TxExcluded, TxCritical, TxThread, TxMustWait, txRing
<1>3. TxMonotonic'
    BY DEF TxTypeOK, TxMonotonic, TxCounted, TxExcluded, TxCritical, TxThread
<1>4. TxInOrder'
    BY DEF TxTypeOK, TxInOrder, txRing
<1>5. (tx = example02 => TxCounted)'
    BY DEF TxTypeOK, TxCounted, TxExcluded, TxCritical, TxThread
<1>6. (tx = example03 => TxFilled)'
    BY DEF TxTypeOK, TxFilled, TxAhead, TxExcluded, txRing
<1> QED
    BY <1>1, <1>2, <1>3, <1>4, <1>5, <1>6

\* A wakeup without a signal changes nothing but the place.
LEMMA TxSpuriousKeeps ==
    ASSUME TxInv, NEW t \in TxThread, TxSpurious(t)
    PROVE  TxInv'
<1> USE TxPrograms DEF TxInv, TxSpurious, TxGoes
<1>1. TxTypeOK'
    BY DEF TxTypeOK, txRing
<1>2. TxExcluded'
    BY DEF TxTypeOK, TxExcluded, TxCritical, TxThread, TxMustWait, txRing
<1>3. TxMonotonic'
    BY DEF TxTypeOK, TxMonotonic, TxCounted, TxExcluded, TxCritical, TxThread
<1>4. TxInOrder'
    BY DEF TxTypeOK, TxInOrder, txRing
<1>5. (tx = example02 => TxCounted)'
    BY DEF TxTypeOK, TxCounted, TxExcluded, TxCritical, TxThread
<1>6. (tx = example03 => TxFilled)'
    BY DEF TxTypeOK, TxFilled, TxAhead, TxExcluded, txRing
<1> QED
    BY <1>1, <1>2, <1>3, <1>4, <1>5, <1>6

\* A thread about to move an item holds the mutex, in example03, and found that it may.
LEMMA TxMover ==
    ASSUME TxInv, NEW t \in TxThread, txAt[t] = "move"
    PROVE  tx = example03 /\ tx.buffer = "yes" /\ tx.locks = "yes" /\ txMutex = t /\ ~TxMustWait(t)
BY TxPrograms DEF TxInv, TxExcluded, TxCritical, TxTypeOK

\* produce fills the slot after the last item; the consumer is woken, not admitted.
LEMMA produceKeeps ==
    ASSUME TxInv, produce
    PROVE  TxInv'
<1>0. tx = example03 /\ tx.buffer = "yes" /\ tx.locks = "yes" /\ txMutex = "A" /\ txNitems < TxSize
    BY TxMover, TxAssumption DEF TxThread, TxMustWait, TxTypeOK, TxInv, produce
<1>t. /\ txNitems \in 0 .. TxSize /\ txNextget \in 0 .. TxSize - 1 /\ txNextput \in 0 .. TxSize - 1
      /\ TxSize \in Nat /\ txI["A"] \in Nat /\ txI["B"] \in Nat
    BY TxAssumption DEF TxTypeOK, TxSlot, TxThread, TxInv
<1>f. txNitems = txI["A"] - txI["B"] /\ Len(txGot) = txI["B"]
    BY <1>0 DEF TxFilled, TxInv
<1>n. /\ txNextget + txNitems >= TxSize => txNextput = txNextget + txNitems - TxSize
      /\ txNextget + txNitems < TxSize => txNextput = txNextget + txNitems
    BY <1>0, <1>t DEF TxFilled, TxInv
<1>b. \A i \in TxSlot : TxAhead(i) < txNitems => txBuf[i] = txI["B"] + TxAhead(i)
    BY <1>0 DEF TxFilled, TxInv
<1>i. txI'["A"] = txI["A"] + 1 /\ txI'["B"] = txI["B"]
    BY DEF TxTypeOK, TxThread, TxInv, produce
<1>p. /\ txNextput' = TxWrap(txNextput) /\ txNextget' = txNextget
      /\ txNitems' = txNitems + 1 /\ txGot' = txGot
    BY DEF produce
<1>1. TxTypeOK'
  <2>1. txNextput' \in TxSlot /\ txNitems' \in 0 .. TxSize
      BY <1>0, TxAssumption DEF TxTypeOK, TxSlot, TxWrap, TxInv, produce
  <2>2. txBuf' \in [TxSlot -> Nat] /\ txI' \in [TxThread -> Nat]
      BY DEF TxTypeOK, TxThread, TxInv, produce
  <2> QED
      BY <2>1, <2>2 DEF TxTypeOK, TxThread, TxInv, produce, TxSignals
<1>2. TxExcluded'
    BY <1>0 DEF TxTypeOK, TxExcluded, TxCritical, TxThread, TxMustWait, TxInv, produce, TxSignals
<1>3. (TxMonotonic /\ TxInOrder)' /\ tx' # example02
    BY <1>0, TxPrograms DEF TxTypeOK, TxMonotonic, TxInOrder, TxInv, produce
<1>4. TxFilled'
  <2>1. txNitems' = txI'["A"] - txI'["B"] /\ Len(txGot') = txI'["B"]
      BY <1>p, <1>t, <1>f, <1>i
  <2>2. txNextput' = IF txNextget' + txNitems' >= TxSize THEN txNextget' + txNitems' - TxSize
                                                         ELSE txNextget' + txNitems'
      BY <1>p, <1>0, <1>t, <1>n DEF TxWrap
  <2>3. ASSUME NEW i \in TxSlot, TxAhead(i)' < txNitems'
        PROVE  txBuf'[i] = txI'["B"] + TxAhead(i)'
    <3>1. TxAhead(i)' = TxAhead(i) /\ txI'["B"] = txI["B"]
        BY <1>p, <1>i DEF TxAhead
    <3>2. CASE i = txNextput
      <4>1. TxAhead(i) = txNitems
          BY <1>0, <1>t, <1>n, <3>2 DEF TxAhead
      <4> QED
          BY <1>t, <1>f, <3>1, <3>2, <4>1 DEF TxTypeOK, TxInv, produce
    <3>3. CASE i # txNextput
      <4>1. TxAhead(i) # txNitems
          BY <1>0, <1>t, <1>n, <3>3 DEF TxAhead, TxSlot
      <4>2. QED
        <5>1. TxAhead(i) < txNitems /\ txBuf'[i] = txBuf[i]
            BY <1>t, <2>3, <3>1, <3>3, <4>1 DEF TxTypeOK, TxAhead, TxSlot, TxInv, produce
        <5> QED
            BY <1>b, <3>1, <5>1
    <3> QED
        BY <3>2, <3>3
  <2> QED
      BY <2>1, <2>2, <2>3 DEF TxFilled
<1> QED
    BY <1>1, <1>2, <1>3, <1>4 DEF TxInv

\* consume takes the oldest item, the one numbered by what it has taken before.
LEMMA consumeKeeps ==
    ASSUME TxInv, consume
    PROVE  TxInv'
<1>0. tx = example03 /\ tx.buffer = "yes" /\ tx.locks = "yes" /\ txMutex = "B" /\ txNitems > 0
    BY TxMover DEF TxThread, TxMustWait, TxTypeOK, TxInv, consume
<1>t. /\ txNitems \in 0 .. TxSize /\ txNextget \in 0 .. TxSize - 1 /\ txNextput \in 0 .. TxSize - 1
      /\ TxSize \in Nat /\ txI["A"] \in Nat /\ txI["B"] \in Nat
    BY TxAssumption DEF TxTypeOK, TxSlot, TxThread, TxInv
<1>f. txNitems = txI["A"] - txI["B"] /\ Len(txGot) = txI["B"]
    BY <1>0 DEF TxFilled, TxInv
<1>n. /\ txNextget + txNitems >= TxSize => txNextput = txNextget + txNitems - TxSize
      /\ txNextget + txNitems < TxSize => txNextput = txNextget + txNitems
    BY <1>0, <1>t DEF TxFilled, TxInv
<1>b. \A i \in TxSlot : TxAhead(i) < txNitems => txBuf[i] = txI["B"] + TxAhead(i)
    BY <1>0 DEF TxFilled, TxInv
<1>i. txI'["A"] = txI["A"] /\ txI'["B"] = txI["B"] + 1
    BY DEF TxTypeOK, TxThread, TxInv, consume
<1>p. /\ txNextget' = TxWrap(txNextget) /\ txNextput' = txNextput
      /\ txNitems' = txNitems - 1 /\ txBuf' = txBuf
    BY DEF consume
<1>1. txBuf[txNextget] = Len(txGot) /\ txBuf[txNextget] \in Nat
    BY <1>0, <1>t, <1>f, <1>b DEF TxAhead, TxSlot
<1>2. txGot' \in Seq(Nat) /\ Len(txGot') = Len(txGot) + 1 /\ TxInOrder'
    BY <1>1, TxAppended DEF TxTypeOK, TxInOrder, TxInv, consume
<1>3. TxTypeOK'
  <2>1. txNextget' \in TxSlot /\ txNitems' \in 0 .. TxSize
      BY <1>0, TxAssumption DEF TxTypeOK, TxSlot, TxWrap, TxInv, consume
  <2>2. txI' \in [TxThread -> Nat]
      BY DEF TxTypeOK, TxThread, TxInv, consume
  <2> QED
      BY <1>2, <2>1, <2>2 DEF TxTypeOK, TxThread, TxInv, consume, TxSignals
<1>4. TxExcluded'
    BY <1>0 DEF TxTypeOK, TxExcluded, TxCritical, TxThread, TxMustWait, TxInv, consume, TxSignals
<1>5. TxMonotonic' /\ tx' # example02
    BY <1>0, TxPrograms DEF TxTypeOK, TxMonotonic, TxInv, consume
<1>6. TxFilled'
  <2>1. txNitems' = txI'["A"] - txI'["B"] /\ Len(txGot') = txI'["B"]
      BY <1>p, <1>t, <1>f, <1>i, <1>2
  <2>2. txNextput' = IF txNextget' + txNitems' >= TxSize THEN txNextget' + txNitems' - TxSize
                                                         ELSE txNextget' + txNitems'
      BY <1>p, <1>0, <1>t, <1>n DEF TxWrap
  <2>3. ASSUME NEW i \in TxSlot, TxAhead(i)' < txNitems'
        PROVE  txBuf'[i] = txI'["B"] + TxAhead(i)'
    <3>1. TxAhead(i) = TxAhead(i)' + 1 /\ txI'["B"] = txI["B"] + 1
        BY <1>p, <1>0, <1>t, <1>i, <2>3 DEF TxAhead, TxSlot, TxWrap
    <3>2. TxAhead(i)' \in Int /\ TxAhead(i) < txNitems
        BY <1>p, <1>0, <1>t, <2>3, <3>1 DEF TxAhead, TxSlot, TxWrap
    <3>3. txBuf[i] = txI["B"] + TxAhead(i)
        BY <1>b, <3>2
    <3> QED
        BY <1>p, <1>t, <3>1, <3>2, <3>3
  <2> QED
      BY <2>1, <2>2, <2>3 DEF TxFilled
<1> QED
    BY <1>2, <1>3, <1>4, <1>5, <1>6 DEF TxInv

\* A join or a step that changes nothing keeps the invariant.
LEMMA TxOthersKeep ==
    ASSUME TxInv, TxJoin \/ UNCHANGED txVars
    PROVE  TxInv'
<1> USE DEF TxInv, TxJoin, txVars, txRing
<1>1. TxTypeOK'
    BY DEF TxTypeOK
<1>2. (TxExcluded /\ TxMonotonic /\ TxInOrder)'
    BY DEF TxExcluded, TxMustWait, TxMonotonic, TxInOrder
<1>3. (tx = example02 => TxCounted)' /\ (tx = example03 => TxFilled)'
    BY DEF TxCounted, TxFilled, TxAhead
<1> QED
    BY <1>1, <1>2, <1>3

\* The two programs that lock keep TxInv: exclusion, the counter and the ring.
THEOREM TxInvariant == TxSpec => []TxInv
<1>1. TxInv /\ [TxNext]_txVars => TxInv'
  <2> SUFFICES ASSUME TxInv, [TxNext]_txVars PROVE TxInv'
      OBVIOUS
  <2>1. CASE TxJoin \/ UNCHANGED txVars
      BY <2>1, TxOthersKeep
  <2>2. ASSUME NEW t \in TxThread, TxStep(t) \/ TxSpurious(t) PROVE TxInv'
    <3>1. CASE TxSpurious(t)
        BY <3>1, TxSpuriousKeeps
    <3>2. CASE doit(t)
        BY <3>2, TxTopKeeps, TxLockKeeps, TxFetchKeeps, TxPrintKeeps, TxStoreKeeps, TxUnlockKeeps DEF doit
    <3>3. CASE TxTest(t)
        BY <3>3, TxTestKeeps
    <3>4. CASE produce \/ consume
        BY <3>4, produceKeeps, consumeKeeps
    <3> QED
        BY <2>2, <3>1, <3>2, <3>3, <3>4 DEF TxStep
  <2> QED
      BY <2>1, <2>2 DEF TxNext
<1> QED
    BY TxInitInv, <1>1, PTL DEF TxSpec

\* example02.c: the k-th value printed is k, for every NLOOP.
THEOREM TxCountsMonotonically == TxSpec => []TxMonotonic
<1>1. TxInv => TxMonotonic
    BY DEF TxInv
<1> QED
    BY <1>1, TxInvariant, PTL

\* example03.c: consume returns what produce was given, in order and once each, for
\* every NLOOP and BUFFSIZE.
THEOREM TxConsumesInOrder == TxSpec => []TxInOrder
<1>1. TxInv => TxInOrder
    BY DEF TxInv
<1> QED
    BY <1>1, TxInvariant, PTL

\* example01.c takes no mutex and has no ring.
LEMMA TxRacedKeeps ==
    ASSUME TxTypeOK, tx = example01, TxRaced, TxNext PROVE TxRaced'
<1>0. tx.locks = "no" /\ tx.buffer = "no"
  BY DEF example01
<1>a. \A t \in TxThread : t = "A" \/ t = "B"
  BY DEF TxThread
<1>b. "A" \in TxThread /\ "B" \in TxThread /\ txCounter \in Nat /\ txI \in [TxThread -> Nat] /\ txVal \in [TxThread -> Nat]
  BY DEF TxThread, TxTypeOK
<1>1. CASE TxJoin
  BY <1>1, <1>b DEF TxJoin, TxRaced, txRing, TxTypeOK
<1>2. ASSUME NEW t \in TxThread, TxTop(t) PROVE TxRaced'
  <2>1. /\ txAt[t] = "top" /\ UNCHANGED <<txI, txVal, txCounter, txJoined>>
        /\ txAt' = [txAt EXCEPT ![t] = IF txI[t] < TxLoop THEN "fetch" ELSE "ended"]
    BY <1>0, <1>2 DEF TxTop, TxGoes
  <2>2. \A u \in TxThread : txAt'[u] = IF u = t THEN IF txI[t] < TxLoop THEN "fetch" ELSE "ended" ELSE txAt[u]
    BY <2>1 DEF TxTypeOK
  <2> QED BY <1>b, <2>1, <2>2, TxAssumption DEF TxRaced
<1>3. ASSUME NEW t \in TxThread, TxFetch(t) PROVE TxRaced'
  BY <1>a, <1>b, <1>3, TxAssumption DEF TxFetch, TxGoes, TxRaced, TxTypeOK
<1>4. ASSUME NEW t \in TxThread, TxPrint(t) PROVE TxRaced'
  BY <1>b, <1>4, TxAssumption DEF TxPrint, TxGoes, TxRaced, TxTypeOK
<1>5. ASSUME NEW t \in TxThread, TxStore(t) PROVE TxRaced'
  <2>1. /\ txAt[t] = "store" /\ UNCHANGED <<txVal, txJoined>>
        /\ txCounter' = txVal[t] + 1
        /\ txAt' = [txAt EXCEPT ![t] = "top"] /\ txI' = [txI EXCEPT ![t] = @ + 1]
    BY <1>0, <1>5, Zenon DEF TxStore, TxGoes
  <2>2. \A u \in TxThread : /\ txAt'[u] = IF u = t THEN "top" ELSE txAt[u]
                            /\ txI'[u] = IF u = t THEN txI[u] + 1 ELSE txI[u]
    BY <1>b, <2>1 DEF TxTypeOK
  <2>3. txI'["A"] + txI'["B"] = txI["A"] + txI["B"] + 1 /\ txVal[t] \in Nat /\ txI[t] \in Nat
    BY <1>a, <1>b, <2>2
  <2>4. txVal[t] <= txI["A"] + txI["B"] /\ (txI[t] >= 1 => txVal[t] >= 1)
    BY <2>1 DEF TxRaced
  <2>5. txCounter' >= 1 /\ txCounter' <= txI'["A"] + txI'["B"]
    BY <1>b, <2>1, <2>3, <2>4
  <2>6. txCounter' >= 2 \/ txI'[t] <= 1
    BY <1>b, <2>1, <2>2, <2>3, <2>4
  <2>7. ASSUME NEW u \in TxThread
        PROVE  /\ txAt'[u] \in {"top", "fetch", "print", "store", "ended"}
               /\ txI'[u] <= TxLoop
               /\ txAt'[u] \in {"fetch", "print", "store"} => txI'[u] < TxLoop
               /\ txAt'[u] = "ended" => txI'[u] = TxLoop
               /\ txAt'[u] \in {"print", "store"} =>
                     txVal[u] <= txI'["A"] + txI'["B"] /\ (txI'[u] >= 1 => txVal[u] >= 1)
    <3>1. CASE u = t
      BY <1>b, <2>1, <2>2, <3>1, TxAssumption DEF TxRaced
    <3>2. CASE u # t
      BY <1>b, <2>2, <2>3, <3>2 DEF TxRaced
    <3> QED BY <3>1, <3>2
  <2>8. (txJoined >= 1 => txAt'["A"] = "ended") /\ (txJoined = 2 => txAt'["B"] = "ended")
    BY <1>b, <2>1, <2>2 DEF TxRaced
  <2> QED BY <2>1, <2>5, <2>6, <2>7, <2>8 DEF TxRaced
<1>6. ASSUME NEW t \in TxThread, TxLock(t) \/ TxUnlock(t) \/ TxTest(t) \/ TxSpurious(t) PROVE FALSE
  BY <1>6 DEF TxLock, TxUnlock, TxTest, TxSpurious, TxGoes, TxRaced
<1>7. ASSUME produce \/ consume PROVE FALSE
  BY <1>7, <1>b DEF produce, consume, TxRaced
<1> QED BY <1>1, <1>2, <1>3, <1>4, <1>5, <1>6, <1>7 DEF TxNext, TxStep, doit

\* All three programs, for every NLOOP and BUFFSIZE: the two that lock lose nothing, and the
\* counter of the one that does not ends between 2 (1, if NLOOP is 1) and 2 * NLOOP.
THEOREM TxIsSound == TxSpec => []TxSound
<1>1. TxInit => (tx = example01 => TxRaced)
  BY TxAssumption DEF TxInit, TxRaced, TxThread
<1>2. TxInv /\ (tx = example01 => TxRaced) /\ [TxNext]_txVars => (tx = example01 => TxRaced)'
  <2> SUFFICES ASSUME TxInv, tx = example01 => TxRaced, [TxNext]_txVars, tx' = example01
               PROVE  TxRaced'
    OBVIOUS
  <2>1. tx' = tx
    BY DEF TxNext, TxStep, doit, TxJoin, TxTop, TxLock, TxFetch, TxPrint, TxStore, TxUnlock, TxTest, TxSpurious,
           produce, consume, txVars
  <2>2. CASE UNCHANGED txVars
    BY <2>1, <2>2 DEF txVars, TxRaced
  <2>3. CASE TxNext
    BY <2>1, <2>3, TxRacedKeeps DEF TxInv
  <2> QED BY <2>2, <2>3
<1>3. TxInv /\ (tx = example01 => TxRaced) => TxSound
  <2> SUFFICES ASSUME TxInv, tx = example01, TxRaced, txJoined = 2
               PROVE  /\ txCounter <= 2 * TxLoop
                      /\ txCounter >= IF TxLoop = 1 THEN 1 ELSE 2
    BY DEF TxSound, TxLostButNotAll
  <2>1. txI["A"] = TxLoop /\ txI["B"] = TxLoop /\ txCounter \in Nat
    BY DEF TxRaced, TxThread, TxInv, TxTypeOK
  <2>2. txCounter <= 2 * TxLoop
    BY <2>1, TxAssumption DEF TxRaced
  <2>3. txCounter >= 1 /\ (TxLoop > 1 => txCounter >= 2)
    BY <2>1, TxAssumption DEF TxRaced, TxThread
  <2> QED BY <2>2, <2>3, TxAssumption
<1> QED BY <1>1, <1>2, <1>3, TxInvariant, PTL DEF TxSpec

(***************************************************************************)
(* Proofs about the two programs with mutexes, for every set of threads    *)
(* that use a Mutexlock.                                                   *)
(***************************************************************************)

\* Every step of the thread and of main keeps the two mutexes and the inventory in step.
LEMMA InventoryStep == InventoryInv /\ [InvNext]_invVars => InventoryInv'
<1> SUFFICES ASSUME InventoryInv, [InvNext]_invVars PROVE InventoryInv'
  OBVIOUS
<1> USE DEF InventoryInv, InvThreadGoes, InvMainGoes
<1>1. CASE NewRequest \/ FreeRequest
  BY <1>1, Zenon DEF NewRequest, FreeRequest
<1>2. CASE LockRequest
  BY <1>2, Zenon DEF LockRequest
<1>3. CASE add \/ remove
  <2>1. invMain # "print" /\ invCopy = {}
    BY <1>3 DEF add, remove
  <2>2. CASE add
    <3>1. invSet = {} /\ invSet' = {"req"} /\ invCopy' = {}
      BY <2>1, <2>2 DEF add
    <3> QED
      BY <2>1, <2>2, <3>1 DEF add
  <2>3. CASE remove
    <3>1. invSet' = {}
      BY <2>3 DEF remove
    <3> QED
      BY <2>1, <2>3, <3>1 DEF remove
  <2> QED
    BY <1>3, <2>2, <2>3
<1>4. CASE printAll \/ print
  BY <1>4 DEF printAll, print
<1>5. CASE printAll_ends \/ joinThread
  BY <1>5, Zenon DEF printAll_ends, joinThread
<1>6. CASE UNCHANGED invVars
  BY <1>6 DEF invVars
<1> QED
  BY <1>1, <1>2, <1>3, <1>4, <1>5, <1>6 DEF InvNext, InvThreadStep, InvMainStep

\* printAll prints live requests only, though it does so in the order of locks that can
\* deadlock with ~Request.
THEOREM InventoryInvariant == InvSpec => [](InventoryInv /\ PrintsLiveRequest)
<1>1. InvInit => InventoryInv
  BY DEF InvInit, InventoryInv
<1>2. InventoryInv => PrintsLiveRequest
  BY Zenon DEF InventoryInv, PrintsLiveRequest
<1> QED
  BY <1>1, <1>2, InventoryStep, PTL DEF InvSpec

\* One thread has mutex_, and no thread finds itself in holder_ without it.
LEMMA MutexlockStep == MutexlockInv /\ [MtxNext]_mtxVars => MutexlockInv'
<1> SUFFICES ASSUME MutexlockInv, [MtxNext]_mtxVars PROVE MutexlockInv'
  OBVIOUS
<1> USE MtxAssumption DEF MutexlockInv, OwnerIsHolder, isLockedByThisThread, MtxGoes
<1>1. ASSUME NEW t \in MtxThread, lock(t) PROVE MutexlockInv'
  <2>1. CASE mtxOwner = 0 /\ MtxGoes(t, "out", "locked") /\ mtxOwner' = t /\ UNCHANGED <<mtxHolder, mtxWaited>>
    BY <2>1
  <2>2. CASE MtxGoes(t, "locked", "in") /\ mtxHolder' = t /\ UNCHANGED <<mtxOwner, mtxWaited>>
    BY <2>2
  <2> QED
    BY <1>1, <2>1, <2>2 DEF lock
<1>2. ASSUME NEW t \in MtxThread, unlock(t) PROVE MutexlockInv'
  BY <1>2 DEF unlock
<1>3. ASSUME NEW t \in MtxThread, wait(t) \/ MtxWakes(t) PROVE MutexlockInv'
  BY <1>3 DEF wait, MtxWakes
<1>4. CASE notify \/ notifyAll
  BY <1>4 DEF notify, notifyAll
<1>5. CASE UNCHANGED mtxVars
  BY <1>5 DEF mtxVars
<1> QED
  BY <1>1, <1>2, <1>3, <1>4, <1>5 DEF MtxNext

\* For every number of threads and any waits and notifications, isLockedByThisThread is true,
\* outside of Condition::wait, only for the owner, and for an owner that has not waited.
THEOREM MutexlockInvariant == MtxSpec => [](MutexlockInv /\ HolderHasMutex)
<1>1. MtxInit => MutexlockInv
  BY MtxAssumption DEF MtxInit, MutexlockInv, OwnerIsHolder
<1>2. MutexlockInv => HolderHasMutex
  BY DEF MutexlockInv, HolderHasMutex, isLockedByThisThread
<1> QED
  BY <1>1, <1>2, MutexlockStep, PTL DEF MtxSpec

\* What the mutexes protect, in both programs.
THEOREM LocksAreSound == InvSpec /\ MtxSpec => []LockSound
<1>1. InventoryInv /\ PrintsLiveRequest /\ MutexlockInv /\ HolderHasMutex => LockSound
  BY DEF LockSound
<1> QED
  BY <1>1, InventoryInvariant, MutexlockInvariant, PTL

\* What is known of finite sets, for the counts.
INSTANCE FiniteSetTheorems

(***************************************************************************)
(* Proofs about the clients that fetch several files, for every number of  *)
(* files and connections.                                                  *)
(***************************************************************************)

\* The sets that the counters count are finite.
LEMMA WebFinite ==
    /\ IsFiniteSet(Files \ Opened) /\ IsFiniteSet(Files \ Closed) /\ IsFiniteSet(Opened \ Closed)
    /\ IsFiniteSet(Counted) /\ IsFiniteSet(Busy)
    /\ Cardinality(Files \ Opened) \in Nat /\ Cardinality(Files \ Closed) \in Nat
    /\ Cardinality(Opened \ Closed) \in Nat /\ Cardinality(Counted) \in Nat /\ Cardinality(Busy) \in Nat
<1>1. /\ Files \ Opened \subseteq Files /\ Files \ Closed \subseteq Files /\ Opened \ Closed \subseteq Files
      /\ Counted \subseteq Files /\ Busy \subseteq Files
  BY DEF Opened, Closed, Counted, Busy
<1>2. \A S \in SUBSET Files : IsFiniteSet(S) /\ Cardinality(S) \in Nat
  BY WebAssumption, FS_Subset, FS_CardinalityType, Zenon
<1> QED
  BY <1>1, <1>2

\* The cardinality of a set with one element less, or one more.
LEMMA OneLess ==
    ASSUME NEW S, IsFiniteSet(S), NEW x \in S, NEW T, T = S \ {x}
    PROVE  Cardinality(T) = Cardinality(S) - 1
BY FS_RemoveElement

LEMMA OneMore ==
    ASSUME NEW S, IsFiniteSet(S), NEW x, x \notin S, NEW T, T = S \cup {x}
    PROVE  Cardinality(T) = Cardinality(S) + 1
BY FS_AddElement

\* What the four clients are.
LEMMA WebClients ==
    ASSUME NEW c \in {web, web01, web02, web03}
    PROVE  /\ c.wait \in {"select", "join", "poll", "cond"} /\ c.mark \in {"before", "after"}
           /\ c.mark = "after" <=> c = web02
           /\ c = web02 => c.wait = "poll"
BY DEF web, web01, web02, web03, Web

\* WebSound follows from WebInv.
LEMMA WebImplies == WebInv => ConnLimit /\ AllRead
<1> SUFFICES ASSUME WebInv PROVE ConnLimit /\ AllRead
  OBVIOUS
<1> USE WebAssumption
<1>1. WebTypeOK /\ WebCounts /\ WebFlags
  BY DEF WebInv
<1>2. Closed \subseteq Opened
  BY <1>1 DEF Closed, Opened, WebTypeOK
<1>3. Busy \subseteq Opened \ Closed
  BY <1>1, Zenon DEF Busy, Opened, Closed, WebTypeOK, WebFlags
<1>4. Cardinality(Busy) <= Cardinality(Opened \ Closed)
  BY <1>3, WebFinite, FS_Subset
<1>5. Cardinality(Files \ Opened) <= Cardinality(Files \ Closed)
  <2>1. Files \ Opened \subseteq Files \ Closed
    BY <1>2
  <2> QED
    BY <2>1, WebFinite, FS_Subset
<1>6. ASSUME webAt = "done" PROVE nconn = 0 /\ nlefttoconn = 0 /\ ndone = 0 /\ \A f \in Files : page[f] = "sent"
  <2>1. Cardinality(Files \ Closed) = 0
    BY <1>1, <1>6 DEF WebFlags, WebCounts
  <2>2. Files \ Closed = {}
    BY <2>1, WebFinite, FS_EmptySet
  <2>3. Files \ Opened = {} /\ Opened \ Closed = {} /\ Closed = Files
    BY <1>2, <2>2 DEF Opened, Closed
  <2>4. Counted = {}
    BY <2>3 DEF Counted, Closed
  <2>5. \A f \in Files : page[f] = "sent"
    BY <1>1, <2>3 DEF Closed, WebFlags
  <2> QED
    BY <1>1, <2>3, <2>4, <2>5, FS_EmptySet DEF WebCounts
<1> QED
  BY <1>1, <1>4, <1>5, <1>6, WebFinite DEF ConnLimit, AllRead, WebCounts

\* A step that leaves flags, threads and counters alone.
LEMMA WebSame ==
    ASSUME WebInv, UNCHANGED <<client, f_flags, counters, worker>>
    PROVE  WebCounts'
<1>1. Opened' = Opened /\ Closed' = Closed /\ Counted' = Counted
  BY DEF Opened, Closed, Counted
<1> QED
  BY <1>1 DEF WebInv, WebCounts, counters

\* The servers answer, the home page is fetched, and main goes from loop to loop.
LEMMA WebQuiet ==
    ASSUME WebInv, home_page \/ NothingFound \/ Started \/ SelectWeb \/ LockDone \/ Unlock \/ \E f \in Files : Answer(f)
    PROVE  WebInv'
<1>1. WebTypeOK /\ WebCounts /\ WebFlags /\ FileIsFound
  BY DEF WebInv
<1>2. UNCHANGED <<client, f_flags, counters, worker>>
  BY DEF home_page, NothingFound, Started, SelectWeb, LockDone, Unlock, Answer
<1>3. WebCounts'
  BY <1>2, WebSame
<1>w. client.wait \in {"select", "join", "poll", "cond"}
  BY <1>1, WebClients DEF WebTypeOK
<1>4. CASE home_page
  <2>1. webAt = "home" /\ webAt' \in {"start", "error"} /\ scan' = scan
        /\ (page' = page \/ page' = [f \in Files |-> "failed"])
        /\ (webAt' = "error" => page' = [f \in Files |-> "failed"]) /\ (webAt' # "error" => page' = page)
    BY <1>4 DEF home_page
  <2>2. WebTypeOK' /\ FileIsFound'
    BY <1>1, <1>2, <2>1, WebAssumption, Zenon DEF WebTypeOK, FileIsFound
  <2>3. WebFlags'
    BY <1>1, <1>2, <2>1 DEF WebFlags, counters
  <2> QED
    BY <2>2, <2>3, <1>3 DEF WebInv
<1>5. CASE NothingFound
  <2>1. Cardinality(Files \ Opened) > 0
    BY <1>1, <1>5 DEF NothingFound, MayStart, WebCounts
  <2>2. Files \ Opened # {}
    BY <2>1, FS_EmptySet
  <2> QED
    BY <1>5, <2>2 DEF NothingFound, Opened
<1>6. CASE Started
  <2>1. webAt = "start" /\ webAt' \in {"done", "select", "join", "lock"} /\ UNCHANGED <<scan, page>>
        /\ (webAt' = "done" => nlefttoread = 0)
        /\ (webAt' = "select" => client.wait = "select") /\ (webAt' = "join" => client.wait = "join")
        /\ (webAt' = "lock" => client.wait \in {"poll", "cond"})
    BY <1>6, <1>w DEF Started
  <2>2. WebTypeOK' /\ FileIsFound'
    BY <1>1, <1>2, <2>1 DEF WebTypeOK, FileIsFound
  <2>3. WebFlags'
    BY <1>1, <1>2, <2>1 DEF WebFlags, counters
  <2> QED
    BY <2>2, <2>3, <1>3 DEF WebInv
<1>7. CASE SelectWeb
  <2>1. webAt = "select" /\ webAt' = "files" /\ page' = page /\ scan' \subseteq Files
    BY <1>7 DEF SelectWeb
  <2>2. WebTypeOK' /\ FileIsFound'
    BY <1>1, <1>2, <2>1 DEF WebTypeOK, FileIsFound
  <2>3. WebFlags'
    BY <1>1, <1>2, <2>1 DEF WebFlags, counters
  <2> QED
    BY <2>2, <2>3, <1>3 DEF WebInv
<1>8. CASE LockDone \/ Unlock
  <2>1. webAt \in {"lock", "woken", "join_done"} /\ page' = page /\ scan' \subseteq Files
        /\ webAt' \in {"wait", "start", "join_done"}
    BY <1>8, <1>1 DEF LockDone, Unlock, WebTypeOK
  <2>2. WebTypeOK' /\ FileIsFound'
    BY <1>1, <1>2, <2>1 DEF WebTypeOK, FileIsFound
  <2>3. WebFlags'
    BY <1>1, <1>2, <2>1 DEF WebFlags, counters
  <2> QED
    BY <2>2, <2>3, <1>3 DEF WebInv
<1>9. ASSUME NEW f \in Files, Answer(f) PROVE WebInv'
  <2> PICK p \in {"sent", "failed"} : page' = [page EXCEPT ![f] = p]
    BY <1>9, Zenon DEF Answer
  <2>1. page[f] = "waiting" /\ UNCHANGED <<webAt, scan>> /\ webAt \notin {"done", "error"}
    BY <1>9 DEF Answer, Lives
  <2>2. WebTypeOK' /\ FileIsFound'
    BY <1>1, <1>2, <2>1 DEF WebTypeOK, FileIsFound
  <2>3. \A g \in Files : page[g] = "sent" => page'[g] = "sent"
    BY <1>1, <2>1 DEF WebTypeOK
  <2>4. WebFlags'
    BY <1>1, <1>2, <2>1, <2>3 DEF WebFlags, counters
  <2> QED
    BY <2>2, <2>4, <1>3 DEF WebInv
<1> QED
  BY <1>4, <1>5, <1>6, <1>7, <1>8, <1>9

\* A connection is started: one more of nconn, one fewer of nlefttoconn.
LEMMA WebStart ==
    ASSUME WebInv, NEW f \in Files, Start(f)
    PROVE  WebInv'
<1> USE WebAssumption
<1>1. WebTypeOK /\ WebCounts /\ WebFlags /\ FileIsFound
  BY DEF WebInv
<1>2. /\ webAt = "start" /\ nconn < maxnconn /\ f_flags[f] = "0" /\ worker[f] = "none"
      /\ nconn' = nconn + 1 /\ nlefttoconn' = nlefttoconn - 1
      /\ UNCHANGED <<client, nlefttoread, ndone, mutex, page>>
  BY <1>1 DEF Start, MayStart, LowestFile, WebFlags
<1>w. /\ client.wait \in {"select", "join", "poll", "cond"} /\ client.mark \in {"before", "after"}
      /\ client.mark = "after" => client.wait = "poll" /\ client = web02
  BY <1>1, WebClients DEF WebTypeOK
<1>3. /\ f_flags' \in [Files -> {"0", "CONNECTING", "READING", "DONE", "JOINED"}]
      /\ worker' \in [Files -> {"none", "get", "read", "lock", "unlock", "over", "joined"}]
      /\ \A g \in Files \ {f} : f_flags'[g] = f_flags[g] /\ worker'[g] = worker[g]
      /\ client.mark = "before" => f_flags'[f] = "CONNECTING" /\ webAt' = "start" /\ scan' = {}
      /\ client.mark = "after" => f_flags'[f] = "0" /\ webAt' = "mark" /\ scan' = {f}
      /\ client.wait = "select" => worker' = worker
      /\ client.wait # "select" => worker'[f] = "get"
  BY <1>1, <1>2, <1>w DEF Start, WebTypeOK
<1>4. f \notin Opened /\ Opened' = Opened \cup {f}
  <2>1. f_flags'[f] # "0" \/ worker'[f] # "none"
    BY <1>3, <1>w
  <2>2. ASSUME NEW g \in Files
        PROVE  f_flags'[g] # "0" \/ worker'[g] # "none" <=> f_flags[g] # "0" \/ worker[g] # "none" \/ g = f
    BY <1>3, <2>1
  <2>3. f \notin Opened
    BY <1>2 DEF Opened
  <2>4. \A g \in Files : g \in Opened' <=> g \in Opened \/ g = f
    BY <2>2, Zenon DEF Opened
  <2>5. Opened \subseteq Files /\ Opened' \subseteq Files
    BY Zenon DEF Opened
  <2> QED
    BY <2>3, <2>4, <2>5, Zenon
<1>5. f \notin Closed /\ Closed' = Closed
  BY <1>2, <1>3, <1>w, ZenonT(30) DEF Closed
<1>6. Counted' = Counted
  BY <1>2, <1>3, <1>w, Zenon DEF Counted
<1>7. Files \ Opened' = (Files \ Opened) \ {f} /\ Opened' \ Closed' = (Opened \ Closed) \cup {f}
  BY <1>4, <1>5
<1>8. Cardinality(Files \ Opened') = Cardinality(Files \ Opened) - 1
  <2>1. f \in Files \ Opened
    BY <1>4
  <2> QED
    BY <2>1, <1>7, WebFinite, OneLess, Zenon
<1>9. Cardinality(Opened' \ Closed') = Cardinality(Opened \ Closed) + 1
  <2>1. f \notin Opened \ Closed
    BY <1>4
  <2> QED
    BY <2>1, <1>7, WebFinite, OneMore, Zenon
<1>10. WebCounts'
  BY <1>1, <1>2, <1>5, <1>6, <1>8, <1>9, WebFinite DEF WebCounts
<1>11. WebTypeOK' /\ FileIsFound'
  BY <1>1, <1>2, <1>3, <1>w DEF WebTypeOK, FileIsFound
<1>12. WebFlags'
  <2>1. client.wait = "select" => worker' = [g \in Files |-> "none"]
    BY <1>1, <1>3 DEF WebFlags
  <2>2. webAt' = "mark" => client = web02 /\ scan' = {f} /\ worker'[f] = "get"
    BY <1>3, <1>w
  <2> QED
    BY <1>1, <1>2, <1>3, <1>w, <2>1, <2>2 DEF WebFlags
<1> QED
  BY <1>10, <1>11, <1>12 DEF WebInv

\* web02 marks its file, whatever its thread has done in the meantime.
LEMMA WebMark ==
    ASSUME WebInv, NEW f \in Files, Mark(f)
    PROVE  WebInv'
<1>1. WebTypeOK /\ WebCounts /\ WebFlags /\ FileIsFound
  BY DEF WebInv
<1>2. /\ webAt = "mark" /\ scan = {f} /\ worker[f] \notin {"none", "joined"}
      /\ f_flags' = [f_flags EXCEPT ![f] = "CONNECTING"] /\ webAt' = "start" /\ scan' = {}
      /\ UNCHANGED <<client, nconn, nlefttoconn, nlefttoread, ndone, worker, page>>
  BY <1>1 DEF Mark, WebFlags, counters
<1>w. client.wait = "poll" /\ client.mark = "after"
  BY <1>1, <1>2, WebClients DEF WebFlags, WebTypeOK
<1>3. Opened' = Opened /\ Closed' = Closed /\ Counted' = Counted
  BY <1>1, <1>2, <1>w DEF Opened, Closed, Counted, WebTypeOK
<1>4. WebCounts'
  BY <1>1, <1>2, <1>3 DEF WebCounts
<1>5. WebTypeOK' /\ FileIsFound'
  BY <1>1, <1>2 DEF WebTypeOK, FileIsFound
<1>6. WebFlags'
  BY <1>1, <1>2, <1>w DEF WebFlags, WebTypeOK
<1> QED
  BY <1>4, <1>5, <1>6 DEF WebInv

\* web.c looks at a file that select has returned.
LEMMA WebLook ==
    ASSUME WebInv, NEW f \in Files, LookFile(f)
    PROVE  WebInv'
<1>1. WebTypeOK /\ WebCounts /\ WebFlags /\ FileIsFound
  BY DEF WebInv
<1>2. /\ webAt = "files" /\ client.wait = "select" /\ scan' = scan \ {f} /\ UNCHANGED <<client, worker, mutex, page>>
      /\ webAt' \in {"files", "start", "error"}
  BY <1>1 DEF LookFile, WebFlags
<1>c. Counted' = Counted
  BY <1>2 DEF Counted
<1>3. CASE /\ f_flags[f] = "CONNECTING" /\ f_flags' = [f_flags EXCEPT ![f] = "READING"]
           /\ UNCHANGED counters /\ webAt' \in {"files", "start"}
  <2>1. Opened' = Opened /\ Closed' = Closed
    BY <1>1, <1>2, <1>3 DEF Opened, Closed, WebTypeOK
  <2>2. WebCounts'
    BY <1>1, <1>3, <1>c, <2>1 DEF WebCounts, counters
  <2>3. WebTypeOK' /\ FileIsFound'
    BY <1>1, <1>2, <1>3 DEF WebTypeOK, FileIsFound
  <2>4. WebFlags'
    BY <1>1, <1>2, <1>3 DEF WebFlags, WebTypeOK, counters
  <2> QED
    BY <2>2, <2>3, <2>4 DEF WebInv
<1>4. CASE f_flags[f] = "READING" /\ page[f] = "sent" /\ CloseFile(f) /\ webAt' \in {"files", "start"}
  <2>1. /\ f_flags' = [f_flags EXCEPT ![f] = "DONE"] /\ nconn' = nconn - 1 /\ nlefttoread' = nlefttoread - 1
        /\ UNCHANGED <<nlefttoconn, ndone>>
    BY <1>4 DEF CloseFile
  <2>2. Opened' = Opened /\ Closed' = Closed \cup {f} /\ f \notin Closed /\ f \in Opened
    BY <1>1, <1>2, <1>4, <2>1 DEF Opened, Closed, WebTypeOK
  <2>3. Files \ Closed' = (Files \ Closed) \ {f} /\ Opened' \ Closed' = (Opened \ Closed) \ {f}
    BY <2>2
  <2>4. f \in Files \ Closed /\ f \in Opened \ Closed
    BY <2>2
  <2>5. Cardinality(Files \ Closed') = Cardinality(Files \ Closed) - 1
    BY <2>3, <2>4, WebFinite, OneLess, Zenon
  <2>6. Cardinality(Opened' \ Closed') = Cardinality(Opened \ Closed) - 1
    BY <2>3, <2>4, WebFinite, OneLess, Zenon
  <2>7. WebCounts'
    BY <1>1, <1>c, <2>1, <2>2, <2>5, <2>6, WebFinite, WebAssumption DEF WebCounts
  <2>8. WebTypeOK' /\ FileIsFound'
    BY <1>1, <1>2, <1>4, <2>1 DEF WebTypeOK, FileIsFound
  <2>9. WebFlags'
    BY <1>1, <1>2, <1>4, <2>1 DEF WebFlags, WebTypeOK
  <2> QED
    BY <2>7, <2>8, <2>9 DEF WebInv
<1>5. CASE page[f] = "failed" /\ webAt' = "error" /\ UNCHANGED <<f_flags, counters>>
  <2>1. WebCounts'
    BY <1>2, <1>5, WebSame
  <2>2. WebTypeOK' /\ FileIsFound'
    BY <1>1, <1>2, <1>5 DEF WebTypeOK, FileIsFound
  <2>3. WebFlags'
    BY <1>1, <1>2, <1>5 DEF WebFlags, counters
  <2> QED
    BY <2>1, <2>2, <2>3 DEF WebInv
<1> QED
  BY <1>3, <1>4, <1>5 DEF LookFile, write_get_cmd

\* The thread of a file reads it.
LEMMA WebGetRead ==
    ASSUME WebInv, NEW f \in Files, GetRead(f)
    PROVE  WebInv'
<1>1. WebTypeOK /\ WebCounts /\ WebFlags /\ FileIsFound
  BY DEF WebInv
<1>2. /\ worker[f] \in {"get", "read"} /\ webAt \notin {"done", "error"}
      /\ UNCHANGED <<client, nconn, nlefttoconn, nlefttoread, ndone, mutex, scan, page>>
  BY DEF GetRead, Lives, counters
<1>w. client.wait \in {"join", "poll", "cond"}
  BY <1>1, <1>2, WebClients DEF WebFlags, WebTypeOK
<1>3. CASE page[f] = "failed" /\ webAt' = "error" /\ UNCHANGED <<worker, f_flags>>
  <2>1. WebCounts'
    BY <1>2, <1>3, WebSame DEF counters
  <2>2. WebTypeOK' /\ FileIsFound'
    BY <1>1, <1>2, <1>3 DEF WebTypeOK, FileIsFound
  <2>3. WebFlags'
    BY <1>1, <1>2, <1>3 DEF WebFlags
  <2> QED
    BY <2>1, <2>2, <2>3 DEF WebInv
<1>4. ASSUME NEW w \in {"read", "lock", "over"}, NEW x \in {"READING", "DONE"},
             worker' = [worker EXCEPT ![f] = w], f_flags' = [f_flags EXCEPT ![f] = x], webAt' = webAt,
             x = "READING" <=> w = "read", w # "read" => page[f] = "sent", w = "over" <=> (w # "read" /\ client.wait = "join")
      PROVE  WebInv'
  <2>1. Opened' = Opened /\ Closed' = Closed /\ Counted' = Counted
    BY <1>1, <1>2, <1>4, <1>w DEF Opened, Closed, Counted, WebTypeOK
  <2>2. WebCounts'
    BY <1>1, <1>2, <2>1, Zenon DEF WebCounts
  <2>3. WebTypeOK' /\ FileIsFound'
    BY <1>1, <1>2, <1>4 DEF WebTypeOK, FileIsFound
  <2>4. WebFlags'
    BY <1>1, <1>2, <1>4, <1>w DEF WebFlags, WebTypeOK
  <2> QED
    BY <2>2, <2>3, <2>4 DEF WebInv
<1>5. CASE worker[f] = "get" /\ worker' = [worker EXCEPT ![f] = "read"] /\ write_get_cmd(f) /\ UNCHANGED webAt
  BY <1>4, <1>5 DEF write_get_cmd
<1>6. CASE /\ worker[f] = "read" /\ page[f] = "sent"
           /\ f_flags' = [f_flags EXCEPT ![f] = "DONE"] /\ UNCHANGED webAt
           /\ worker' = [worker EXCEPT ![f] = IF client.wait = "join" THEN "over" ELSE "lock"]
  BY <1>4, <1>6, Zenon
<1> QED
  BY <1>3, <1>5, <1>6, ZenonT(30) DEF GetRead

\* A thread counts itself, and ends.
LEMMA WebCountDone ==
    ASSUME WebInv, NEW f \in Files, CountDone(f) \/ ThreadOver(f)
    PROVE  WebInv'
<1>1. WebTypeOK /\ WebCounts /\ WebFlags /\ FileIsFound
  BY DEF WebInv
<1>2. webAt \notin {"done", "error"} /\ UNCHANGED <<client, f_flags, nconn, nlefttoconn, nlefttoread, scan, page>>
  BY DEF CountDone, ThreadOver, Lives, counters
<1>w. client.wait \in {"poll", "cond"}
  BY <1>1, Zenon DEF WebFlags, CountDone, ThreadOver
<1>3. /\ webAt' = webAt \/ (webAt = "wait" /\ webAt' = "woken")
      /\ worker[f] \in {"lock", "unlock"} /\ \E w \in {"unlock", "over"} : worker' = [worker EXCEPT ![f] = w]
  BY DEF CountDone, ThreadOver
<1>4. Opened' = Opened /\ Closed' = Closed
  BY <1>1, <1>2, <1>3, <1>w DEF Opened, Closed, WebTypeOK
<1>5. ndone' = Cardinality(Counted')
  <2>1. CASE CountDone(f)
    <3>1. worker[f] = "lock" /\ ndone' = ndone + 1 /\ worker' = [worker EXCEPT ![f] = "unlock"]
      BY <2>1 DEF CountDone
    <3>2. f \notin Counted /\ Counted' = Counted \cup {f}
      BY <3>1, <1>1, <1>2, <1>w DEF Counted, WebTypeOK
    <3> QED
      BY <3>1, <3>2, <1>1, WebFinite, FS_AddElement, Zenon DEF WebCounts
  <2>2. CASE ThreadOver(f)
    <3>1. Counted' = Counted
      BY <2>2, <1>1 DEF ThreadOver, Counted, WebTypeOK
    <3> QED
      BY <2>2, <3>1, <1>1 DEF ThreadOver, WebCounts, counters
  <2> QED
    BY <2>1, <2>2
<1>6. WebCounts'
  BY <1>1, <1>2, <1>4, <1>5 DEF WebCounts
<1>7. WebTypeOK' /\ FileIsFound'
  BY <1>1, <1>2, <1>3 DEF WebTypeOK, FileIsFound
<1>8. WebFlags'
  <2>1. /\ \A g \in Files \ {f} : worker'[g] = worker[g]
        /\ worker'[f] \in {"unlock", "over"} /\ page[f] = "sent" /\ client.wait \notin {"select", "join"}
    BY <1>1, <1>3, <1>w DEF WebFlags, WebTypeOK
  <2>2. webAt' = "mark" => client = web02 /\ \E g \in Files : scan = {g} /\ worker'[g] \notin {"none", "joined"}
    BY <1>1, <1>3, <2>1, ZenonT(30) DEF WebFlags
  <2>3. /\ webAt' \notin {"home", "done", "select", "files", "join"}
        /\ webAt' \in {"lock", "wait", "woken", "join_done"} => client.wait \in {"poll", "cond"}
    BY <1>1, <1>2, <1>3, <1>w, ZenonT(30) DEF WebFlags
  <2>4. ASSUME NEW g \in Files
        PROVE  /\ worker'[g] # "none" /\ f_flags[g] = "0" => webAt' = "error" \/ (webAt' = "mark" /\ g \in scan)
               /\ worker'[g] = "joined" => f_flags[g] \in {"DONE", "JOINED"}
               /\ worker'[g] \in {"lock", "unlock", "over", "joined"} => page[g] = "sent"
               /\ client.mark = "before" /\ worker'[g] \in {"get", "read"} => f_flags[g] \in {"CONNECTING", "READING"}
    BY <1>1, <1>2, <1>3, <2>1 DEF WebFlags
  <2> QED
    BY <1>2, <1>w, <2>1, <2>2, <2>3, <2>4 DEF WebFlags
<1> QED
  BY <1>6, <1>7, <1>8 DEF WebInv

\* A thread is joined: its connection is given back.
LEMMA WebJoin ==
    ASSUME WebInv, NEW f \in Files, JoinAny(f) \/ JoinDone(f)
    PROVE  WebInv'
<1>1. WebTypeOK /\ WebCounts /\ WebFlags /\ FileIsFound
  BY DEF WebInv
<1>2. /\ webAt \in {"join", "join_done"} /\ webAt' \in {"start", "join_done"} /\ (webAt = "join" => webAt' = "start")
      /\ UNCHANGED <<client, nlefttoconn, page>> /\ scan' \subseteq Files
  BY <1>1 DEF JoinAny, JoinDone, counters, WebTypeOK
<1>w. client.wait \in {"join", "poll", "cond"} /\ (webAt = "join" <=> client.wait = "join")
  BY <1>1, <1>2 DEF WebFlags
<1>3. CASE UNCHANGED <<worker, f_flags, counters>>
  <2>1. WebCounts'
    BY <1>2, <1>3, WebSame
  <2>2. WebTypeOK' /\ FileIsFound'
    BY <1>1, <1>2, <1>3 DEF WebTypeOK, FileIsFound
  <2>3. WebFlags'
    BY <1>1, <1>2, <1>3, <1>w DEF WebFlags, counters
  <2> QED
    BY <2>1, <2>2, <2>3 DEF WebInv
<1>4. ASSUME worker[f] = "over", worker' = [worker EXCEPT ![f] = "joined"], nconn' = nconn - 1, nlefttoread' = nlefttoread - 1,
             f_flags[f] = "DONE",
             \/ f_flags' = f_flags /\ client.wait = "join" /\ ndone' = ndone
             \/ f_flags' = [f_flags EXCEPT ![f] = "JOINED"] /\ client.wait # "join" /\ ndone' = ndone - 1
      PROVE  WebInv'
  <2>1. Opened' = Opened /\ Closed' = Closed \cup {f} /\ f \notin Closed /\ f \in Opened
    BY <1>1, <1>2, <1>4, <1>w DEF Opened, Closed, WebTypeOK
  <2>2. Files \ Closed' = (Files \ Closed) \ {f} /\ Opened' \ Closed' = (Opened \ Closed) \ {f}
    BY <2>1
  <2>3. f \in Files \ Closed /\ f \in Opened \ Closed
    BY <2>1
  <2>4. Cardinality(Files \ Closed') = Cardinality(Files \ Closed) - 1
    BY <2>2, <2>3, WebFinite, OneLess, Zenon
  <2>5. Cardinality(Opened' \ Closed') = Cardinality(Opened \ Closed) - 1
    BY <2>2, <2>3, WebFinite, OneLess, Zenon
  <2>6. ndone' = Cardinality(Counted')
    <3>1. CASE client.wait = "join"
      <4>1. Counted' = Counted
        BY <3>1, <1>2, Zenon DEF Counted
      <4> QED
        BY <4>1, <3>1, <1>1, <1>4 DEF WebCounts
    <3>2. CASE client.wait # "join"
      <4>1. f \in Counted /\ Counted' = Counted \ {f}
        BY <3>2, <1>1, <1>2, <1>4, <1>w DEF Counted, WebTypeOK
      <4> QED
        BY <4>1, <3>2, <1>1, <1>4, WebFinite, FS_RemoveElement, Zenon DEF WebCounts
    <3> QED
      BY <3>1, <3>2
  <2>7. WebCounts'
    BY <1>1, <1>2, <1>4, <2>1, <2>4, <2>5, <2>6, WebFinite, WebAssumption DEF WebCounts
  <2>8. WebTypeOK' /\ FileIsFound'
    BY <1>1, <1>2, <1>4 DEF WebTypeOK, FileIsFound
  <2>9. WebFlags'
    <3>1. /\ f_flags \in [Files -> {"0", "CONNECTING", "READING", "DONE", "JOINED"}]
          /\ worker'[f] = "joined" /\ f_flags'[f] \in {"DONE", "JOINED"}
          /\ client.wait = "join" => f_flags'[f] = "DONE"
      BY <1>1, <1>4 DEF WebTypeOK
    <3>2. \A g \in Files : g # f => worker'[g] = worker[g] /\ f_flags'[g] = f_flags[g]
      BY <1>1, <1>4 DEF WebTypeOK
    <3> QED
      BY <1>1, <1>2, <1>4, <1>w, <3>1, <3>2 DEF WebFlags
  <2> QED
    BY <2>7, <2>8, <2>9 DEF WebInv
<1>5. CASE JoinAny(f)
  <2>1. f_flags[f] = "DONE" /\ client.wait = "join"
    BY <1>1, <1>5, <1>w DEF JoinAny, WebFlags
  <2> QED
    BY <1>4, <1>5, <2>1 DEF JoinAny
<1>6. CASE JoinDone(f)
  <2>1. client.wait # "join"
    BY <1>6, <1>w DEF JoinDone
  <2> QED
    BY <1>3, <1>4, <1>6, <2>1 DEF JoinDone
<1> QED
  BY <1>5, <1>6

\* The counters of the four clients are right, and no more connections are open than the
\* user has allowed, for every number of files and connections.
THEOREM WebInvariant == WebSpec => []WebInv
<1>1. WebInit => WebInv
  <2> SUFFICES ASSUME WebInit PROVE WebInv
    OBVIOUS
  <2>1. Opened = {} /\ Counted = {}
    BY DEF WebInit, Opened, Counted
  <2>2. Closed = {}
    BY DEF WebInit, Closed
  <2>3. WebTypeOK
    BY DEF WebInit, WebTypeOK
  <2>4. WebCounts
    <3>1. Files \ {} = Files /\ {} \ {} = {}
      OBVIOUS
    <3> QED
      BY <2>1, <2>2, <3>1, FS_EmptySet, WebAssumption DEF WebInit, WebCounts
  <2>5. WebFlags /\ FileIsFound
    BY DEF WebInit, WebFlags, FileIsFound
  <2> QED
    BY <2>3, <2>4, <2>5 DEF WebInv
<1>2. WebInv /\ [WebNext]_webVars => WebInv'
  <2> SUFFICES ASSUME WebInv, [WebNext]_webVars PROVE WebInv'
    OBVIOUS
  <2>1. CASE UNCHANGED webVars
    <3>1. WebCounts'
      BY <2>1, WebSame DEF webVars
    <3>2. WebTypeOK' /\ WebFlags' /\ FileIsFound'
      BY <2>1 DEF webVars, counters, WebInv, WebTypeOK, WebFlags, FileIsFound
    <3> QED
      BY <3>1, <3>2 DEF WebInv
  <2>2. CASE WebNext
    BY <2>2, WebQuiet, WebStart, WebMark, WebLook, WebGetRead, WebCountDone, WebJoin DEF WebNext, webMain, do_get_read
  <2> QED
    BY <2>1, <2>2
<1> QED
  BY <1>1, <1>2, PTL DEF WebSpec

\* WebSound holds for every number of files and connections.
THEOREM WebIsSound == WebSpec => []WebSound
<1>1. WebInv => WebSound
  BY WebImplies DEF WebSound
<1> QED
  BY <1>1, WebInvariant, PTL
=============================================================================
