--------------------------- MODULE ThreadExamples ---------------------------
(***************************************************************************)
(* Programs about threads and mutexes.                                     *)
(*                                                                         *)
(* src/unpv13e/threads: example01.c counts without a lock, example02.c     *)
(* with one, example03.c hands items from a producer to a consumer through *)
(* a ring with two condition variables.                                    *)
(*                                                                         *)
(* src/mudo C++ 网络库/test3.cpp: a thread makes a Request, processes and  *)
(* deletes it while the main thread prints the inventory.                  *)
(* Request::process and ~Request lock the request and then the inventory,  *)
(* printAll the inventory and then each request.                           *)
(*                                                                         *)
(* test5.hpp: the class Mutexlock, whose holder_ says which thread has it, *)
(* with the guard and the condition variable made on top of it.            *)
(***************************************************************************)
EXTENDS Integers, Sequences

CONSTANTS
    TxLoop,     \* NLOOP
    TxSize      \* BUFFSIZE

ASSUME TxAssumption == TxLoop \in Nat \ {0} /\ TxSize \in Nat \ {0}

VARIABLES
    tx,             \* the program: [locks, buffer]
    txAt,           \* where each thread is
    txI,            \* i of each thread
    txVal,          \* val of each thread
    txMutex,        \* who holds the mutex
    txCounter,
    txPrints,       \* how many values doit has printed
    txLast,         \* the value printed last
    txBuf, txNitems, txNextget, txNextput,
    txGot,          \* what consume has returned, in order
    txJoined        \* how many threads main has joined

txRing == <<txBuf, txNitems, txNextget, txNextput, txGot>>
txVars == <<tx, txAt, txI, txVal, txMutex, txCounter, txPrints, txLast, txRing, txJoined>>

\* A is tidA (the producer of example03), B is tidB (the consumer).
TxThread == {"A", "B"}
TxSlot == 0 .. TxSize - 1

example01 == [locks |-> "no", buffer |-> "no"]
example02 == [locks |-> "yes", buffer |-> "no"]
example03 == [locks |-> "yes", buffer |-> "yes"]

TxInit ==
    /\ tx \in {example01, example02, example03}
    /\ txAt = [t \in TxThread |-> "top"]
    /\ txI = [t \in TxThread |-> 0] /\ txVal = [t \in TxThread |-> 0]
    /\ txMutex = "free" /\ txCounter = 0 /\ txPrints = 0 /\ txLast = 0
    /\ txBuf = [s \in TxSlot |-> 0] /\ txNitems = 0 /\ txNextget = 0 /\ txNextput = 0
    /\ txGot = <<>> /\ txJoined = 0

TxGoes(t, from, to) == txAt[t] = from /\ txAt' = [txAt EXCEPT ![t] = to]

\* The head of the for loop, and the lock in it.
TxTop(t) ==
    /\ IF txI[t] < TxLoop THEN TxGoes(t, "top", IF tx.locks = "yes" THEN "lock" ELSE "fetch")
                          ELSE TxGoes(t, "top", "ended")
    /\ UNCHANGED <<tx, txI, txVal, txMutex, txCounter, txPrints, txLast, txRing, txJoined>>

\* Pthread_mutex_lock, also inside pthread_cond_wait when it returns.
TxLock(t) ==
    /\ txMutex = "free" /\ TxGoes(t, "lock", IF tx.buffer = "yes" THEN "test" ELSE "fetch")
    /\ txMutex' = t
    /\ UNCHANGED <<tx, txI, txVal, txCounter, txPrints, txLast, txRing, txJoined>>

\* doit: val = counter.
TxFetch(t) ==
    /\ TxGoes(t, "fetch", "print")
    /\ txVal' = [txVal EXCEPT ![t] = txCounter]
    /\ UNCHANGED <<tx, txI, txMutex, txCounter, txPrints, txLast, txRing, txJoined>>

TxPrint(t) ==
    /\ TxGoes(t, "print", "store")
    /\ txPrints' = txPrints + 1 /\ txLast' = txVal[t] + 1
    /\ UNCHANGED <<tx, txI, txVal, txMutex, txCounter, txRing, txJoined>>

\* counter = val + 1, and i++ of the loop.
TxStore(t) ==
    /\ TxGoes(t, "store", IF tx.locks = "yes" THEN "unlock" ELSE "top")
    /\ txCounter' = txVal[t] + 1
    /\ txI' = [txI EXCEPT ![t] = @ + 1]
    /\ UNCHANGED <<tx, txVal, txMutex, txPrints, txLast, txRing, txJoined>>

TxUnlock(t) ==
    /\ TxGoes(t, "unlock", "top")
    /\ txMutex' = "free"
    /\ UNCHANGED <<tx, txI, txVal, txCounter, txPrints, txLast, txRing, txJoined>>

doit(t) == TxTop(t) \/ TxLock(t) \/ TxFetch(t) \/ TxPrint(t) \/ TxStore(t) \/ TxUnlock(t)

(***************************************************************************)
(* example03.c.                                                            *)
(***************************************************************************)

\* Wait if the buffer is full, or empty.
TxMustWait(t) == IF t = "A" THEN txNitems >= TxSize ELSE txNitems <= 0

\* The while loop of produce and consume: pthread_cond_wait gives the mutex back.
TxTest(t) ==
    /\ IF TxMustWait(t) THEN TxGoes(t, "test", "wait") /\ txMutex' = "free"
                        ELSE TxGoes(t, "test", "move") /\ UNCHANGED txMutex
    /\ UNCHANGED <<tx, txI, txVal, txCounter, txPrints, txLast, txRing, txJoined>>

\* pthread_cond_wait returns without a signal.
TxSpurious(t) ==
    /\ TxGoes(t, "wait", "lock")
    /\ UNCHANGED <<tx, txI, txVal, txMutex, txCounter, txPrints, txLast, txRing, txJoined>>

TxWrap(i) == IF i + 1 >= TxSize THEN 0 ELSE i + 1

\* Pthread_cond_signal: the other thread, if it waits, has to take the mutex again.
TxSignals(t, other) ==
    txAt' = [txAt EXCEPT ![t] = "unlock", ![other] = IF @ = "wait" THEN "lock" ELSE @]

\* produce: i is stored, the consumer is signalled.
produce ==
    /\ txAt["A"] = "move" /\ TxSignals("A", "B")
    /\ txBuf' = [txBuf EXCEPT ![txNextput] = txI["A"]]
    /\ txNextput' = TxWrap(txNextput) /\ txNitems' = txNitems + 1
    /\ txI' = [txI EXCEPT !["A"] = @ + 1]
    /\ UNCHANGED <<tx, txVal, txMutex, txCounter, txPrints, txLast, txNextget, txGot, txJoined>>

\* Mutant: the slot is read after b_nextget has moved on.
consume_late ==
    /\ txAt["B"] = "move" /\ TxSignals("B", "A")
    /\ txNextget' = TxWrap(txNextget) /\ txNitems' = txNitems - 1
    /\ txGot' = Append(txGot, txBuf[TxWrap(txNextget)])
    /\ txI' = [txI EXCEPT !["B"] = @ + 1]
    /\ UNCHANGED <<tx, txVal, txMutex, txCounter, txPrints, txLast, txBuf, txNextput, txJoined>>

\* consume: the oldest item is fetched, the producer is signalled.
consume ==
    /\ txAt["B"] = "move" /\ TxSignals("B", "A")
    /\ txGot' = Append(txGot, txBuf[txNextget])
    /\ txNextget' = TxWrap(txNextget) /\ txNitems' = txNitems - 1
    /\ txI' = [txI EXCEPT !["B"] = @ + 1]
    /\ UNCHANGED <<tx, txVal, txMutex, txCounter, txPrints, txLast, txBuf, txNextput, txJoined>>

(***************************************************************************)
(* main: joins A, then B, and exits.                                       *)
(***************************************************************************)
TxJoin ==
    /\ txJoined < 2
    /\ txAt[IF txJoined = 0 THEN "A" ELSE "B"] = "ended"
    /\ txJoined' = txJoined + 1
    /\ UNCHANGED <<tx, txAt, txI, txVal, txMutex, txCounter, txPrints, txLast, txRing>>

TxStep(t) == doit(t) \/ TxTest(t) \/ (t = "A" /\ produce) \/ (t = "B" /\ consume)

TxNext == TxJoin \/ \E t \in TxThread : TxStep(t) \/ TxSpurious(t)

TxSpec == TxInit /\ [][TxNext]_txVars

(***************************************************************************)
(* Properties.                                                             *)
(***************************************************************************)

\* Every variable keeps its type.
TxTypeOK ==
    /\ tx \in {example01, example02, example03}
    /\ txAt \in [TxThread -> {"top", "lock", "fetch", "print", "store", "unlock", "test", "wait",
                              "move", "ended"}]
    /\ txI \in [TxThread -> Nat] /\ txVal \in [TxThread -> Nat]
    /\ txMutex \in TxThread \cup {"free"}
    /\ txCounter \in Nat /\ txPrints \in Nat /\ txLast \in Nat
    /\ txBuf \in [TxSlot -> Nat] /\ txNitems \in 0 .. TxSize
    /\ txNextget \in TxSlot /\ txNextput \in TxSlot /\ txGot \in Seq(Nat)
    /\ txJoined \in 0 .. 2

\* doit's comment in example02.c, "The value of the counter should increase
\* monotonically": the k-th value printed is k, whoever prints it.
TxMonotonic == tx = example02 => txLast = txPrints

\* The critical sections of example02.c and of example03.c.
TxCritical == {"fetch", "print", "store", "unlock", "test", "move"}

\* When main has joined both threads of example01.c the counter may be anything from 2
\* (1, if NLOOP is 1) to 2 * NLOOP, and no less: a thread can lose the other's
\* increments, but each of them ends with a store of its own.
TxLostButNotAll ==
    tx = example01 /\ txJoined = 2 =>
        /\ txCounter <= 2 * TxLoop
        /\ txCounter >= IF TxLoop = 1 THEN 1 ELSE 2

\* consume returns what produce was given, in that order and once each, though either
\* may wait and wake without reason between its test and its turn.
TxInOrder == \A k \in DOMAIN txGot : txGot[k] = k - 1

\* How far slot i is ahead of b_nextget.
TxAhead(i) == IF i >= txNextget THEN i - txNextget ELSE i - txNextget + TxSize

\* The critical section belongs to the holder of the mutex, and whoever is about to
\* move an item has found that it may.
TxExcluded ==
    /\ tx.locks = "yes" => \A t \in TxThread : txAt[t] \in TxCritical <=> txMutex = t
    /\ tx.buffer = "yes" => \A t \in TxThread : txAt[t] \notin {"fetch", "print", "store"}
    /\ tx.buffer = "no" => \A t \in TxThread : txAt[t] \notin {"test", "wait", "move"}
    /\ \A t \in TxThread : txAt[t] = "move" => ~TxMustWait(t)

\* example02.c: the counter has every increment, and val is the counter until stored.
TxCounted ==
    /\ txCounter = txI["A"] + txI["B"]
    /\ \A t \in TxThread : txAt[t] \in {"print", "store"} => txVal[t] = txCounter
    /\ txPrints = txCounter + IF \E t \in TxThread : txAt[t] = "store" THEN 1 ELSE 0

\* example03.c: the b_nitems slots from b_nextget on hold the items not yet consumed.
TxFilled ==
    /\ txNitems = txI["A"] - txI["B"] /\ Len(txGot) = txI["B"]
    /\ txNextput = IF txNextget + txNitems >= TxSize THEN txNextget + txNitems - TxSize
                                                     ELSE txNextget + txNitems
    /\ \A i \in TxSlot : TxAhead(i) < txNitems => txBuf[i] = txI["B"] + TxAhead(i)

\* The inductive invariant of the two programs that lock: no increment and no item is
\* lost, whatever the order in which the threads take the mutex and wake.
TxInv ==
    /\ TxTypeOK /\ TxExcluded /\ TxMonotonic /\ TxInOrder
    /\ tx = example02 => TxCounted
    /\ tx = example03 => TxFilled

\* example01.c: a value fetched is at most the increments begun, and not 0 once the thread
\* has stored; the second store of a thread, and every later one, leaves 2 or more.
TxRaced ==
    /\ \A t \in TxThread :
          /\ txAt[t] \in {"top", "fetch", "print", "store", "ended"}
          /\ txI[t] <= TxLoop
          /\ txAt[t] \in {"fetch", "print", "store"} => txI[t] < TxLoop
          /\ txAt[t] = "ended" => txI[t] = TxLoop
          /\ txI[t] >= 1 => txCounter >= 1
          /\ txAt[t] \in {"print", "store"} =>
                txVal[t] <= txI["A"] + txI["B"] /\ (txI[t] >= 1 => txVal[t] >= 1)
    /\ txCounter <= txI["A"] + txI["B"]
    /\ txCounter >= 2 \/ \E t \in TxThread : txI[t] <= 1
    /\ txJoined >= 1 => txAt["A"] = "ended"
    /\ txJoined = 2 => txAt["B"] = "ended"

\* main gets past both joins: no thread waits for a signal that has gone by.
TxEnds == <>(txJoined = 2)

\* The three programs: TxInv for the two that lock, TxLostButNotAll for the one that does
\* not, with the invariant it follows from.
TxSound == TxInv /\ TxLostButNotAll /\ (tx = example01 => TxRaced)

(***************************************************************************)
(* test3.cpp: the inventory.                                               *)
(***************************************************************************)
VARIABLES
    invLock,    \* who holds Inventory::mutex_: "main", "thread", "none"
    reqLock,    \* who holds Request::mutex_
    invSet,     \* request_, of the requests {"req"}
    reqLife,    \* "none", "alive", "freed"
    invMain,    \* where main is
    invThread,  \* where threadFunc is
    invCopy     \* what the iteration of printAll has still to visit

invVars == <<invLock, reqLock, invSet, reqLife, invMain, invThread, invCopy>>

InvInit ==
    /\ invLock = "none" /\ reqLock = "none" /\ invSet = {} /\ reqLife = "none"
    /\ invMain = "start" /\ invThread = "new" /\ invCopy = {}

InvThreadGoes(from, to) ==
    invThread = from /\ invThread' = to /\ UNCHANGED <<invMain, invCopy>>

\* Request *req = new Request.
NewRequest ==
    /\ InvThreadGoes("new", "process") /\ reqLife' = "alive"
    /\ UNCHANGED <<invLock, reqLock, invSet>>

\* The guard of process and of ~Request.
LockRequest ==
    /\ reqLock = "none" /\ reqLock' = "thread"
    /\ \/ InvThreadGoes("process", "add")
       \/ InvThreadGoes("delete", "remove")
    /\ UNCHANGED <<invLock, invSet, reqLife>>

\* Inventory::add: the guard, the insertion and the end of both guards.
add ==
    /\ invLock = "none" /\ InvThreadGoes("add", "delete")
    /\ invSet' = invSet \cup {"req"} /\ reqLock' = "none"
    /\ UNCHANGED <<invLock, reqLife>>

\* Inventory::remove, called by ~Request after its sleep.
remove ==
    /\ invLock = "none" /\ InvThreadGoes("remove", "free")
    /\ invSet' = invSet \ {"req"} /\ reqLock' = "none"
    /\ UNCHANGED <<invLock, reqLife>>

FreeRequest ==
    /\ InvThreadGoes("free", "end") /\ reqLife' = "freed"
    /\ UNCHANGED <<invLock, reqLock, invSet>>

InvMainGoes(from, to) ==
    invMain = from /\ invMain' = to /\ UNCHANGED <<invThread, reqLife, invSet>>

\* Mutant: the set is copied in the critical section and printed outside of it, as the
\* comment in printAll proposes.
printAll_copy ==
    /\ invLock = "none" /\ InvMainGoes("start", "print")
    /\ invCopy' = invSet /\ UNCHANGED <<invLock, reqLock>>

printAll ==
    /\ invLock = "none" /\ InvMainGoes("start", "print")
    /\ invLock' = "main" /\ invCopy' = invSet /\ UNCHANGED reqLock

\* Request::print: the guard is taken and given back.
print ==
    /\ invCopy # {} /\ reqLock = "none" /\ InvMainGoes("print", "print")
    /\ invCopy' = {} /\ UNCHANGED <<invLock, reqLock>>

printAll_ends ==
    /\ invCopy = {} /\ InvMainGoes("print", "join")
    /\ invLock' = "none" /\ UNCHANGED <<invCopy, reqLock>>

joinThread ==
    /\ invThread = "end" /\ InvMainGoes("join", "end")
    /\ UNCHANGED <<invCopy, invLock, reqLock>>

InvThreadStep == NewRequest \/ LockRequest \/ add \/ remove \/ FreeRequest
InvMainStep == printAll \/ print \/ printAll_ends \/ joinThread
InvNext == InvThreadStep \/ InvMainStep
InvSpec == InvInit /\ [][InvNext]_invVars

(***************************************************************************)
(* test5.hpp: threads that use a Mutexlock and a Condition of it.          *)
(***************************************************************************)
CONSTANT MtxThread

\* 0 stands for no thread.
ASSUME MtxAssumption == 0 \notin MtxThread

VARIABLES
    mtxOwner,   \* the thread that has mutex_, 0 for none
    mtxHolder,  \* holder_
    mtxAt,      \* per thread: "out", "locked" (before holder_ is set), "in",
                \* "unlocking" (holder_ cleared), "waiting", "woken"
    mtxWaited   \* the threads whose wait has returned since they locked

mtxVars == <<mtxOwner, mtxHolder, mtxAt, mtxWaited>>

MtxInit ==
    /\ mtxOwner = 0 /\ mtxHolder = 0
    /\ mtxAt = [t \in MtxThread |-> "out"] /\ mtxWaited = {}

MtxGoes(t, from, to) == mtxAt[t] = from /\ mtxAt' = [mtxAt EXCEPT ![t] = to]

\* lock: pthread_mutex_lock, and then holder_.
lock(t) ==
    \/ /\ mtxOwner = 0 /\ MtxGoes(t, "out", "locked") /\ mtxOwner' = t
       /\ UNCHANGED <<mtxHolder, mtxWaited>>
    \/ /\ MtxGoes(t, "locked", "in") /\ mtxHolder' = t
       /\ UNCHANGED <<mtxOwner, mtxWaited>>

unlock(t) ==
    \/ /\ MtxGoes(t, "in", "unlocking") /\ mtxHolder' = 0 /\ UNCHANGED <<mtxOwner, mtxWaited>>
    \/ /\ MtxGoes(t, "unlocking", "out") /\ mtxOwner' = 0
       /\ mtxWaited' = mtxWaited \ {t} /\ UNCHANGED mtxHolder

\* Condition::wait releases the mutex and takes it again, behind holder_'s back.
wait(t) ==
    /\ MtxGoes(t, "in", "waiting") /\ mtxOwner' = 0
    /\ UNCHANGED <<mtxHolder, mtxWaited>>

MtxWakes(t) ==
    /\ mtxOwner = 0 /\ MtxGoes(t, "woken", "in") /\ mtxOwner' = t
    /\ mtxWaited' = mtxWaited \cup {t} /\ UNCHANGED mtxHolder

\* notify wakes one, notifyAll all that wait; also called without the mutex.
notify == \E t \in MtxThread : MtxGoes(t, "waiting", "woken") /\ UNCHANGED <<mtxOwner, mtxHolder, mtxWaited>>
notifyAll ==
    /\ \E t \in MtxThread : mtxAt[t] = "waiting"
    /\ mtxAt' = [t \in MtxThread |-> IF mtxAt[t] = "waiting" THEN "woken" ELSE mtxAt[t]]
    /\ UNCHANGED <<mtxOwner, mtxHolder, mtxWaited>>

MtxNext ==
    \/ \E t \in MtxThread : lock(t) \/ unlock(t) \/ wait(t) \/ MtxWakes(t)
    \/ notify \/ notifyAll
MtxSpec == MtxInit /\ [][MtxNext]_mtxVars

isLockedByThisThread(t) == mtxHolder = t

(***************************************************************************)
(* Properties.                                                             *)
(***************************************************************************)

\* printAll never prints a Request that has been deleted: ~Request cannot take it out
\* of the inventory while printAll holds the inventory's mutex.
PrintsLiveRequest == invMain = "print" /\ invCopy # {} => reqLife = "alive"

\* Each holds what the other waits for.
LockedCrosswise == invLock = "main" /\ invCopy # {} /\ reqLock = "thread" /\ invThread = "remove"

\* Both threads come to their end, unless ~Request has locked the request and printAll
\* the inventory with the request in it: the one deadlock the two lock orders leave.
InventoryEnds == <>(invMain = "end" \/ LockedCrosswise)

\* Outside of Condition::wait, which leaves holder_ alone, isLockedByThisThread is true
\* only for the thread that has the mutex.
HolderHasMutex ==
    \A t \in MtxThread :
        isLockedByThisThread(t) /\ mtxAt[t] \notin {"waiting", "woken"} => mtxOwner = t

\* A thread in its critical section is the one holder_ names, until it has waited.
OwnerIsHolder ==
    \A t \in MtxThread : mtxAt[t] = "in" /\ t \notin mtxWaited => isLockedByThisThread(t)

\* The inductive invariant of the inventory program: who holds which mutex where, and what
\* printAll has still to visit is in the inventory.
InventoryInv ==
    /\ invMain \in {"start", "print", "join", "end"}
    /\ invThread \in {"new", "process", "add", "delete", "remove", "free", "end"}
    /\ reqLock = IF invThread \in {"add", "remove"} THEN "thread" ELSE "none"
    /\ invLock = IF invMain = "print" THEN "main" ELSE "none"
    /\ reqLife = IF invThread = "new" THEN "none" ELSE IF invThread = "end" THEN "freed" ELSE "alive"
    /\ invSet = IF invThread \in {"delete", "remove"} THEN {"req"} ELSE {}
    /\ invCopy \subseteq invSet /\ (invMain # "print" => invCopy = {})

\* The inductive invariant of Mutexlock: who has mutex_, and who is not in holder_.
MutexlockInv ==
    /\ mtxAt \in [MtxThread -> {"out", "locked", "in", "unlocking", "waiting", "woken"}]
    /\ \A t \in MtxThread :
          /\ mtxOwner = t <=> mtxAt[t] \in {"locked", "in", "unlocking"}
          /\ mtxAt[t] \in {"out", "locked", "unlocking"} => mtxHolder # t
    /\ OwnerIsHolder

\* What the mutexes protect: PrintsLiveRequest in the inventory program, HolderHasMutex and
\* OwnerIsHolder in MutexLock.
LockSound == InventoryInv /\ PrintsLiveRequest /\ MutexlockInv /\ HolderHasMutex
=============================================================================
