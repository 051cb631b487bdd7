--------------------------- MODULE WorkerProofs -----------------------------
(***************************************************************************)
(* Proofs about the TCP servers with workers: serv08's ring, the pools of  *)
(* workers, the servers that wait in accept, and serv05, which passes      *)
(* descriptors to its children.                                            *)
(***************************************************************************)
EXTENDS MCServers, TLAPS

(***************************************************************************)
(* Proofs about the ring of serv08.c, for every size of the ring, every    *)
(* pool of threads and every number of connections.                        *)
(***************************************************************************)

\* The state relations of RingInv that no type covers.
RingRest ==
    /\ mutex = "main" <=> mainAt \in {"store", "advance"}
    /\ \A t \in Pool : mutex = t <=> thread[t] \in {"test", "advance"}
    /\ \A t \in Pool : thread[t] = "advance" => InRing >= 1 /\ Len(taken) >= 1
    /\ mainAt # "accept" => accepted >= 1
    /\ process = "full" => mainAt = "advance"

\* The contents of the ring.
Contents ==
    /\ process # "full" => iput = IF iget + InRing >= MAXNCLI THEN iget + InRing - MAXNCLI ELSE iget + InRing
    /\ process # "full" => \A i \in RingSlot : RingAhead(i) < InRing => clifd[i] = Removed + RingAhead(i) + 1
    /\ process # "full" /\ mainAt = "advance" => clifd[iput] = accepted

\* RingInv in the parts the steps treat separately.
LEMMA RingParts == RingInv <=> RingTypeOK /\ TakenInOrder /\ QuitsOnlyWhenFull /\ RingRest /\ Contents
BY DEF RingInv, RingRest, Contents

\* The server starts with an empty ring and a free mutex.
LEMMA RingInitInv == RingInit => RingInv
<1> SUFFICES ASSUME RingInit PROVE RingInv
  OBVIOUS
<1> USE RingAssumption
<1>1. RingTypeOK /\ TakenInOrder
  BY DEF RingInit, RingTypeOK, TakenInOrder, RingSlot
<1>2. Removed = 0 /\ Stored = 0 /\ InRing = 0
  BY DEF RingInit, Removed, Stored, InRing
<1>3. RingRest
  BY <1>2 DEF RingInit, RingRest
<1>4. Contents
  BY <1>2 DEF RingInit, Contents, RingSlot, RingAhead
<1> QED
  BY <1>1, <1>2, <1>3, <1>4, RingParts DEF RingInit, QuitsOnlyWhenFull

\* Steps that leave the ring, and what is counted in it, alone.
LEMMA RingUntouched ==
    ASSUME RingInv, RingTypeOK', UNCHANGED <<ringState, taken>>,
           Stored' = Stored, Removed' = Removed, process' = "full" <=> process = "full",
           process' # "full" /\ mainAt' = "advance" => clifd[iput] = accepted'
    PROVE  TakenInOrder' /\ QuitsOnlyWhenFull' /\ Contents' /\ InRing' = InRing
<1>1. InRing' = InRing
  BY DEF InRing
<1>2. TakenInOrder' /\ QuitsOnlyWhenFull'
  BY <1>1 DEF RingInv, TakenInOrder, QuitsOnlyWhenFull
<1>3. \A i \in RingSlot : RingAhead(i)' = RingAhead(i)
  BY DEF RingAhead, ringState
<1>4. Contents'
  BY <1>1, <1>3 DEF RingInv, Contents, ringState
<1> QED
  BY <1>1, <1>2, <1>4

\* main: accept, lock, store.
LEMMA MainStep == RingInv /\ process = "up" /\ (AcceptOne \/ MainLock \/ Store) => RingInv'
<1> SUFFICES ASSUME RingInv, process = "up", AcceptOne \/ MainLock \/ Store PROVE RingInv'
  OBVIOUS
<1> USE RingAssumption
<1>0. RingTypeOK /\ RingRest /\ Contents /\ QuitsOnlyWhenFull /\ TakenInOrder
  BY RingParts
<1>1. CASE AcceptOne
  <2>1. RingTypeOK'
    BY <1>0, <1>1 DEF AcceptOne, RingTypeOK, ringState, RingSlot
  <2>2. Stored' = Stored /\ Removed' = Removed
    BY <1>0, <1>1 DEF AcceptOne, Stored, Removed, RingTypeOK, ringState
  <2>3. TakenInOrder' /\ QuitsOnlyWhenFull' /\ Contents' /\ InRing' = InRing
    BY <2>1, <2>2, <1>1, RingUntouched DEF AcceptOne
  <2>4. RingRest'
    BY <2>3, <1>0, <1>1 DEF AcceptOne, RingRest, RingTypeOK
  <2> QED
    BY <2>1, <2>3, <2>4, RingParts DEF RingInv, RingRest, Contents
<1>2. CASE MainLock
  <2>1. RingTypeOK'
    BY <1>0, <1>2 DEF MainLock, RingTypeOK, ringState, RingSlot
  <2>2. Stored' = Stored /\ Removed' = Removed
    BY <1>0, <1>2 DEF MainLock, Stored, Removed, RingTypeOK, ringState
  <2>3. TakenInOrder' /\ QuitsOnlyWhenFull' /\ Contents' /\ InRing' = InRing
    BY <2>1, <2>2, <1>2, RingUntouched DEF MainLock
  <2>4. RingRest'
    BY <2>3, <1>0, <1>2 DEF MainLock, RingRest, RingTypeOK
  <2> QED
    BY <2>1, <2>3, <2>4, RingParts DEF RingInv, RingRest, Contents
<1>3. CASE Store
  <2>1. RingTypeOK'
    BY <1>0, <1>3 DEF Store, RingTypeOK, RingSlot
  <2>2. Stored' = Stored /\ Removed' = Removed /\ InRing' = InRing
    BY <1>0, <1>3 DEF Store, Stored, Removed, InRing, RingTypeOK
  <2>3. TakenInOrder' /\ QuitsOnlyWhenFull'
    BY <2>2, <1>0, <1>3 DEF Store, TakenInOrder, QuitsOnlyWhenFull
  <2>4. RingRest'
    BY <2>2, <1>0, <1>3 DEF Store, RingRest, RingTypeOK
  <2>5. InRing \in 0 .. MAXNCLI - 1 /\ Removed \in Int
    BY <1>0 DEF QuitsOnlyWhenFull, Removed, RingTypeOK
  <2>6. \A i \in RingSlot : RingAhead(i)' = RingAhead(i) /\ (RingAhead(i) < InRing => i # iput)
    BY <2>5, <1>0, <1>3 DEF Store, RingAhead, RingSlot, RingTypeOK, Contents
  <2>7. Contents'
    BY <2>2, <2>6, <1>0, <1>3 DEF Store, Contents, RingTypeOK, RingSlot
  <2> QED
    BY <2>1, <2>3, <2>4, <2>7 DEF RingInv, RingRest, Contents
<1> QED
  BY <1>1, <1>2, <1>3

\* main moves iput on: the ring has room for MAXNCLI - 1 connections, or the process ends.
LEMMA AdvanceMainStep == RingInv /\ process = "up" /\ AdvanceMain => RingInv'
<1> SUFFICES ASSUME RingInv, process = "up", AdvanceMain PROVE RingInv'
  OBVIOUS
<1> USE RingAssumption
<1>0. RingTypeOK /\ RingRest /\ Contents /\ QuitsOnlyWhenFull /\ TakenInOrder
  BY RingParts
<1>1. mainAt = "advance" /\ accepted \in Nat \ {0} /\ mutex = "main"
  BY <1>0 DEF AdvanceMain, RingRest, RingTypeOK
<1>2. \A t \in Pool : thread[t] \notin {"test", "advance"} /\ thread'[t] \notin {"test", "advance"}
  BY <1>0, <1>1 DEF AdvanceMain, Signal, RingRest, RingTypeOK
<1>3. RingTypeOK'
  BY <1>0, <1>1 DEF AdvanceMain, Signal, NextSlot, RingTypeOK, RingSlot
<1>4. Removed = Len(taken) /\ Removed' = Removed /\ Removed \in Nat
  BY <1>0, <1>2 DEF Removed, AdvanceMain, RingTypeOK
<1>5. Stored = accepted - 1 /\ Stored' = accepted
  BY <1>1 DEF Stored, AdvanceMain
<1>6. InRing \in 0 .. MAXNCLI - 1 /\ InRing' = InRing + 1
  BY <1>0, <1>1, <1>4, <1>5 DEF InRing, QuitsOnlyWhenFull
<1>7. iput = IF iget + InRing >= MAXNCLI THEN iget + InRing - MAXNCLI ELSE iget + InRing
  BY <1>0 DEF Contents
<1>8. iput' = iget <=> InRing + 1 = MAXNCLI
  BY <1>0, <1>6, <1>7 DEF AdvanceMain, NextSlot, RingTypeOK, RingSlot
<1>9. TakenInOrder' /\ QuitsOnlyWhenFull'
  BY <1>0, <1>6, <1>8 DEF AdvanceMain, TakenInOrder, QuitsOnlyWhenFull
<1>10. RingRest'
  <2>1. iput' = iget => RingRest'
    BY <1>0, <1>1, <1>2 DEF AdvanceMain, RingRest
  <2>2. iput' # iget => RingRest'
    BY <1>0, <1>1, <1>2 DEF AdvanceMain, RingRest, RingTypeOK
  <2> QED
    BY <2>1, <2>2
<1>11. Contents'
  <2>1. CASE iput' = iget
    BY <2>1 DEF AdvanceMain, Contents
  <2>2. CASE iput' # iget
    <3>1. mainAt' = "accept" /\ process' = "up" /\ InRing + 1 < MAXNCLI
      BY <2>2, <1>6, <1>8 DEF AdvanceMain
    <3>2. iput' = IF iget + InRing + 1 >= MAXNCLI THEN iget + InRing + 1 - MAXNCLI ELSE iget + InRing + 1
      BY <3>1, <1>0, <1>6, <1>7 DEF AdvanceMain, NextSlot, RingTypeOK, RingSlot
    <3>3. RingAhead(iput) = InRing
      BY <1>0, <1>6, <1>7 DEF RingAhead, RingTypeOK, RingSlot
    <3>4. \A i \in RingSlot : RingAhead(i) = InRing => i = iput
      BY <1>0, <1>6, <1>7 DEF RingAhead, RingTypeOK, RingSlot
    <3>5. \A i \in RingSlot : RingAhead(i)' = RingAhead(i) /\ RingAhead(i) \in Nat
      BY <1>0 DEF AdvanceMain, RingAhead, RingTypeOK, RingSlot
    <3>6. accepted = Removed + InRing + 1
      BY <1>1, <1>4, <1>5 DEF InRing
    <3>7. \A i \in RingSlot : RingAhead(i) < InRing + 1 => clifd[i] = Removed + RingAhead(i) + 1
      BY <1>0, <1>1, <1>4, <1>6, <3>4, <3>5, <3>6 DEF Contents
    <3>8. clifd' = clifd /\ iget' = iget
      BY DEF AdvanceMain
    <3>9. \A i \in RingSlot : RingAhead(i)' < InRing' => clifd'[i] = Removed' + RingAhead(i)' + 1
      BY <3>5, <3>7, <3>8, <1>4, <1>6
    <3>10. iput' = IF iget' + InRing' >= MAXNCLI THEN iget' + InRing' - MAXNCLI ELSE iget' + InRing'
      BY <3>2, <3>8, <1>0, <1>6 DEF RingTypeOK, RingSlot
    <3> QED
      BY <3>1, <3>9, <3>10 DEF Contents
  <2> QED
    BY <2>1, <2>2
<1> QED
  BY <1>3, <1>9, <1>10, <1>11 DEF RingInv, RingRest, Contents

\* A thread takes the mutex, waits for an entry, serves, or wakes up without a signal.
LEMMA ThreadQuietStep ==
    ASSUME RingInv, process = "up", NEW t \in Pool,
           \/ ThreadLock(t) \/ Serve(t) \/ Spurious(t)
           \/ Test(t) /\ iget = iput
    PROVE  RingInv'
<1> USE RingAssumption
<1>0. RingTypeOK /\ RingRest /\ Contents /\ QuitsOnlyWhenFull /\ TakenInOrder
  BY RingParts
<1>1. RingTypeOK'
  <2>1. CASE ThreadLock(t)
    BY <1>0, <2>1 DEF ThreadLock, RingTypeOK, ringState
  <2>2. CASE Serve(t)
    <3>1. process' \in {"up", "full", "request"}
      BY <1>0, <2>2 DEF Serve, RingTypeOK
    <3>0. connfd' = connfd \/ connfd' = [connfd EXCEPT ![t] = 0]
      BY <2>2 DEF Serve
    <3>3. connfd \in [Pool -> Nat] /\ 0 \in Nat
      BY <1>0 DEF RingTypeOK
    <3>4. connfd' \in [Pool -> Nat]
      BY <3>0, <3>3
    <3>2. thread' \in [Pool -> {"lock", "test", "wait", "woken", "advance", "serve"}]
      BY <1>0, <2>2, Zenon DEF Serve, RingTypeOK
    <3> QED
      BY <1>0, <2>2, <3>1, <3>2, <3>4 DEF Serve, RingTypeOK, ringState
  <2>3. CASE Spurious(t)
    BY <1>0, <2>3 DEF Spurious, RingTypeOK, ringState
  <2>4. CASE Test(t) /\ iget = iput
    BY <1>0, <2>4 DEF Test, RingTypeOK, ringState
  <2> QED
    BY <2>1, <2>2, <2>3, <2>4
<1>2. /\ UNCHANGED <<ringState, taken, mainAt, accepted>>
      /\ process' # "full"
      /\ \A u \in Pool : thread'[u] = "advance" <=> thread[u] = "advance"
  BY <1>0 DEF ThreadLock, Serve, Spurious, Test, RingTypeOK
<1>3. Stored' = Stored /\ Removed' = Removed
  BY <1>2 DEF Stored, Removed
<1>4. TakenInOrder' /\ QuitsOnlyWhenFull' /\ Contents' /\ InRing' = InRing
  BY <1>0, <1>1, <1>2, <1>3, RingUntouched DEF Contents
<1>5. /\ mutex' = "main" <=> mainAt' \in {"store", "advance"}
      /\ \A u \in Pool : mutex' = u <=> thread'[u] \in {"test", "advance"}
  BY <1>0 DEF ThreadLock, Serve, Spurious, Test, RingTypeOK, RingRest
<1>6. RingRest'
  BY <1>0, <1>2, <1>4, <1>5 DEF RingRest
<1> QED
  BY <1>1, <1>4, <1>6 DEF RingInv, RingRest, Contents

\* A thread reads the entry at iget: it is the next connection in order.
LEMMA TestStep ==
    ASSUME RingInv, process = "up", NEW t \in Pool, Test(t), iget # iput
    PROVE  RingInv'
<1> USE RingAssumption
<1>0. RingTypeOK /\ RingRest /\ Contents /\ QuitsOnlyWhenFull /\ TakenInOrder
  BY RingParts
<1>1. thread[t] = "test" /\ mutex = t
  BY <1>0 DEF Test, RingRest
<1>2. \A u \in Pool : thread[u] # "advance"
  BY <1>0, <1>1 DEF RingRest
<1>3. Removed = Len(taken) /\ InRing \in 0 .. MAXNCLI - 1
  BY <1>0, <1>2 DEF Removed, QuitsOnlyWhenFull
<1>4. InRing >= 1
  BY <1>0, <1>3 DEF Contents, RingTypeOK, RingSlot
<1>5. clifd[iget] = Len(taken) + 1
  <2>1. iget \in RingSlot /\ RingAhead(iget) = 0
    BY <1>0 DEF RingAhead, RingTypeOK, RingSlot
  <2> QED
    BY <2>1, <1>0, <1>3, <1>4 DEF Contents, RingTypeOK
<1>6. /\ taken' = Append(taken, clifd[iget]) /\ thread' = [thread EXCEPT ![t] = "advance"]
      /\ UNCHANGED <<clifd, iget, iput, mutex, mainAt, accepted, process>>
  BY DEF Test, ringState
<1>7. RingTypeOK'
  <2>1. clifd[iget] \in Nat /\ connfd' = [connfd EXCEPT ![t] = clifd[iget]]
    BY <1>0 DEF Test, RingTypeOK
  <2> QED
    BY <1>0, <1>6, <2>1 DEF RingTypeOK
<1>8. Len(taken') = Len(taken) + 1 /\ TakenInOrder'
  BY <1>0, <1>5, <1>6 DEF TakenInOrder, RingTypeOK
<1>9. Removed' = Removed /\ Stored' = Stored /\ InRing' = InRing
  <2>1. thread'[t] = "advance"
    BY <1>0, <1>6 DEF RingTypeOK
  <2>2. Removed' = Removed
    BY <2>1, <1>0, <1>3, <1>8 DEF Removed, RingTypeOK
  <2> QED
    BY <2>2, <1>6 DEF Stored, InRing
<1>10. QuitsOnlyWhenFull'
  BY <1>0, <1>6, <1>9 DEF QuitsOnlyWhenFull
<1>11. RingRest'
  BY <1>0, <1>1, <1>4, <1>6, <1>8, <1>9 DEF RingRest, RingTypeOK
<1>12. \A i \in RingSlot : RingAhead(i)' = RingAhead(i)
  BY <1>6 DEF RingAhead
<1>13. Contents'
  BY <1>0, <1>6, <1>9, <1>12 DEF Contents
<1> QED
  BY <1>7, <1>8, <1>10, <1>11, <1>13 DEF RingInv, RingRest, Contents

\* A thread moves iget on: the slot is free again.
LEMMA AdvanceThreadStep ==
    ASSUME RingInv, process = "up", NEW t \in Pool, AdvanceThread(t)
    PROVE  RingInv'
<1> USE RingAssumption
<1>0. RingTypeOK /\ RingRest /\ Contents /\ QuitsOnlyWhenFull /\ TakenInOrder
  BY RingParts
<1>1. thread[t] = "advance" /\ mutex = t /\ mainAt \notin {"store", "advance"}
  BY <1>0 DEF AdvanceThread, RingRest
<1>2. \A u \in Pool : u # t => thread[u] \notin {"test", "advance"}
  BY <1>0, <1>1 DEF RingRest
<1>3. InRing \in 1 .. MAXNCLI - 1 /\ Removed = Len(taken) - 1 /\ Len(taken) \in Nat \ {0}
  BY <1>0, <1>1 DEF RingRest, QuitsOnlyWhenFull, Removed, RingTypeOK
<1>4. RingTypeOK'
  BY <1>0 DEF AdvanceThread, NextSlot, RingTypeOK, RingSlot
<1>5. \A u \in Pool : thread'[u] \notin {"test", "advance"}
  BY <1>0, <1>2 DEF AdvanceThread, RingTypeOK
<1>6. Removed' = Removed + 1 /\ Stored' = Stored /\ Stored \in Int
  BY <1>0, <1>3, <1>5 DEF AdvanceThread, Removed, Stored, RingTypeOK
<1>7. InRing' = InRing - 1
  BY <1>3, <1>6 DEF InRing
<1>8. TakenInOrder' /\ QuitsOnlyWhenFull'
  BY <1>0, <1>3, <1>7 DEF AdvanceThread, TakenInOrder, QuitsOnlyWhenFull
<1>9. RingRest'
  BY <1>0, <1>1, <1>5 DEF AdvanceThread, RingRest
<1>10. iput = IF iget + InRing >= MAXNCLI THEN iget + InRing - MAXNCLI ELSE iget + InRing
  BY <1>0 DEF Contents
<1>11. iput' = IF iget' + InRing' >= MAXNCLI THEN iget' + InRing' - MAXNCLI ELSE iget' + InRing'
  BY <1>0, <1>3, <1>7, <1>10 DEF AdvanceThread, NextSlot, RingTypeOK, RingSlot
<1>12. \A i \in RingSlot : RingAhead(i)' < InRing' => RingAhead(i) = RingAhead(i)' + 1
  BY <1>0, <1>3, <1>7 DEF AdvanceThread, NextSlot, RingAhead, RingTypeOK, RingSlot
<1>13. \A i \in RingSlot : RingAhead(i)' \in Int
  BY <1>4 DEF RingAhead, RingTypeOK, RingSlot
<1>14. \A i \in RingSlot : RingAhead(i)' < InRing' => clifd'[i] = Removed' + RingAhead(i)' + 1
  BY <1>0, <1>3, <1>6, <1>7, <1>12, <1>13 DEF AdvanceThread, Contents
<1>15. Contents'
  BY <1>1, <1>11, <1>14 DEF AdvanceThread, Contents
<1> QED
  BY <1>4, <1>8, <1>9, <1>15 DEF RingInv, RingRest, Contents

\* RingInv holds in every state of serv08.
THEOREM RingInvariant == RingSpec => []RingInv
<1>1. RingInv /\ [RingNext]_ringVars => RingInv'
  <2> SUFFICES ASSUME RingInv, [RingNext]_ringVars PROVE RingInv'
    OBVIOUS
  <2>1. CASE main08
    BY <2>1, MainStep, AdvanceMainStep DEF main08
  <2>2. ASSUME NEW t \in Pool, thread_main(t) \/ (process = "up" /\ Spurious(t)) PROVE RingInv'
    BY <2>2, ThreadQuietStep, TestStep, AdvanceThreadStep DEF thread_main
  <2>3. CASE UNCHANGED ringVars
    <3>1. RingTypeOK' /\ TakenInOrder' /\ QuitsOnlyWhenFull' /\ InRing' = InRing /\ Removed' = Removed
      BY <2>3, Zenon DEF ringVars, ringState, RingInv, RingTypeOK, TakenInOrder, QuitsOnlyWhenFull, InRing, Stored, Removed
    <3>2. \A i \in RingSlot : RingAhead(i)' = RingAhead(i)
      BY <2>3 DEF ringVars, ringState, RingAhead
    <3> QED
      BY <2>3, <3>1, <3>2 DEF ringVars, ringState, RingInv
  <2> QED
    BY <2>1, <2>2, <2>3 DEF RingNext
<1> QED
  BY <1>1, RingInitInv, PTL DEF RingSpec

\* serv08 hands every connection to one thread, in the order of acceptance.
THEOREM RingTakenInOrder == RingSpec => []TakenInOrder
<1>1. RingInv => TakenInOrder
  BY DEF RingInv
<1> QED
  BY <1>1, RingInvariant, PTL

\* err_quit of serv08's main is reached exactly when MAXNCLI connections are in the ring.
THEOREM RingQuitsOnlyWhenFull == RingSpec => []QuitsOnlyWhenFull
<1>1. RingInv => QuitsOnlyWhenFull
  BY DEF RingInv
<1> QED
  BY <1>1, RingInvariant, PTL

(***************************************************************************)
(* Proofs about the servers that make their workers beforehand, for every  *)
(* number of workers and connections.                                      *)
(***************************************************************************)

\* Where a worker goes.
LEMMA PoolGoes == Top \in {"lock", "select", "accept"} /\ AfterAccept \in {"unlock", "count"}
BY DEF Top, AfterAccept

\* The types, and what a worker has counted.
LEMMA PoolTypeStep ==
    ASSUME PoolInv, [PoolNext]_poolVars
    PROVE  PoolTypeOK' /\ (\A i \in W : at[i] \in {"unlock", "count"} => meter[i] < acc)'
<1> USE PoolAssumption, PoolGoes
<1>0. PoolTypeOK /\ \A i \in W : at[i] \in {"unlock", "count"} => meter[i] < acc
  BY DEF PoolInv
<1>a. acc \in Nat /\ est \in Nat /\ acc <= est /\ est <= MaxEst /\ MaxEst \in Nat
  BY <1>0 DEF PoolTypeOK
<1>1. CASE PeerConnects \/ PeerEnds
  <2>1. acc' = acc /\ meter' = meter /\ serving' = serving /\ pool' = pool
    BY <1>1 DEF PeerConnects, PeerEnds, parentVars, workerVars
  <2>2. \A j \in W : at'[j] \in {"unlock", "count"} => at[j] \in {"unlock", "count"}
    BY <1>0, <1>1 DEF PeerConnects, PeerEnds, parentVars, workerVars, PoolTypeOK
  <2>3. PoolTypeOK'
    <3>1. CASE PeerConnects
      <4>1. est' \in 0 .. MaxEst /\ acc' \in 0 .. est'
        BY <3>1, <1>a, <2>1 DEF PeerConnects
      <4>2. peers' \in [K -> {"none", "open", "fin", "bad"}]
        BY <3>1, <1>0, Zenon DEF PeerConnects, PoolTypeOK
      <4> QED
        BY <3>1, <4>1, <4>2, <1>0, <2>1 DEF PeerConnects, PoolTypeOK, parentVars, workerVars
    <3>2. CASE PeerEnds
      <4>2. peers' \in [K -> {"none", "open", "fin", "bad"}]
        BY <3>2, <1>0 DEF PeerEnds, PoolTypeOK
      <4> QED
        BY <3>2, <4>2, <1>0, <2>1 DEF PeerEnds, PoolTypeOK, parentVars, workerVars
    <3> QED
      BY <1>1, <3>1, <3>2
  <2> QED
    BY <1>0, <2>1, <2>2, <2>3
<1>2. CASE child_make
  <2>1. acc' = acc /\ meter' = meter /\ serving' = serving /\ pool' = pool
    BY <1>2 DEF child_make, peerVars
  <2>2. \A j \in W : at'[j] \in {"unlock", "count"} => at[j] \in {"unlock", "count"}
    BY <1>0, <1>2 DEF child_make, peerVars, PoolTypeOK
  <2>3. PoolTypeOK'
    <3>1. made \in Nat /\ made <= NWorkers /\ NWorkers \in Nat
      BY <1>0 DEF PoolTypeOK
    <3>2. made' \in 0 .. NWorkers
      BY <1>2, <3>1 DEF child_make
    <3>3. at' \in [W -> {"none", "lock", "select", "accept", "unlock", "count", "serve", "dead"}]
      BY <1>0, <1>2 DEF child_make, PoolTypeOK
    <3> QED
      BY <1>0, <1>2, <2>1, <3>2, <3>3 DEF child_make, PoolTypeOK, peerVars
  <2> QED
    BY <1>0, <2>1, <2>2, <2>3
<1>3. CASE sig_intP
  <2>1. acc' = acc /\ meter' = meter /\ serving' = serving /\ pool' = pool
    BY <1>3 DEF sig_intP, peerVars
  <2>2. \A j \in W : at'[j] \in {"unlock", "count"} => at[j] \in {"unlock", "count"}
    BY <1>0, <1>3 DEF sig_intP, peerVars, PoolTypeOK
  <2>3. PoolTypeOK'
    BY <1>0, <1>3, <1>a, <2>1 DEF sig_intP, peerVars, PoolTypeOK
  <2> QED
    BY <1>0, <2>1, <2>2, <2>3
<1>4. CASE KillOne \/ WaitAll
  <2>1. acc' = acc /\ meter' = meter /\ serving' = serving /\ pool' = pool
    BY <1>4 DEF KillOne, WaitAll, peerVars, workerVars
  <2>2. \A j \in W : at'[j] \in {"unlock", "count"} => at[j] \in {"unlock", "count"}
    BY <1>0, <1>4 DEF KillOne, WaitAll, peerVars, workerVars, PoolTypeOK
  <2>3. PoolTypeOK'
    <3>1. made \in Nat /\ made <= NWorkers /\ NWorkers \in Nat
      BY <1>0 DEF PoolTypeOK
    <3>2. made' \in 0 .. NWorkers /\ (sigterm' = sigterm \/ (made + 1 \in W /\ sigterm' = sigterm \cup {made + 1}))
      BY <1>4, <3>1 DEF KillOne, WaitAll, W
    <3>3. sigterm' \subseteq W
      BY <1>0, <3>2 DEF PoolTypeOK
    <3> QED
      BY <1>0, <1>4, <2>1, <3>2, <3>3 DEF KillOne, WaitAll, PoolTypeOK, peerVars, workerVars
  <2> QED
    BY <1>0, <2>1, <2>2, <2>3
<1>5. ASSUME NEW i \in W, my_lock_wait(i) \/ SelectP(i) \/ my_lock_release(i)
      PROVE  PoolTypeOK' /\ (\A j \in W : at[j] \in {"unlock", "count"} => meter[j] < acc)'
  <2>1. acc' = acc /\ meter' = meter /\ serving' = serving /\ pool' = pool
    BY <1>5 DEF my_lock_wait, SelectP, my_lock_release
  <2>2. \A j \in W : at'[j] \in {"unlock", "count"} => at[j] \in {"unlock", "count"}
    BY <1>0, <1>5 DEF my_lock_wait, SelectP, my_lock_release, Go, PoolTypeOK
  <2>3. plock' \in 0 .. NWorkers
    BY <1>0, <1>5 DEF my_lock_wait, SelectP, my_lock_release, PoolTypeOK, W
  <2>4. at' \in [W -> {"none", "lock", "select", "accept", "unlock", "count", "serve", "dead"}]
    BY <1>0, <1>5 DEF my_lock_wait, SelectP, my_lock_release, Go, PoolTypeOK
  <2> QED
    BY <1>0, <1>5, <2>1, <2>2, <2>3, <2>4 DEF my_lock_wait, SelectP, my_lock_release, PoolTypeOK, parentVars, peerVars
<1>6. ASSUME NEW i \in W, AcceptP(i) \/ AcceptAgain(i)
      PROVE  PoolTypeOK' /\ (\A j \in W : at[j] \in {"unlock", "count"} => meter[j] < acc)'
  <2>1. acc' = acc + 1 /\ acc' \in 0 .. est' /\ meter' = meter /\ est' = est
    BY <1>6, <1>a DEF AcceptP, AcceptAgain, workerVars, peerVars
  <2>2. meter' \in [W -> 0 .. acc']
    BY <1>0, <1>a, <2>1 DEF PoolTypeOK
  <2>3. serving' \in [W -> 0 .. acc']
    <3>1. serving \in [W -> 0 .. acc'] /\ acc + 1 \in 0 .. acc'
      BY <1>0, <1>a, <2>1 DEF PoolTypeOK
    <3> QED
      BY <3>1, <1>6, <1>a DEF AcceptP, AcceptAgain, workerVars
  <2>4. \A j \in W : meter'[j] < acc'
    BY <1>0, <1>a, <2>1 DEF PoolTypeOK
  <2>5. at' \in [W -> {"none", "lock", "select", "accept", "unlock", "count", "serve", "dead"}]
    BY <1>0, <1>6 DEF AcceptP, AcceptAgain, Go, workerVars, PoolTypeOK
  <2> QED
    BY <1>0, <1>6, <2>1, <2>2, <2>3, <2>4, <2>5 DEF AcceptP, AcceptAgain, PoolTypeOK, parentVars, workerVars, peerVars
<1>7. ASSUME NEW i \in W, Count(i)
      PROVE  PoolTypeOK' /\ (\A j \in W : at[j] \in {"unlock", "count"} => meter[j] < acc)'
  <2>1. meter[i] \in Nat /\ meter[i] < acc /\ acc' = acc
    BY <1>0, <1>7, <1>a DEF Count, Go, PoolTypeOK
  <2>2. meter' \in [W -> 0 .. acc]
    BY <1>0, <1>7, <1>a, <2>1 DEF Count, PoolTypeOK
  <2>3. \A j \in W : at'[j] \in {"unlock", "count"} => j # i /\ at[j] \in {"unlock", "count"} /\ meter'[j] = meter[j]
    BY <1>0, <1>7 DEF Count, Go, PoolTypeOK
  <2> QED
    BY <1>0, <1>7, <2>1, <2>2, <2>3 DEF Count, Go, PoolTypeOK, parentVars, peerVars
<1>8. ASSUME NEW i \in W, web_child(i)
      PROVE  PoolTypeOK' /\ (\A j \in W : at[j] \in {"unlock", "count"} => meter[j] < acc)'
  BY <1>0, <1>8, <1>a DEF web_child, Go, PoolTypeOK, parentVars, peerVars
<1>9. ASSUME NEW i \in W, WorkerDies(i)
      PROVE  PoolTypeOK' /\ (\A j \in W : at[j] \in {"unlock", "count"} => meter[j] < acc)'
  BY <1>0, <1>9, <1>a DEF WorkerDies, PoolTypeOK, peerVars, W
<1>10. CASE UNCHANGED poolVars
  BY <1>0, <1>10 DEF poolVars, parentVars, workerVars, peerVars, PoolTypeOK
<1> QED
  BY <1>1, <1>2, <1>3, <1>4, <1>5, <1>6, <1>7, <1>8, <1>9, <1>10
     DEF PoolNext, serv, pool_main, FailsInAccept, FailsInService, TerminatedP

\* The lock.
LEMMA PoolLockStep ==
    ASSUME PoolInv, [PoolNext]_poolVars
    PROVE  OneInAccept'
<1> USE PoolGoes
<1>0. PoolTypeOK /\ OneInAccept
  BY DEF PoolInv
<1>t. at \in [W -> {"none", "lock", "select", "accept", "unlock", "count", "serve", "dead"}] /\ 0 \notin W
  BY <1>0 DEF PoolTypeOK, W
<1> SUFFICES ASSUME pool'.lock # "none", NEW j \in W, at'[j] \in {"accept", "unlock"} PROVE plock' = j
  BY DEF OneInAccept
<1>p. pool' = pool /\ pool.lock # "none"
  BY DEF PoolNext, serv, pool_main, FailsInAccept, FailsInService, TerminatedP, PeerConnects, PeerEnds, child_make,
         KillOne, WaitAll, sig_intP, my_lock_wait, SelectP, AcceptP, AcceptAgain, my_lock_release, Count, web_child,
         WorkerDies, poolVars
<1>i. \A i \in W : at[i] \in {"accept", "unlock"} => plock = i
  BY <1>0, <1>p DEF OneInAccept
<1>T. Top = "lock"
  BY <1>p DEF Top
<1>1. CASE PeerConnects \/ PeerEnds \/ KillOne \/ WaitAll \/ UNCHANGED poolVars \/ \E i \in W : AcceptAgain(i)
  BY <1>1, <1>i DEF PeerConnects, PeerEnds, KillOne, WaitAll, poolVars, workerVars, AcceptAgain
<1>2. CASE child_make \/ sig_intP
  BY <1>2, <1>i, <1>t, <1>T DEF child_make, sig_intP
<1>3. ASSUME NEW i \in W, my_lock_wait(i) PROVE plock' = j
  <2>1. plock = 0 /\ plock' = i /\ \A h \in W : at[h] \notin {"accept", "unlock"}
    BY <1>3, <1>i, <1>t DEF my_lock_wait
  <2> QED
    BY <1>3, <2>1, <1>t DEF my_lock_wait, Go
<1>4. ASSUME NEW i \in W, SelectP(i) PROVE plock' = j
  BY <1>4, <1>p DEF SelectP, Go, PoolInv
<1>5. ASSUME NEW i \in W, AcceptP(i) \/ Count(i) \/ web_child(i) PROVE plock' = j
  BY <1>5, <1>i, <1>t, <1>T DEF AcceptP, Count, web_child, Go
<1>6. ASSUME NEW i \in W, my_lock_release(i) PROVE plock' = j
  <2>1. plock = i /\ at'[i] = "count" /\ \A h \in W \ {i} : at'[h] = at[h]
    BY <1>6, <1>i, <1>t DEF my_lock_release, Go
  <2> QED
    BY <2>1, <1>i
<1>7. ASSUME NEW i \in W, WorkerDies(i) PROVE plock' = j
  <2>1. at'[i] = "dead" /\ (at'[j] = "dead" \/ at'[j] = at[j])
    BY <1>7, <1>t DEF WorkerDies
  <2>2. j # i /\ plock = j
    BY <2>1, <1>i
  <2> QED
    BY <2>2, <1>7 DEF WorkerDies
<1> QED
  BY <1>1, <1>2, <1>3, <1>4, <1>5, <1>6, <1>7, Zenon DEF PoolNext, serv, pool_main, FailsInAccept, FailsInService, TerminatedP

\* A server that has a lock has no select.
LEMMA PoolSelectStep ==
    ASSUME PoolInv, [PoolNext]_poolVars
    PROVE  (\A i \in W : at[i] = "select" => pool.lock = "none")'
<1> USE PoolGoes
<1>0. PoolTypeOK /\ \A i \in W : at[i] = "select" => pool.lock = "none"
  BY DEF PoolInv
<1>1. pool' = pool
  BY DEF PoolNext, serv, pool_main, FailsInAccept, FailsInService, TerminatedP, PeerConnects, PeerEnds, child_make,
         KillOne, WaitAll, sig_intP, my_lock_wait, SelectP, AcceptP, AcceptAgain, my_lock_release, Count, web_child,
         WorkerDies, poolVars
<1>2. Top = "select" => pool.lock = "none"
  BY DEF Top
<1>3. \A i \in W : at'[i] = "select" => at[i] = "select" \/ Top = "select"
  BY <1>0, Zenon DEF PoolNext, serv, pool_main, FailsInAccept, FailsInService, TerminatedP, PeerConnects, PeerEnds,
         child_make, KillOne, WaitAll, sig_intP, my_lock_wait, SelectP, AcceptP, AcceptAgain, my_lock_release, Count,
         web_child, WorkerDies, poolVars, workerVars, Go, PoolTypeOK
<1> QED
  BY <1>0, <1>1, <1>2, <1>3

\* The lock around accept excludes, whatever workers die and wherever.
THEOREM PoolInvariant == PoolSpec => []PoolInv
<1>1. PoolInit => PoolInv
  <2> SUFFICES ASSUME PoolInit PROVE PoolInv
    OBVIOUS
  <2> USE PoolAssumption
  <2>1. est \in 0 .. MaxEst /\ acc \in 0 .. est /\ made \in 0 .. NWorkers /\ plock \in 0 .. NWorkers
    BY DEF PoolInit
  <2>2. serving \in [W -> 0 .. acc] /\ meter \in [W -> 0 .. acc]
    BY DEF PoolInit
  <2> QED
    BY <2>1, <2>2 DEF PoolInit, PoolInv, PoolTypeOK, OneInAccept
<1>2. PoolInv /\ [PoolNext]_poolVars => PoolInv'
  <2> SUFFICES ASSUME PoolInv, [PoolNext]_poolVars PROVE PoolInv'
    OBVIOUS
  <2> QED
    BY PoolTypeStep, PoolLockStep, PoolSelectStep DEF PoolInv
<1> QED
  BY <1>1, <1>2, PTL DEF PoolSpec

(***************************************************************************)
(* Proofs about the servers that wait in accept, for every number of       *)
(* connections.                                                            *)
(***************************************************************************)

\* What the servers have in common: the services, and what their main loops do.
LEMMA ServerKinds ==
    ASSUME NEW s \in Servers
    PROVE  /\ s.eof \in {"close", "spin"} /\ s.reset \in {"close", "exit", "spin"}
           /\ s.intr = "fails" => s = server2
           /\ s.reset = "exit" \/ s = server1 \/ s = server2 \/ s = server3
           /\ s.reap = "all" => s.kind = "fork"
           /\ s.kind = "fork" => s.reap # "all" \/ s.aborted = "exit"
BY DEF Servers, Server, Iterative, Fork, Thread, daytimetcpsrv, daytimetcpsrv1, daytimetcpsrv2, daytimetcpsrv3,
       daytimetcpsrvv6, names_daytimetcpsrv1, names_daytimetcpsrv2, names_daytimetcpsrv3, names_daytimetcpsrv4,
       inetd_daytimetcpsrv2, serv00, tcpserv01, tcpserv02, tcpserv03, tcpserv04, tcpserv08, tcpserv09, serv01,
       unixstrserv01, unixstrserv02, advio_tcpserv02, oob_tcpserv02, ipopts_tcpserv01, serv06, threads_tcpserv01,
       threads_tcpserv02, sctpserv_fork, server1, server2, server3

\* An outcome other than waiting; "exit" comes of a reset.
LEMMA OutcomeRange ==
    ASSUME srv \in Servers, NEW k
    PROVE  /\ Outcome(k) \in {"close", "exit", "spin", "waits"}
           /\ Outcome(k) = "exit" => client[k] = "rst"
BY ServerKinds DEF Outcome

LEMMA AfterRange ==
    After("close") = "accept" /\ After("exit") = "dead" /\ After("spin") = "spin"
BY DEF After

\* ConnInv in the parts the steps treat separately.
ConnTypes ==
    /\ srv \in Servers
    /\ main \in {"accept", "start", "close", "serve", "spin", "dead", "undefined"}
    /\ client \in [C -> {"none", "open", "fin", "rst"}]
    /\ worker \in [C -> {"none", "start", "serve", "zombie", "gone"}]
    /\ arg \in [C -> Nat] /\ serves \in [C -> Nat]
    /\ sigchld \subseteq {"SIGCHLD"} /\ installed \in {"yes", "no"}
    /\ established \in 0 .. MaxC /\ acceptedC \in 0 .. established

MainFits ==
    /\ main \in {"start", "close", "serve"} => cur \in C
    /\ main = "serve" => srv.kind = "iterative"
    /\ srv.reap = "all" => installed = "yes"
    /\ \A k \in C : k > established => client[k] = "none"

WorkersFit ==
    \A k \in C :
        /\ worker[k] = "start" /\ srv.kind = "thread" => arg[k] = k
        /\ worker[k] = "serve" => serves[k] = k

LEMMA ConnParts ==
    ConnInv <=> ConnTypes /\ MainFits /\ WorkersFit /\ ServesItsOwn /\ NoZombies /\ ServerSurvives
BY DEF ConnInv, ConnTypes, MainFits, WorkersFit

LEMMA ConnPartsNext ==
    ConnTypes' /\ MainFits' /\ WorkersFit' /\ ServesItsOwn' /\ NoZombies' /\ ServerSurvives' => ConnInv'
BY DEF ConnInv, ConnTypes, MainFits, WorkersFit

\* The numbers of the connections.
LEMMA ConnNumbers ==
    ASSUME ConnTypes
    PROVE  /\ established \in Nat /\ acceptedC \in Nat /\ MaxC \in Nat /\ acceptedC <= established /\ established <= MaxC
           /\ acceptedC < established => acceptedC + 1 \in C /\ acceptedC + 1 \in 0 .. established
           /\ established < MaxC => established + 1 \in C /\ established + 1 \in 0 .. MaxC
                                    /\ acceptedC \in 0 .. (established + 1)
BY ConnAssumption DEF ConnTypes, C

\* The clients.
LEMMA ClientsStep ==
    ASSUME ConnInv, Establish \/ ClientEnds
    PROVE  ConnInv'
<1>1. ConnTypes /\ MainFits /\ WorkersFit /\ ServesItsOwn /\ NoZombies /\ ServerSurvives
  BY ConnParts
<1>2. UNCHANGED <<srv, main, acceptedC, holders, worker, arg, serves, sigchld, installed>>
  BY DEF Establish, ClientEnds
<1>3. CASE Establish
  <2>1. established' = established + 1 /\ client' = [client EXCEPT ![established + 1] = "open"] /\ established < MaxC
    BY <1>3 DEF Establish
  <2>2. established' \in 0 .. MaxC /\ acceptedC' \in 0 .. established' /\ established + 1 \in C
    BY <1>1, <1>2, <2>1, ConnNumbers
  <2>3. client' \in [C -> {"none", "open", "fin", "rst"}]
    BY <1>1, <2>1, Zenon DEF ConnTypes
  <2>4. ConnTypes'
    BY <1>1, <1>2, <2>2, <2>3 DEF ConnTypes
  <2>5. client[established + 1] = "none" /\ \A k \in C : client[k] = "rst" => client'[k] = "rst"
    <3>1. established + 1 > established
      BY <1>1, ConnNumbers
    <3>2. client[established + 1] = "none"
      BY <1>1, <2>2, <3>1 DEF MainFits
    <3> QED
      BY <1>1, <2>1, <3>2 DEF ConnTypes
  <2>6. \A k \in C : k > established' => client'[k] = "none"
    <3>1. \A k \in C : k > established' => k > established /\ k # established + 1
      BY <1>1, <2>1, ConnNumbers DEF C
    <3> QED
      BY <3>1, <1>1, <2>1 DEF MainFits, ConnTypes
  <2>7. MainFits'
    BY <1>1, <1>2, <2>6 DEF MainFits, cur, C
  <2> QED
    BY <1>1, <1>2, <2>4, <2>5, <2>7, ConnPartsNext DEF WorkersFit, ServesItsOwn, NoZombies, Zombies, Up, ServerSurvives
<1>4. CASE ClientEnds
  <2> PICK k \in C, how \in {"fin", "rst"} : client[k] = "open" /\ client' = [client EXCEPT ![k] = how]
    BY <1>4, Zenon DEF ClientEnds
  <2>1. established' = established /\ client' \in [C -> {"none", "open", "fin", "rst"}]
    BY <1>1, <1>4 DEF ClientEnds, ConnTypes
  <2>2. \A j \in C : (client[j] = "rst" => client'[j] = "rst") /\ (client[j] = "none" => client'[j] = "none")
    BY <1>1 DEF ConnTypes
  <2>3. ConnTypes' /\ MainFits'
    BY <1>1, <1>2, <2>1, <2>2 DEF ConnTypes, MainFits, cur
  <2> QED
    BY <1>1, <1>2, <2>2, <2>3, ConnPartsNext DEF WorkersFit, ServesItsOwn, NoZombies, Zombies, Up, ServerSurvives
<1> QED
  BY <1>3, <1>4

\* A connection is accepted, or was reset before it could be.
LEMMA ConnAcceptStep ==
    ASSUME ConnInv, AcceptC \/ AcceptAborted
    PROVE  ConnInv'
<1>1. ConnTypes /\ MainFits /\ WorkersFit /\ ServesItsOwn /\ NoZombies /\ ServerSurvives
  BY ConnParts
<1>2. /\ main = "accept" /\ acceptedC < established /\ acceptedC' = acceptedC + 1
      /\ UNCHANGED <<srv, client, established, worker, arg, serves, sigchld, installed>>
  BY DEF AcceptC, AcceptAborted, worldVars
<1>3. acceptedC' \in 0 .. established' /\ cur' \in C
  BY <1>1, <1>2, ConnNumbers DEF cur
<1>4. /\ main' \in {"accept", "serve", "start", "dead"}
      /\ main' = "serve" => srv.kind = "iterative"
      /\ main' = "dead" => srv.aborted = "exit" /\ client[acceptedC + 1] = "rst"
  BY DEF AcceptC, AcceptAborted
<1>5. ConnTypes' /\ MainFits'
  BY <1>1, <1>2, <1>3, <1>4 DEF ConnTypes, MainFits
<1>6. ServerSurvives'
  BY <1>1, <1>2, <1>4, ConnNumbers DEF ServerSurvives
<1>7. NoZombies'
  BY <1>1, <1>2 DEF NoZombies, Zombies, Up
<1> QED
  BY <1>1, <1>2, <1>5, <1>6, <1>7, ConnPartsNext DEF WorkersFit, ServesItsOwn

\* The main loop starts a child or a thread for the connection, and closes its own copy.
LEMMA ConnStartStep ==
    ASSUME ConnInv, ForkChild \/ ParentCloses \/ CreateThread
    PROVE  ConnInv'
<1>1. ConnTypes /\ MainFits /\ WorkersFit /\ ServesItsOwn /\ NoZombies /\ ServerSurvives
  BY ConnParts
<1>2. /\ main \in {"start", "close"} /\ cur \in C /\ cur \in Nat
      /\ UNCHANGED <<srv, client, established, acceptedC, serves, sigchld>>
  BY <1>1, ConnNumbers DEF ForkChild, ParentCloses, CreateThread, worldVars, MainFits, cur
<1>3. /\ main' \in {"accept", "close", "undefined"}
      /\ worker' = worker \/ worker' = [worker EXCEPT ![cur] = "start"]
      /\ installed' = installed \/ installed' = "yes"
      /\ arg' = arg \/ arg' = [arg EXCEPT ![cur] = cur]
      /\ srv.kind = "thread" /\ worker' # worker => arg' = [arg EXCEPT ![cur] = cur]
  BY DEF ForkChild, ParentCloses, CreateThread, Element
<1>4. ConnTypes' /\ MainFits'
  BY <1>1, <1>2, <1>3 DEF ConnTypes, MainFits, cur
<1>5. WorkersFit'
  <2> SUFFICES ASSUME NEW k \in C
               PROVE  /\ worker'[k] = "start" /\ srv.kind = "thread" => arg'[k] = k
                      /\ worker'[k] = "serve" => serves[k] = k
    BY <1>2 DEF WorkersFit
  <2>1. worker[k] = "serve" => serves[k] = k
    BY <1>1 DEF WorkersFit
  <2>2. worker'[k] = "serve" => worker[k] = "serve"
    BY <1>1, <1>2, <1>3 DEF ConnTypes
  <2>3. ASSUME worker'[k] = "start", srv.kind = "thread" PROVE arg'[k] = k
    <3>1. CASE k = cur /\ worker' # worker
      BY <3>1, <2>3, <1>1, <1>2, <1>3 DEF ConnTypes
    <3>2. CASE k # cur \/ worker' = worker
      <4>1. worker[k] = "start"
        BY <3>2, <2>3, <1>1, <1>2, <1>3 DEF ConnTypes
      <4> QED
        BY <4>1, <2>3, <1>1, <1>2, <1>3 DEF WorkersFit, ConnTypes
    <3> QED
      BY <3>1, <3>2
  <2> QED
    BY <2>1, <2>2, <2>3
<1>6. NoZombies'
  BY <1>1, <1>2, <1>3, Zenon DEF NoZombies, Zombies, Up, ConnTypes
<1> QED
  BY <1>1, <1>2, <1>3, <1>4, <1>5, <1>6, ConnPartsNext DEF ServesItsOwn, ServerSurvives

\* An iterative server serves the connection itself.
LEMMA ConnServeStep ==
    ASSUME ConnInv, ServeHere
    PROVE  ConnInv'
<1>1. ConnTypes /\ MainFits /\ WorkersFit /\ ServesItsOwn /\ NoZombies /\ ServerSurvives
  BY ConnParts
<1>2. /\ main = "serve" /\ cur \in C /\ srv.kind = "iterative"
      /\ UNCHANGED <<srv, client, established, acceptedC, worker, arg, serves, sigchld, installed>>
  BY <1>1 DEF ServeHere, MainFits, worldVars
<1>3. main' \in {"accept", "dead", "spin"} /\ (main' = "dead" => client[cur] = "rst")
  <2>1. Outcome(cur) \in {"close", "exit", "spin"} /\ (Outcome(cur) = "exit" => client[cur] = "rst")
    BY <1>1, OutcomeRange DEF ServeHere, ConnTypes
  <2> QED
    BY <2>1, AfterRange DEF ServeHere
<1>4. ConnTypes' /\ MainFits'
  BY <1>1, <1>2, <1>3 DEF ConnTypes, MainFits
<1> QED
  BY <1>1, <1>2, <1>3, <1>4, ConnPartsNext DEF WorkersFit, ServesItsOwn, NoZombies, Zombies, Up, ServerSurvives

\* A worker starts or ends.
LEMMA ConnWorkerStep ==
    ASSUME ConnInv, NEW k \in C, workerRuns(k)
    PROVE  ConnInv'
<1>1. ConnTypes /\ MainFits /\ WorkersFit /\ ServesItsOwn /\ NoZombies /\ ServerSurvives
  BY ConnParts
<1>2. UNCHANGED <<srv, client, established, acceptedC, arg, installed>> /\ k \in Nat
  BY DEF workerRuns, StartWorker, ChildExits, ThreadEnds, worldVars, C
<1>3. CASE StartWorker(k)
  <2>1. /\ worker[k] = "start" /\ worker' = [worker EXCEPT ![k] = "serve"] /\ serves' = [serves EXCEPT ![k] = k]
        /\ main' = main /\ sigchld' = sigchld
    BY <1>3, <1>1, ZenonT(30) DEF StartWorker, WorkersFit, Element
  <2>2. ConnTypes' /\ MainFits'
    BY <1>1, <1>2, <2>1 DEF ConnTypes, MainFits, cur
  <2>3. WorkersFit' /\ ServesItsOwn'
    BY <1>1, <1>2, <2>1 DEF ConnTypes, WorkersFit, ServesItsOwn
  <2>4. NoZombies'
    BY <1>1, <1>2, <2>1 DEF ConnTypes, NoZombies, Zombies, Up
  <2> QED
    BY <1>1, <1>2, <2>1, <2>2, <2>3, <2>4, ConnPartsNext DEF ServerSurvives
<1>4. CASE ChildExits(k)
  <2>1. /\ worker' = [worker EXCEPT ![k] = "zombie"] /\ main' = main /\ serves' = serves
        /\ sigchld' = (IF installed = "yes" THEN {"SIGCHLD"} ELSE sigchld)
    BY <1>4 DEF ChildExits
  <2>2. ConnTypes' /\ MainFits'
    BY <1>1, <1>2, <2>1 DEF ConnTypes, MainFits, cur
  <2>3. WorkersFit' /\ ServesItsOwn'
    BY <1>1, <1>2, <2>1 DEF ConnTypes, WorkersFit, ServesItsOwn
  <2>4. NoZombies'
    BY <1>1, <1>2, <2>1 DEF NoZombies, MainFits
  <2> QED
    BY <1>1, <1>2, <2>1, <2>2, <2>3, <2>4, ConnPartsNext DEF ServerSurvives
<1>5. CASE ThreadEnds(k)
  <2>1. /\ srv.kind = "thread" /\ worker[k] = "serve" /\ serves' = serves /\ sigchld' = sigchld
        /\ \/ worker' = [worker EXCEPT ![k] = "gone"] /\ main' = main
           \/ worker' = worker /\ main' = "dead" /\ Outcome(serves[k]) = "exit"
    BY <1>5 DEF ThreadEnds
  <2>2. ConnTypes' /\ MainFits'
    BY <1>1, <1>2, <2>1 DEF ConnTypes, MainFits, cur
  <2>3. WorkersFit' /\ ServesItsOwn'
    BY <1>1, <1>2, <2>1 DEF ConnTypes, WorkersFit, ServesItsOwn
  <2>4. NoZombies'
    BY <1>1, <1>2, <2>1, Zenon DEF ConnTypes, NoZombies, Zombies, Up
  <2>5. serves[k] = k /\ (Outcome(k) = "exit" => client[k] = "rst")
    BY <1>1, <2>1, OutcomeRange DEF WorkersFit, ConnTypes
  <2>6. ServerSurvives'
    BY <1>1, <1>2, <2>1, <2>5 DEF ServerSurvives
  <2> QED
    BY <2>2, <2>3, <2>4, <2>6, ConnPartsNext
<1> QED
  BY <1>3, <1>4, <1>5 DEF workerRuns

\* The handler of SIGCHLD.
LEMMA ConnSignalStep ==
    ASSUME ConnInv, sig_chld
    PROVE  ConnInv'
<1>1. ConnTypes /\ MainFits /\ WorkersFit /\ ServesItsOwn /\ NoZombies /\ ServerSurvives
  BY ConnParts
<1>2. sigchld' = {} /\ UNCHANGED <<srv, client, established, acceptedC, arg, serves, installed>>
  BY DEF sig_chld, worldVars
<1> PICK z \in Reaped : worker' = [k \in C |-> IF k \in z THEN "gone" ELSE worker[k]]
  BY DEF sig_chld
<1>3. main' = main \/ (main' = "dead" /\ srv = server2)
  BY <1>1, ServerKinds DEF sig_chld, ConnTypes
<1>4. ConnTypes' /\ MainFits'
  BY <1>1, <1>2, <1>3 DEF ConnTypes, MainFits, cur
<1>5. WorkersFit' /\ ServesItsOwn'
  BY <1>1, <1>2 DEF WorkersFit, ServesItsOwn
<1>6. NoZombies'
  <2> SUFFICES ASSUME srv.reap = "all" PROVE Zombies' = {}
    BY <1>2 DEF NoZombies
  <2>1. z = Zombies
    BY DEF Reaped
  <2> QED
    BY <2>1 DEF Zombies
<1>7. ServerSurvives'
  BY <1>1, <1>2, <1>3 DEF ServerSurvives
<1> QED
  BY <1>4, <1>5, <1>6, <1>7, ConnPartsNext

\* Every worker serves its own connection, no zombie is forgotten, and a server ends only
\* of what ServerSurvives names, for every number of connections.
THEOREM ConnInvariant == ConnSpec => []ConnInv
<1>1. ConnInit => ConnInv
  <2> SUFFICES ASSUME ConnInit PROVE ConnInv
    OBVIOUS
  <2>1. ConnTypes
    BY ConnAssumption DEF ConnInit, ConnTypes
  <2>2. MainFits /\ WorkersFit /\ ServesItsOwn /\ NoZombies /\ ServerSurvives
    BY DEF ConnInit, MainFits, WorkersFit, ServesItsOwn, NoZombies, Zombies, ServerSurvives
  <2> QED
    BY <2>1, <2>2, ConnParts
<1>2. ConnInv /\ [ConnNext]_connVars => ConnInv'
  <2> SUFFICES ASSUME ConnInv, [ConnNext]_connVars PROVE ConnInv'
    OBVIOUS
  <2>1. CASE UNCHANGED connVars
    BY <2>1 DEF connVars, worldVars, ConnInv, cur, ServesItsOwn, NoZombies, Zombies, Up, ServerSurvives
  <2>2. CASE ConnNext
    BY <2>2, ClientsStep, ConnAcceptStep, ConnStartStep, ConnServeStep, ConnWorkerStep, ConnSignalStep
       DEF ConnNext, mainLoop
  <2> QED
    BY <2>1, <2>2
<1> QED
  BY <1>1, <1>2, PTL DEF ConnSpec

\* What is known of finite sets, for the counts.
INSTANCE FiniteSetTheorems

(***************************************************************************)
(* Proofs about serv05, for every number of children: as long as all of    *)
(* them live, the parent's count of available children is exact; and its   *)
(* assertion holds whichever of them end.                                  *)
(***************************************************************************)

\* What child_status counts: it is 1 if a byte waits, and grows with what is sent.
LEMMA OneByte ==
    ASSUME NEW s \in {0, 1}, NEW a \in Nat, NEW w \in {0, 1}, NEW p \in Nat, p > 0, s = a + w + p
    PROVE  s = 1 /\ p = 1 /\ a = 0 /\ w = 0
OBVIOUS

LEMMA OneSent ==
    ASSUME NEW a \in Nat, NEW w \in Nat, NEW p \in Nat, 0 = a + w + p
    PROVE  1 = (a + 1) + w + p
OBVIOUS

\* The children marked as available are finitely many.
LEMMA FreeFinite == IsFiniteSet(Free) /\ Cardinality(Free) \in Nat
<1>1. IsFiniteSet(Kid)
  BY PassAssumption, FS_Interval DEF Kid
<1>2. IsFiniteSet(Free)
  BY <1>1, FS_Subset DEF Free
<1> QED
  BY <1>2, FS_CardinalityType

\* serv05 starts with all its children available.
LEMMA PassInitInv == PassInit => PassInv
<1> SUFFICES ASSUME PassInit PROVE PassInv
  OBVIOUS
<1> USE PassAssumption
<1>1. Free = Kid
  BY DEF PassInit, Free
<1>2. Cardinality(Kid) = nchildren
  BY FS_Interval DEF Kid
<1>3. PassTypeOK
  BY DEF PassInit, PassTypeOK
<1>4. NavailCounts
  BY <1>1, <1>2 DEF PassInit, NavailCounts, Working
<1> QED
  BY <1>3, <1>4 DEF PassInit, PassInv, ParentKeepsRunning, Running, SelectIsFresh

\* A step after which a child is dead has nothing to show.
LEMMA DeadIsEasy == PassTypeOK' /\ ~AllAlive' => PassInv'
BY DEF PassInv, NavailCounts, ParentKeepsRunning, SelectIsFresh

\* The types.
LEMMA PassTypeStep == PassTypeOK /\ [PassNext]_passVars => PassTypeOK'
<1> SUFFICES ASSUME PassTypeOK, [PassNext]_passVars PROVE PassTypeOK'
  OBVIOUS
<1> USE DEF PassTypeOK
<1>1. CASE Select
  BY <1>1 DEF Select, Readable
<1>2. CASE AcceptPass
  <2>1. backlog' \in Nat /\ rset' \subseteq Kid \cup {listenfd}
    BY <1>2 DEF AcceptPass
  <2>2. CASE \E c \in Free : Lowest(c, Free) /\ Assign(c)
    <3> PICK c \in Kid : Assign(c)
      BY <2>2 DEF Free
    <3>1. child_status' \in [Kid -> {0, 1}] /\ navail' \in Int /\ toChild' \in [Kid -> Nat]
      BY DEF Assign
    <3>2. parent' \in {"select", "accept", "scan", "exited", "none_available", "child_terminated", "sigpipe"}
      BY DEF Assign, AfterOne
    <3> QED
      BY <1>2, <2>1, <3>1, <3>2 DEF AcceptPass
  <2>3. CASE Free = {} /\ parent' = "none_available" /\ UNCHANGED <<child_status, navail, toChild>>
    BY <1>2, <2>1, <2>3 DEF AcceptPass
  <2> QED
    BY <1>2, <2>2, <2>3 DEF AcceptPass
<1>3. ASSUME NEW c \in Kid, ScanChild(c) PROVE PassTypeOK'
  <2>1. toParent[c] \in Nat
    OBVIOUS
  <2>2. toParent' \in [Kid -> Nat] /\ child_status' \in [Kid -> {0, 1}] /\ navail' \in Int
    BY <1>3, <2>1 DEF ScanChild
  <2>3. parent' \in {"select", "accept", "scan", "exited", "none_available", "child_terminated", "sigpipe"}
    BY <1>3 DEF ScanChild, AfterOne
  <2> QED
    BY <1>3, <2>2, <2>3 DEF ScanChild
<1>4. CASE sig_int05
  BY <1>4 DEF sig_int05
<1>5. CASE Connect \/ Reset
  BY <1>5 DEF Connect, Reset
<1>6. ASSUME NEW c \in Kid, child_main(c) \/ Dies(c) PROVE PassTypeOK'
  <2>1. CASE ReadFd(c)
    BY <2>1 DEF ReadFd
  <2>2. CASE ServePass(c)
    BY <2>2 DEF ServePass
  <2>3. CASE Ready(c)
    BY <2>3 DEF Ready
  <2>4. CASE Orphaned(c)
    BY <2>4 DEF Orphaned
  <2>5. CASE Dies(c)
    BY <2>5, PassAssumption DEF Dies
  <2> QED
    BY <1>6, <2>1, <2>2, <2>3, <2>4, <2>5 DEF child_main
<1>7. CASE UNCHANGED passVars
  BY <1>7 DEF passVars
<1> QED
  BY <1>1, <1>2, <1>3, <1>4, <1>5, <1>6, <1>7 DEF PassNext, main05

\* The parent accepts a connection: a child is available, and one fewer afterwards.
LEMMA AcceptStep == PassInv /\ AllAlive /\ PassTypeOK' /\ AcceptPass => PassInv'
<1> SUFFICES ASSUME PassInv, AllAlive, PassTypeOK', AcceptPass PROVE PassInv'
  OBVIOUS
<1>1. PassTypeOK /\ parent = "accept" /\ navail > 0 /\ navail = Cardinality(Free)
  BY DEF PassInv, AcceptPass, SelectIsFresh, NavailCounts
<1>2. Free # {}
  BY <1>1, FS_EmptySet
<1> PICK c \in Free : Assign(c)
  BY <1>2 DEF AcceptPass
<1>3. c \in Kid /\ child_status[c] = 0 /\ kid[c] # "dead"
  BY DEF Free, AllAlive
<1>4. Free' = Free \ {c}
  BY <1>1, <1>3 DEF Free, Assign, PassTypeOK
<1>5. Cardinality(Free') = Cardinality(Free) - 1
  BY <1>4, FreeFinite, FS_RemoveElement
<1>6. kid' = kid /\ toParent' = toParent /\ rset' = rset \ {listenfd}
  BY DEF AcceptPass
<1>7. navail' = Cardinality(Free')
  BY <1>1, <1>5 DEF Assign
<1>8. \A d \in Kid : child_status'[d] = toChild'[d] + Working(d)' + toParent'[d]
  <2>1. \A d \in Kid : Working(d)' = Working(d)
    BY <1>6 DEF Working
  <2> QED
    BY <1>1, <1>3, <1>6, <2>1 DEF Assign, PassInv, NavailCounts, PassTypeOK, Working
<1>9. parent' \in {"select", "scan"} /\ listenfd \notin rset'
  BY <1>3, <1>6 DEF Assign, AfterOne
<1> QED
  BY <1>6, <1>7, <1>8, <1>9 DEF PassInv, NavailCounts, ParentKeepsRunning, Running, SelectIsFresh, AllAlive

\* The parent reads a child's byte: one more child is available.
LEMMA ScanStep ==
    ASSUME PassInv, AllAlive, PassTypeOK', NEW c \in Kid, ScanChild(c)
    PROVE  PassInv'
<1>1. PassTypeOK /\ navail = Cardinality(Free) /\ parent = "scan" /\ c \in rset /\ listenfd \notin rset
  BY DEF PassInv, ScanChild, Lowest, SelectIsFresh, NavailCounts
<1>2. toParent[c] > 0 /\ toParent[c] \in Nat
  BY <1>1 DEF PassInv, SelectIsFresh, PassTypeOK, listenfd
<1>0. \A d \in Kid : Working(d) \in Nat /\ child_status[d] = toChild[d] + Working(d) + toParent[d]
  BY DEF PassInv, NavailCounts, Working
<1>3. child_status[c] = 1 /\ toParent[c] = 1 /\ toChild[c] = 0 /\ Working(c) = 0
  <2>1. child_status[c] = 0 \/ child_status[c] = 1
    BY <1>1 DEF PassTypeOK
  <2>2. toChild[c] \in Nat /\ Working(c) \in Nat
    BY <1>0, <1>1 DEF PassTypeOK
  <2>3. child_status[c] = toChild[c] + Working(c) + toParent[c]
    BY <1>0
  <2> QED
    BY <2>1, <2>2, <2>3, <1>2
<1>4. /\ toParent' = [toParent EXCEPT ![c] = @ - 1] /\ child_status' = [child_status EXCEPT ![c] = 0]
      /\ navail' = navail + 1 /\ parent' = AfterOne /\ rset' = rset \ {c}
      /\ UNCHANGED <<toChild, kid>>
  BY <1>2 DEF ScanChild
<1>5. Free' = Free \cup {c} /\ c \notin Free
  BY <1>1, <1>3, <1>4 DEF Free, PassTypeOK
<1>6. navail' = Cardinality(Free')
  BY <1>1, <1>4, <1>5, FreeFinite, FS_AddElement, Zenon
<1>7. \A d \in Kid : child_status'[d] = toChild'[d] + Working(d)' + toParent'[d]
  <2>1. \A d \in Kid : Working(d)' = Working(d)
    BY <1>4 DEF Working
  <2>3. child_status'[c] = toChild'[c] + Working(c)' + toParent'[c]
    BY <1>1, <1>3, <1>4, <2>1 DEF PassTypeOK
  <2>4. \A d \in Kid \ {c} : child_status'[d] = child_status[d] /\ toParent'[d] = toParent[d]
    BY <1>1, <1>4 DEF PassTypeOK
  <2> QED
    BY <1>0, <1>4, <2>1, <2>3, <2>4
<1>8. parent' \in {"select", "scan"} /\ listenfd \notin rset'
  BY <1>1, <1>4 DEF AfterOne
<1>9. \A d \in rset' \ {listenfd} : toParent'[d] > 0
  BY <1>1, <1>4 DEF PassInv, SelectIsFresh, PassTypeOK, listenfd
<1> QED
  BY <1>4, <1>6, <1>7, <1>8, <1>9 DEF PassInv, NavailCounts, ParentKeepsRunning, Running, SelectIsFresh, AllAlive

\* A child reads a connection, serves it, or writes its byte.
LEMMA ChildStep ==
    ASSUME PassInv, AllAlive, PassTypeOK', NEW c \in Kid, ReadFd(c) \/ ServePass(c) \/ Ready(c)
    PROVE  PassInv'
<1>1. PassTypeOK /\ NavailCounts /\ SelectIsFresh /\ ParentKeepsRunning
  BY DEF PassInv
<1>2. UNCHANGED <<child_status, navail, parent, rset>> /\ Free' = Free
  BY DEF ReadFd, ServePass, Ready, Free
<1>3. \A d \in Kid : toParent'[d] >= toParent[d]
  BY <1>1 DEF ReadFd, ServePass, Ready, PassTypeOK
<1>4. \A d \in Kid : toChild'[d] + Working(d)' + toParent'[d] = toChild[d] + Working(d) + toParent[d]
  <2>1. CASE ReadFd(c)
    BY <2>1, <1>1 DEF ReadFd, Working, PassTypeOK
  <2>2. CASE ServePass(c)
    BY <2>2, <1>1 DEF ServePass, Working, PassTypeOK
  <2>3. CASE Ready(c)
    BY <2>3, <1>1 DEF Ready, Working, PassTypeOK
  <2> QED
    BY <2>1, <2>2, <2>3, Zenon
<1>5. NavailCounts'
  BY <1>1, <1>2, <1>4 DEF NavailCounts, AllAlive
<1>6. SelectIsFresh'
  <2>1. \A d \in rset' \ {listenfd} : d \in Kid /\ toParent[d] > 0
    BY <1>1, <1>2 DEF SelectIsFresh, PassTypeOK, AllAlive
  <2>2. \A d \in rset' \ {listenfd} : toParent'[d] > 0
    BY <2>1, <1>1, <1>3, PassTypeOK' DEF PassTypeOK
  <2> QED
    BY <2>2, <1>1, <1>2, Zenon DEF SelectIsFresh, AllAlive
<1>7. ParentKeepsRunning'
  BY <1>1, <1>2, Zenon DEF ParentKeepsRunning, Running, AllAlive
<1> QED
  BY <1>5, <1>6, <1>7 DEF PassInv

\* PassInv holds in every state of serv05.
THEOREM PassInvariant == PassSpec => []PassInv
<1>1. PassInv /\ [PassNext]_passVars => PassInv'
  <2> SUFFICES ASSUME PassInv, [PassNext]_passVars PROVE PassInv'
    OBVIOUS
  <2>1. PassTypeOK' /\ PassTypeOK
    BY PassTypeStep DEF PassInv
  <2>2. CASE ~AllAlive'
    BY <2>1, <2>2, DeadIsEasy
  <2>3. CASE AllAlive' /\ AllAlive
    <3>0. Running /\ NavailCounts /\ SelectIsFresh
      BY <2>3 DEF PassInv, ParentKeepsRunning
    <3>1. CASE Select
      <4>1. UNCHANGED <<child_status, navail, toChild, toParent, kid>> /\ Free' = Free
        BY <3>1 DEF Select, Free
      <4>2. NavailCounts'
        BY <4>1, <3>0 DEF NavailCounts, Working, AllAlive
      <4>3. SelectIsFresh' /\ ParentKeepsRunning'
        BY <3>1, <2>3, <2>1 DEF Select, Readable, SelectIsFresh, ParentKeepsRunning, Running, AllAlive, Kid, listenfd
      <4> QED
        BY <2>1, <4>2, <4>3 DEF PassInv
    <3>2. CASE AcceptPass
      BY <3>2, <2>1, <2>3, AcceptStep
    <3>3. ASSUME NEW c \in Kid, ScanChild(c) PROVE PassInv'
      BY <3>3, <2>1, <2>3, ScanStep
    <3>4. CASE Connect \/ Reset \/ UNCHANGED passVars
      <4>1. UNCHANGED <<child_status, navail, parent, rset, toChild, toParent, kid>> /\ Free' = Free
        BY <3>4 DEF Connect, Reset, passVars, Free
      <4> QED
        BY <4>1, <2>1, <2>3, <3>0 DEF PassInv, NavailCounts, SelectIsFresh, ParentKeepsRunning, Running, Working, AllAlive
    <3>5. ASSUME NEW c \in Kid, child_main(c) \/ Dies(c) PROVE PassInv'
      <4>1. kid[c] # "dead" /\ kid'[c] # "dead"
        BY <2>3 DEF AllAlive
      <4>2. ReadFd(c) \/ ServePass(c) \/ Ready(c)
        BY <3>5, <4>1, <2>1 DEF child_main, Dies, Orphaned, PassTypeOK
      <4> QED
        BY <4>2, <2>1, <2>3, ChildStep
    <3>6. CASE sig_int05
      <4>1. 1 \in Kid
        BY PassAssumption DEF Kid
      <4> QED
        BY <3>6, <4>1, <2>3 DEF sig_int05, AllAlive
    <3> QED
      BY <3>1, <3>2, <3>3, <3>4, <3>5, <3>6 DEF PassNext, main05
  <2>4. AllAlive' => AllAlive
    <3> SUFFICES ASSUME NEW c \in Kid, kid[c] = "dead" PROVE kid'[c] = "dead"
      BY DEF AllAlive
    <3> QED
      BY <2>1, Zenon DEF PassNext, main05, child_main, Select, AcceptPass, ScanChild, sig_int05, Connect, Reset,
                  ReadFd, ServePass, Ready, Dies, Orphaned, passVars, PassTypeOK
  <2> QED
    BY <2>2, <2>3, <2>4
<1> QED
  BY <1>1, PassInitInv, PTL DEF PassSpec

\* While all children live, navail is exact and a busy child is one with work.
THEOREM PassNavailCounts == PassSpec => []NavailCounts
<1>1. PassInv => NavailCounts
  BY DEF PassInv
<1> QED
  BY <1>1, PassInvariant, PTL

\* While all children live, the parent reaches none of its err_quit calls.
THEOREM PassParentRuns == PassSpec => []ParentKeepsRunning
<1>1. PassInv => ParentKeepsRunning
  BY DEF PassInv
<1> QED
  BY <1>1, PassInvariant, PTL

\* The parent accepts a connection, though children may have ended.
LEMMA AvailAccept ==
    ASSUME PassTypeOK, AvailableIsFree, AcceptPass
    PROVE  AvailableIsFree'
<1>1. Running /\ navail > 0 /\ (navail = Cardinality(Free) \/ \E d \in Free : kid[d] = "dead")
  BY Zenon DEF AvailableIsFree, AcceptPass, Running
<1>2. Free # {}
  BY <1>1, FS_EmptySet
<1> PICK c \in Free : Assign(c)
  BY <1>2 DEF AcceptPass
<1>3. c \in Kid /\ child_status[c] = 0
  BY DEF Free
<1>4. CASE kid[c] = "dead"
  BY <1>4, ZenonT(30) DEF Assign, AvailableIsFree, SomeChildAvailable, Running
<1>5. CASE kid[c] # "dead"
  <2>1. Free' = Free \ {c}
    BY <1>3 DEF Free, Assign, PassTypeOK
  <2>2. Cardinality(Free') = Cardinality(Free) - 1 /\ navail' = navail - 1 /\ navail \in Int
    BY <2>1, FreeFinite, FS_RemoveElement, Zenon DEF Assign, PassTypeOK
  <2>3. kid' = kid /\ toParent' = toParent /\ parent' \in {"select", "scan"}
    BY <1>5 DEF AcceptPass, Assign, AfterOne
  <2>4. \A d \in Kid : Working(d)' = Working(d) /\ Working(d) \in Nat
    BY <2>3 DEF Working
  <2>5. ASSUME NEW d \in Kid, kid[d] # "dead" PROVE child_status'[d] = toChild'[d] + Working(d)' + toParent'[d]
    <3>1. child_status[d] = toChild[d] + Working(d) + toParent[d]
      BY <1>1, <2>5, Zenon DEF AvailableIsFree
    <3>2. toChild[d] \in Nat /\ toParent[d] \in Nat /\ child_status[d] \in Nat
      BY DEF PassTypeOK
    <3>3. CASE d = c
      <4>1. child_status'[d] = 1 /\ toChild'[d] = toChild[d] + 1
        BY <3>3, <1>3 DEF Assign, PassTypeOK
      <4>2. 0 = toChild[d] + Working(d) + toParent[d] /\ Working(d) \in Nat
        BY <3>1, <3>3, <1>3, <2>4, Zenon
      <4>3. 1 = (toChild[d] + 1) + Working(d) + toParent[d]
        BY <4>2, <3>2, OneSent
      <4> QED
        BY <4>1, <4>3, <2>3, <2>4, Zenon
    <3>4. CASE d # c
      <4>1. child_status'[d] = child_status[d] /\ toChild'[d] = toChild[d]
        BY <3>4, <1>3 DEF Assign, PassTypeOK
      <4> QED
        BY <4>1, <3>1, <2>3, <2>4
    <3> QED
      BY <3>3, <3>4, ZenonT(30)
  <2>6. navail' = Cardinality(Free') \/ \E d \in Free' : kid'[d] = "dead"
    <3>1. CASE navail = Cardinality(Free)
      BY <3>1, <2>2
    <3>2. CASE \E d \in Free : kid[d] = "dead"
      BY <3>2, <2>1, <2>3, <1>5
    <3> QED
      BY <3>1, <3>2, <1>1
  <2> QED
    BY <2>3, <2>5, <2>6, Zenon DEF AvailableIsFree, SomeChildAvailable
<1> QED
  BY <1>4, <1>5

\* The parent reads a byte: of a child that lives, or one of several of a child that has ended.
LEMMA AvailScan ==
    ASSUME PassTypeOK, AvailableIsFree, NEW c \in Kid, ScanChild(c)
    PROVE  AvailableIsFree'
<1>1. Running /\ (navail = Cardinality(Free) \/ \E d \in Free : kid[d] = "dead")
  BY DEF AvailableIsFree, ScanChild, Running
<1>2. CASE toParent[c] = 0
  BY <1>2 DEF ScanChild, AvailableIsFree, SomeChildAvailable, Running
<1>3. CASE toParent[c] # 0
  <2>1. /\ toParent' = [toParent EXCEPT ![c] = @ - 1] /\ child_status' = [child_status EXCEPT ![c] = 0]
        /\ navail' = navail + 1 /\ parent' \in {"select", "scan"} /\ UNCHANGED <<toChild, kid>>
    BY <1>3 DEF ScanChild, AfterOne
  <2>2. Free' = Free \cup {c} /\ navail \in Int
    BY <2>1 DEF Free, PassTypeOK
  <2>3. toParent[c] \in Nat /\ toParent[c] > 0 /\ child_status[c] \in {0, 1} /\ toChild[c] \in Nat
    BY <1>3 DEF PassTypeOK
  <2>4. \A d \in Kid : Working(d)' = Working(d) /\ Working(d) \in {0, 1}
    BY <2>1 DEF Working
  <2>5. kid[c] # "dead" => child_status[c] = toChild[c] + Working(c) + toParent[c]
    BY <1>1, ZenonT(30) DEF AvailableIsFree
  <2>6. kid[c] # "dead" => child_status[c] = 1 /\ toParent[c] = 1 /\ toChild[c] = 0 /\ Working(c) = 0
    <3>1. Working(c) \in {0, 1}
      BY <2>4, Zenon
    <3> QED BY <2>3, <2>5, <3>1, OneByte, Zenon
  <2>7. ASSUME NEW d \in Kid, kid[d] # "dead" PROVE child_status'[d] = toChild'[d] + Working(d)' + toParent'[d]
    <3>1. CASE d = c
      <4>1. child_status'[d] = 0 /\ toParent'[d] = toParent[c] - 1 /\ toChild'[d] = toChild[c]
        BY <3>1, <2>1 DEF PassTypeOK
      <4> QED
        BY <4>1, <3>1, <2>4, <2>6, <2>7
    <3>2. CASE d # c
      <4>1. child_status'[d] = child_status[d] /\ toParent'[d] = toParent[d] /\ toChild'[d] = toChild[d]
        BY <3>2, <2>1 DEF PassTypeOK
      <4>2. child_status[d] = toChild[d] + Working(d) + toParent[d]
        BY <1>1, <2>7, ZenonT(30) DEF AvailableIsFree
      <4> QED
        BY <4>1, <4>2, <2>4
    <3> QED
      BY <3>1, <3>2
  <2>8. navail' = Cardinality(Free') \/ \E d \in Free' : kid'[d] = "dead"
    <3>1. CASE \E d \in Free : kid[d] = "dead"
      BY <3>1, <2>1, <2>2
    <3>2. CASE kid[c] = "dead"
      BY <3>2, <2>1, <2>2
    <3>3. CASE kid[c] # "dead" /\ navail = Cardinality(Free)
      <4>1. c \notin Free
        BY <3>3, <2>6 DEF Free
      <4> QED
        BY <4>1, <3>3, <2>1, <2>2, FreeFinite, FS_AddElement, ZenonT(30)
    <3> QED
      BY <3>1, <3>2, <3>3, <1>1
  <2> QED
    BY <2>1, <2>7, <2>8, Zenon DEF AvailableIsFree, SomeChildAvailable
<1> QED
  BY <1>2, <1>3

\* A child serves its connection, or ends while it does.
LEMMA AvailChild ==
    ASSUME PassTypeOK, AvailableIsFree, NEW c \in Kid, child_main(c) \/ Dies(c)
    PROVE  AvailableIsFree'
<1>1. UNCHANGED <<child_status, navail, parent>> /\ Free' = Free /\ Running' = Running
  BY DEF child_main, Dies, ReadFd, ServePass, Ready, Orphaned, Free, Running
<1>2. CASE ~Running
  BY <1>1, <1>2 DEF AvailableIsFree, SomeChildAvailable
<1>3. CASE Running
  <2>1. \A d \in Kid : kid[d] = "dead" => kid'[d] = "dead"
    BY DEF child_main, Dies, ReadFd, ServePass, Ready, Orphaned, PassTypeOK
  <2>2. ASSUME NEW d \in Kid, kid'[d] # "dead"
        PROVE  toChild'[d] + Working(d)' + toParent'[d] = toChild[d] + Working(d) + toParent[d]
    <3>1. CASE ReadFd(c)
      BY <3>1 DEF ReadFd, Working, PassTypeOK
    <3>2. CASE ServePass(c)
      BY <3>2 DEF ServePass, Working, PassTypeOK
    <3>3. CASE Ready(c)
      BY <3>3 DEF Ready, Working, PassTypeOK
    <3>4. CASE Dies(c)
      BY <3>4, <2>2 DEF Dies, Working, PassTypeOK
    <3> QED
      BY <1>3, <3>1, <3>2, <3>3, <3>4 DEF child_main, Orphaned
  <2>3. \A d \in Kid : kid[d] # "dead" => child_status[d] = toChild[d] + Working(d) + toParent[d]
    BY <1>3, ZenonT(30) DEF AvailableIsFree
  <2>4. \A d \in Kid : kid'[d] # "dead" => child_status'[d] = toChild'[d] + Working(d)' + toParent'[d]
    BY <1>1, <2>1, <2>2, <2>3
  <2>5. navail' = Cardinality(Free') \/ \E d \in Free' : kid'[d] = "dead"
    <3>1. CASE navail = Cardinality(Free)
      BY <3>1, <1>1
    <3>2. CASE \E d \in Free : kid[d] = "dead"
      BY <3>2, <1>1, <2>1, Zenon DEF Free
    <3> QED
      BY <3>1, <3>2, <1>3, Zenon DEF AvailableIsFree
  <2> QED
    BY <1>1, <1>3, <2>4, <2>5 DEF AvailableIsFree, SomeChildAvailable
<1> QED
  BY <1>2, <1>3

\* serv05's assertion holds for every number of children, whichever of them end and when.
THEOREM PassAvailable == PassSpec => []AvailableIsFree
<1>1. PassInit => PassTypeOK /\ AvailableIsFree
  <2> SUFFICES ASSUME PassInit PROVE PassTypeOK /\ AvailableIsFree
    OBVIOUS
  <2>1. AllAlive
    BY DEF PassInit, AllAlive
  <2> QED
    BY <2>1, PassInitInv DEF PassInit, PassInv, NavailCounts, AvailableIsFree, SomeChildAvailable, AllAlive
<1>2. PassTypeOK /\ AvailableIsFree /\ [PassNext]_passVars => (PassTypeOK /\ AvailableIsFree)'
  <2> SUFFICES ASSUME PassTypeOK, AvailableIsFree, [PassNext]_passVars PROVE AvailableIsFree'
    BY PassTypeStep
  <2>1. CASE AcceptPass
    BY <2>1, AvailAccept
  <2>2. CASE \E c \in Kid : ScanChild(c)
    BY <2>2, AvailScan
  <2>3. CASE \E c \in Kid : child_main(c) \/ Dies(c)
    BY <2>3, AvailChild
  <2>4. CASE sig_int05
    BY <2>4 DEF sig_int05, AvailableIsFree, SomeChildAvailable, Running
  <2>5. CASE Select \/ Connect \/ Reset \/ UNCHANGED passVars
    <3>1. UNCHANGED <<child_status, navail, toChild, toParent, kid>> /\ Free' = Free
      BY <2>5 DEF Select, Connect, Reset, passVars, Free
    <3>2. \A d \in Kid : Working(d)' = Working(d)
      BY <3>1 DEF Working
    <3>3. parent' = parent \/ (parent = "select" /\ parent' \in {"accept", "scan"} /\ (parent' = "accept" => navail > 0))
      BY <2>5, PassAssumption DEF Select, Readable, Connect, Reset, passVars, Kid, listenfd
    <3> QED
      BY <3>1, <3>2, <3>3, ZenonT(30) DEF AvailableIsFree, SomeChildAvailable, Running
  <2> QED
    BY <2>1, <2>2, <2>3, <2>4, <2>5 DEF PassNext, main05
<1>3. PassSpec => [](PassTypeOK /\ AvailableIsFree)
  BY <1>1, <1>2, PTL DEF PassSpec
<1> QED
  BY <1>3, PTL

\* Workers and connections, for every number of workers, children and connections, while
\* workers end at any point: the pools, the servers that wait in accept, and serv05.
THEOREM WorkersAreSound == PoolSpec /\ ConnSpec /\ PassSpec => []WorkersSound
<1>1. PoolInv /\ ConnInv /\ AvailableIsFree => WorkersSound
  BY DEF WorkersSound
<1> QED
  BY <1>1, PoolInvariant, ConnInvariant, PassAvailable, PTL
=============================================================================
