------------------------ MODULE EpollReactorProofs ------------------------
(***************************************************************************)
(* Proofs about EpollReactor, for any number of connections, slots and     *)
(* descriptors.  The results about slots and buffers are about the "slot"  *)
(* variant (test.c); ReactorInv is their inductive invariant.              *)
(***************************************************************************)
EXTENDS EpollReactor, SequenceTheorems, TLAPS

\* The second of two assignments to the same element of an array wins.
LEMMA OverwriteTwice ==
    ASSUME NEW S, NEW T, NEW f \in [S -> T], NEW x \in S, NEW a, NEW b
    PROVE  [[f EXCEPT ![x] = a] EXCEPT ![x] = b] = [f EXCEPT ![x] = b]
BY Zenon

(***************************************************************************)
(* What the callbacks do to slots and tree, with the calls of eventdel,    *)
(* eventset and eventadd composed.                                         *)
(***************************************************************************)
Rearm(i, ev, cb, buf) ==
    /\ g' = [g EXCEPT ![i] = myevent_s(g[i].fd, ev, i, cb, 1, buf)]
    /\ tree' = [tree EXCEPT ![g[i].fd] = [ptr |-> i, events |-> ev]]

Release(i) ==
    /\ g' = [g EXCEPT ![i].status = 0]
    /\ tree' = [tree EXCEPT ![g[i].fd] = Absent]
    /\ open' = [open EXCEPT ![g[i].fd] = NoConn]
    /\ phase' = [c \in Conn |-> IF c = open[g[i].fd] THEN "closed" ELSE phase[c]]

\* Facts about types that most steps need.
LEMMA Types ==
    ASSUME TypeOK
    PROVE  /\ g \in [Slot -> SlotRecord] /\ tree \in [Fd -> TreeEntry]
           /\ open \in [Fd -> Conn \cup {NoConn}]
           /\ MaxEvents \in Slot /\ NoSlot \notin Slot
           /\ NoConn \notin Conn
           /\ \A j \in Slot : g[j] \in SlotRecord /\ g[j].fd \in Fd
<1>1. g \in [Slot -> SlotRecord] /\ tree \in [Fd -> TreeEntry]
  BY DEF TypeOK
<1>2. open \in [Fd -> Conn \cup {NoConn}]
  BY DEF TypeOK
<1>3. MaxEvents \in Slot /\ NoSlot \notin Slot /\ NoConn \notin Conn
  BY ReactorAssumption DEF Slot, NoSlot
<1>4. \A j \in Slot : g[j] \in SlotRecord /\ g[j].fd \in Fd
  BY <1>1 DEF SlotRecord
<1> QED
  BY <1>1, <1>2, <1>3, <1>4

Cleared(ss, i, fd, x) ==
    ss.g = [g EXCEPT ![i] = x] /\ ss.tree = [tree EXCEPT ![fd] = Absent]

Filled(r, i, fd, ev, cb, buf) ==
    /\ r.g = [g EXCEPT ![i] = myevent_s(fd, ev, i, cb, 1, buf)]
    /\ r.tree = [tree EXCEPT ![fd] = [ptr |-> i, events |-> ev]]

\* eventset and eventadd on a slot whose descriptor is not in the tree leave it
\* registered for the new event; what the slot held before is overwritten.
LEMMA SetAdd ==
    ASSUME TypeOK, NEW i \in Slot, NEW fd \in Fd, NEW x, NEW ss, NEW ev, NEW cb,
           Cleared(ss, i, fd, x)
    PROVE  Filled(eventadd(eventset(ss, i, fd, cb, i), i, ev, TRUE), i, fd, ev, cb, x.buf)
<1> DEFINE arg == i
           r == eventadd(eventset(ss, i, fd, cb, arg), i, ev, TRUE)
<1>1. g \in [Slot -> SlotRecord] /\ tree \in [Fd -> TreeEntry] /\ ss.g[i] = x
      /\ ss.g = [g EXCEPT ![i] = x] /\ ss.tree = [tree EXCEPT ![fd] = Absent]
  BY DEF TypeOK, Cleared
<1> DEFINE m == myevent_s(fd, "none", arg, cb, 0, x.buf)
           k == [ss.g EXCEPT ![i] = m]
<1>2. k = [g EXCEPT ![i] = m] /\ k[i] = m
  BY <1>1, Zenon
<1>3. /\ r.g = [k EXCEPT ![i] = myevent_s(k[i].fd, ev, k[i].arg, k[i].call_back, 1, k[i].buf)]
      /\ r.tree = CtlAdd(ss.tree, TRUE, k[i].fd, i, ev)
  BY <1>1 DEF eventadd, eventset
<1>4. m.fd = fd /\ m.arg = arg /\ m.call_back = cb /\ m.buf = x.buf
  BY DEF myevent_s
<1>5. r.g = [k EXCEPT ![i] = myevent_s(fd, ev, arg, cb, 1, x.buf)]
  BY <1>2, <1>3, <1>4, Zenon
<1>6. r.g = [g EXCEPT ![i] = myevent_s(fd, ev, arg, cb, 1, x.buf)]
  BY <1>2, <1>5, Zenon
<1>7. ss.tree[fd] = Absent
  BY <1>1
<1>8. r.tree = [ss.tree EXCEPT ![fd] = [ptr |-> i, events |-> ev]]
  BY <1>2, <1>3, <1>4, <1>7, Zenon DEF CtlAdd
<1>9. r.tree = [tree EXCEPT ![fd] = [ptr |-> i, events |-> ev]]
  BY <1>1, <1>8, Zenon
<1> QED
  BY <1>6, <1>9, Zenon DEF Filled

(***************************************************************************)
(* The effect of each callback in a state where ReactorInv holds.          *)
(***************************************************************************)

\* The slot of a pending event that a client callback handles.
LEMMA PendingSlot ==
    ASSUME TypeOK, ReactorInv, NEW e \in batch
    PROVE  /\ e.ptr \in Slot /\ g[e.ptr].status = 1 /\ g[e.ptr].arg = e.ptr
           /\ e.events = g[e.ptr].events
           /\ g[e.ptr] \in SlotRecord /\ g[e.ptr].fd \in Fd
           /\ tree[g[e.ptr].fd] = [ptr |-> e.ptr, events |-> g[e.ptr].events]
           /\ g[e.ptr].call_back \in {"recvdata", "senddata"} =>
                 /\ e.ptr # MaxEvents
                 /\ open[g[e.ptr].fd] \in Conn
                 /\ IsOpen(g[e.ptr].fd)
                 /\ open[g[e.ptr].fd] # NoConn
<1>1. e.ptr \in Slot /\ g[e.ptr] \in SlotRecord
  BY DEF TypeOK
<1>2. g[e.ptr].fd \in Fd
  BY <1>1 DEF SlotRecord
<1>3. g[e.ptr].status = 1 /\ e.events = g[e.ptr].events
  BY DEF ReactorInv, BatchFresh
<1>4. g[e.ptr].arg = e.ptr
  BY <1>1, <1>3 DEF ReactorInv, SlotShape
<1>5. tree[g[e.ptr].fd] = [ptr |-> e.ptr, events |-> g[e.ptr].events]
  BY <1>1, <1>3 DEF ReactorInv, StatusMirrorsTree
<1>6. ASSUME g[e.ptr].call_back \in {"recvdata", "senddata"}
      PROVE  e.ptr # MaxEvents /\ open[g[e.ptr].fd] \in Conn
  BY <1>1, <1>3, <1>6 DEF ReactorInv, SlotShape
<1>7. NoConn \notin Conn
  BY ReactorAssumption
<1> QED
  BY <1>1, <1>2, <1>3, <1>4, <1>5, <1>6, <1>7 DEF IsOpen

\* recvdata with data: the slot now waits to send what was received.
LEMMA RecvEffect ==
    ASSUME TypeOK, ReactorInv, NEW e \in batch, recvdata_data(e)
    PROVE  \E buf :
             LET c == open[g[e.ptr].fd]
                 avail == sent[c] - taken[c]
                 len == IF avail < BufLen THEN avail ELSE BufLen
             IN  /\ buf = [k \in 1 .. len |-> <<c, taken[c] + k>>]
                 /\ Rearm(e.ptr, "out", "senddata", buf)
                 /\ taken' = [taken EXCEPT ![c] = @ + len]
<1> DEFINE i == e.ptr
           fd == g[i].fd
           c == open[fd]
           avail == sent[c] - taken[c]
           len == IF avail < BufLen THEN avail ELSE BufLen
           buf == [k \in 1 .. len |-> <<c, taken[c] + k>>]
           x == [[g[i] EXCEPT !.status = 0] EXCEPT !.buf = buf]
           del == eventdel(State, i)
           got == [g |-> [del.g EXCEPT ![i].buf = buf], tree |-> del.tree]
<1>1. /\ i \in Slot /\ g[i].status = 1 /\ g[i].arg = i /\ fd \in Fd
      /\ g[i] \in SlotRecord
      /\ IsOpen(fd)
  BY PendingSlot, Zenon DEF recvdata_data, Calls
<1>2. g \in [Slot -> SlotRecord] /\ tree \in [Fd -> TreeEntry]
  BY DEF TypeOK
<1>3. del.g = [g EXCEPT ![i].status = 0] /\ del.tree = [tree EXCEPT ![fd] = Absent]
  BY <1>1 DEF eventdel, State
<1>4. [del.g EXCEPT ![i].buf = buf] = [g EXCEPT ![i] = x]
  BY <1>1, <1>2, <1>3, ZenonT(30)
<1>5. Cleared(got, i, fd, x)
  BY <1>3, <1>4, Zenon DEF Cleared
<1>6. x.buf = buf
  BY <1>1 DEF SlotRecord
<1>7. /\ taken' = [taken EXCEPT ![c] = @ + len]
      /\ Become(eventadd(eventset(got, i, fd, "senddata", i), i, "out", IsOpen(fd)))
  BY <1>1, ZenonT(30) DEF recvdata_data
<1>8. IsOpen(fd) = TRUE
  BY <1>1 DEF IsOpen
<1>9. Become(eventadd(eventset(got, i, fd, "senddata", i), i, "out", TRUE))
  BY <1>7, <1>8, ZenonT(30)
<1>10. /\ g' = [g EXCEPT ![i] = myevent_s(fd, "out", i, "senddata", 1, x.buf)]
       /\ tree' = [tree EXCEPT ![fd] = [ptr |-> i, events |-> "out"]]
  <2>1. Filled(eventadd(eventset(got, i, fd, "senddata", i), i, "out", TRUE),
               i, fd, "out", "senddata", x.buf)
    <3> HIDE DEF got, x, i, fd
    <3> QED  BY <1>1, <1>5, SetAdd, Zenon
  <2> QED
    BY <1>9, <2>1, Zenon DEF Become, Filled
<1> QED
  BY <1>6, <1>7, <1>10, ZenonT(30) DEF Rearm

\* senddata with data: the slot waits to receive again.
LEMMA SendEffect ==
    ASSUME TypeOK, ReactorInv, NEW e \in batch, senddata_data(e)
    PROVE  Rearm(e.ptr, "in", "recvdata", g[e.ptr].buf)
<1> DEFINE i == e.ptr
           fd == g[i].fd
           x == [g[i] EXCEPT !.status = 0]
           del == eventdel(State, i)
<1>1. /\ i \in Slot /\ g[i].status = 1 /\ g[i].arg = i /\ fd \in Fd
      /\ g[i] \in SlotRecord
      /\ IsOpen(fd)
  BY PendingSlot, Zenon DEF senddata_data, Calls
<1>2. g \in [Slot -> SlotRecord] /\ tree \in [Fd -> TreeEntry]
  BY DEF TypeOK
<1>3. del.g = [g EXCEPT ![i].status = 0] /\ del.tree = [tree EXCEPT ![fd] = Absent]
  BY <1>1 DEF eventdel, State
<1>4. Cleared(del, i, fd, x)
  BY <1>1, <1>2, <1>3 DEF Cleared
<1>5. x.buf = g[i].buf
  BY <1>1 DEF SlotRecord
<1>6. Become(eventadd(eventset(del, i, fd, "recvdata", i), i, "in", IsOpen(fd)))
  BY <1>1, Zenon DEF senddata_data
<1>7. IsOpen(fd) = TRUE
  BY <1>1 DEF IsOpen
<1>8. Filled(eventadd(eventset(del, i, fd, "recvdata", i), i, "in", TRUE),
             i, fd, "in", "recvdata", x.buf)
  <2> HIDE DEF del, x, i, fd
  <2> QED  BY <1>1, <1>4, SetAdd, Zenon
<1> QED
  BY <1>5, <1>6, <1>7, <1>8, Zenon DEF Become, Filled, Rearm

\* recvdata and senddata when the connection is over: the slot is free and its
\* own descriptor closed.
LEMMA CloseEffect ==
    ASSUME TypeOK, ReactorInv, NEW e \in batch, recvdata_close(e) \/ senddata_close(e)
    PROVE  Release(e.ptr)
<1>1. /\ e.ptr \in Slot /\ g[e.ptr].status = 1 /\ g[e.ptr].arg = e.ptr
      /\ g[e.ptr].fd \in Fd
  BY PendingSlot, Zenon DEF recvdata_close, senddata_close, Calls
<1>2. tree \in [Fd -> TreeEntry]
  BY DEF TypeOK
<1>3. Close(eventdel(State, e.ptr), g[e.ptr].fd)
  BY <1>1 DEF recvdata_close, senddata_close
<1>4. /\ eventdel(State, e.ptr).g = [g EXCEPT ![e.ptr].status = 0]
      /\ eventdel(State, e.ptr).tree = [tree EXCEPT ![g[e.ptr].fd] = Absent]
  BY <1>1 DEF eventdel, State
<1>5. tree' = [tree EXCEPT ![g[e.ptr].fd] = Absent]
  BY <1>1, <1>2, <1>3, <1>4, OverwriteTwice, Zenon DEF Close
<1> QED
  BY <1>3, <1>4, <1>5, Zenon DEF Close, Release

\* acceptconn with a free slot: a slot and a descriptor that were both unused.
LEMMA AcceptEffect ==
    ASSUME TypeOK, ReactorInv, AcceptArg = "slot", NEW e \in batch, acceptconn(e)
    PROVE  \E cfd \in Fd :
             /\ open[cfd] = NoConn /\ cfd > Lfd /\ tree[cfd] = Absent
             /\ open' = [open EXCEPT ![cfd] = Head(backlog)]
             /\ \/ FreeSlot = {} /\ UNCHANGED <<g, tree>>
                \/ \E i \in Slot : /\ i # MaxEvents /\ g[i].status = 0
                                   /\ g' = [g EXCEPT ![i] = myevent_s(cfd, "in", i, "recvdata", 1, g[i].buf)]
                                   /\ tree' = [tree EXCEPT ![cfd] = [ptr |-> i, events |-> "in"]]
<1>1. PICK cfd \in Fd :
        /\ IsLowest(cfd, FreeFd)
        /\ open' = [open EXCEPT ![cfd] = Head(backlog)]
        /\ \/ FreeSlot = {} /\ UNCHANGED <<g, tree>>
           \/ \E i \in Slot :
                /\ IsLowest(i, FreeSlot)
                /\ Become(eventadd(eventset(State, i, cfd, "recvdata", AcceptArgOf(i)),
                                   i, "in", TRUE))
  BY Zenon DEF acceptconn
<1>2. open[cfd] = NoConn /\ cfd > Lfd
  BY <1>1 DEF IsLowest, FreeFd
<1>3. tree[cfd] = Absent
  <2> SUFFICES ASSUME tree[cfd] # Absent PROVE FALSE
    OBVIOUS
  <2> DEFINE j == tree[cfd].ptr
  <2>1. j \in Slot /\ g[j].fd = cfd /\ g[j].status = 1
    BY DEF ReactorInv, StatusMirrorsTree
  <2>2. CASE j = MaxEvents
    BY <2>1, <2>2, <1>2 DEF ReactorInv, SlotShape, Lfd
  <2>3. CASE j # MaxEvents
    BY <2>1, <2>3, <1>2, ReactorAssumption DEF ReactorInv, SlotShape
  <2> QED  BY <2>2, <2>3
<1>4. ASSUME NEW i \in Slot, IsLowest(i, FreeSlot),
             Become(eventadd(eventset(State, i, cfd, "recvdata", AcceptArgOf(i)), i, "in", TRUE))
      PROVE  /\ i # MaxEvents /\ g[i].status = 0
             /\ g' = [g EXCEPT ![i] = myevent_s(cfd, "in", i, "recvdata", 1, g[i].buf)]
             /\ tree' = [tree EXCEPT ![cfd] = [ptr |-> i, events |-> "in"]]
  <2>1. i # MaxEvents /\ g[i].status = 0
    BY <1>4, ReactorAssumption DEF IsLowest, FreeSlot
  <2>2. AcceptArgOf(i) = i
    BY DEF AcceptArgOf
  <2>3. Cleared(State, i, cfd, g[i])
    BY <1>3 DEF Cleared, State, TypeOK
  <2>4. Filled(eventadd(eventset(State, i, cfd, "recvdata", i), i, "in", TRUE),
               i, cfd, "in", "recvdata", g[i].buf)
    BY <2>3, SetAdd, Zenon
  <2> QED
    BY <1>4, <2>1, <2>2, <2>4, Zenon DEF Become, Filled
<1> QED
  BY <1>1, <1>2, <1>3, <1>4, Zenon

(***************************************************************************)
(* Preservation of StatusMirrorsTree.                                      *)
(***************************************************************************)
\* A slot taken out of the tree by eventdel and put back for the other event
\* (recvdata, senddata) still agrees with its entry; the others are untouched.
LEMMA RearmMirrors ==
    ASSUME TypeOK, StatusMirrorsTree, NEW i \in Slot, g[i].status = 1,
           NEW ev, NEW cb, NEW buf, Rearm(i, ev, cb, buf)
    PROVE  StatusMirrorsTree'
<1>1. /\ g \in [Slot -> SlotRecord] /\ tree \in [Fd -> TreeEntry]
      /\ \A j \in Slot : g[j].fd \in Fd
  BY DEF TypeOK, SlotRecord
<1>2. /\ g'[i].fd = g[i].fd /\ g'[i].status = 1 /\ g'[i].events = ev
      /\ \A j \in Slot : j # i => g'[j] = g[j]
  BY <1>1 DEF Rearm, myevent_s
<1>3. /\ tree'[g[i].fd] = [ptr |-> i, events |-> ev]
      /\ \A f \in Fd : f # g[i].fd => tree'[f] = tree[f]
  BY <1>1 DEF Rearm
<1>4. tree[g[i].fd] = [ptr |-> i, events |-> g[i].events] /\ tree[g[i].fd].ptr = i
  BY DEF StatusMirrorsTree
<1>5. ASSUME NEW j \in Slot, g'[j].status = 1
      PROVE  tree'[g'[j].fd] = [ptr |-> j, events |-> g'[j].events]
  <2>1. CASE j = i
    BY <2>1, <1>2, <1>3
  <2>2. CASE j # i
    <3>1. tree[g[j].fd].ptr = j /\ tree[g[j].fd] = [ptr |-> j, events |-> g[j].events]
      BY <2>2, <1>2, <1>5 DEF StatusMirrorsTree
    <3>2. g[j].fd # g[i].fd
      BY <3>1, <1>4, <2>2
    <3> QED
      BY <3>1, <3>2, <1>1, <1>2, <1>3, <2>2
  <2> QED  BY <2>1, <2>2
<1>6. ASSUME NEW f \in Fd, tree'[f] # Absent
      PROVE  tree'[f].ptr \in Slot /\ g'[tree'[f].ptr].fd = f /\ g'[tree'[f].ptr].status = 1
  <2>1. CASE f = g[i].fd
    BY <2>1, <1>2, <1>3
  <2>2. CASE f # g[i].fd
    <3>1. tree'[f] = tree[f]
      BY <2>2, <1>3
    <3>2. tree[f].ptr \in Slot /\ g[tree[f].ptr].fd = f /\ g[tree[f].ptr].status = 1
      BY <3>1, <1>6 DEF StatusMirrorsTree
    <3>3. tree[f].ptr # i
      BY <3>2, <2>2
    <3> QED
      BY <3>1, <3>2, <3>3, <1>2
  <2> QED  BY <2>1, <2>2
<1> QED
  BY <1>5, <1>6 DEF StatusMirrorsTree

\* Closing a slot's descriptor after eventdel leaves neither a listening slot
\* nor an entry for it.
LEMMA ReleaseMirrors ==
    ASSUME TypeOK, StatusMirrorsTree, NEW i \in Slot, g[i].status = 1, Release(i)
    PROVE  StatusMirrorsTree'
<1>1. /\ g \in [Slot -> SlotRecord] /\ tree \in [Fd -> TreeEntry]
      /\ \A j \in Slot : g[j].fd \in Fd /\ g[j] \in SlotRecord
  BY DEF TypeOK, SlotRecord
<1>2. g'[i].status = 0 /\ \A j \in Slot : j # i => g'[j] = g[j]
  BY <1>1 DEF Release, SlotRecord
<1>3. /\ tree'[g[i].fd] = Absent
      /\ \A f \in Fd : f # g[i].fd => tree'[f] = tree[f]
  BY <1>1 DEF Release
<1>4. tree[g[i].fd] = [ptr |-> i, events |-> g[i].events] /\ tree[g[i].fd].ptr = i
  BY DEF StatusMirrorsTree
<1>5. ASSUME NEW j \in Slot, g'[j].status = 1
      PROVE  tree'[g'[j].fd] = [ptr |-> j, events |-> g'[j].events]
  <2>1. j # i
    BY <1>2, <1>5
  <2>2. tree[g[j].fd].ptr = j /\ tree[g[j].fd] = [ptr |-> j, events |-> g[j].events]
    BY <2>1, <1>2, <1>5 DEF StatusMirrorsTree
  <2>3. g[j].fd # g[i].fd
    BY <2>1, <2>2, <1>4
  <2> QED
    BY <2>1, <2>2, <2>3, <1>1, <1>2, <1>3
<1>6. ASSUME NEW f \in Fd, tree'[f] # Absent
      PROVE  tree'[f].ptr \in Slot /\ g'[tree'[f].ptr].fd = f /\ g'[tree'[f].ptr].status = 1
  <2>1. f # g[i].fd /\ tree'[f] = tree[f]
    BY <1>3, <1>6
  <2>2. tree[f].ptr \in Slot /\ g[tree[f].ptr].fd = f /\ g[tree[f].ptr].status = 1
    BY <2>1, <1>6 DEF StatusMirrorsTree
  <2> QED
    BY <2>1, <2>2, <1>2
<1> QED
  BY <1>5, <1>6 DEF StatusMirrorsTree

\* acceptconn's new slot and the entry of the new descriptor agree.
LEMMA AcceptMirrors ==
    ASSUME TypeOK, StatusMirrorsTree, NEW i \in Slot, g[i].status = 0,
           NEW cfd \in Fd, tree[cfd] = Absent,
           g' = [g EXCEPT ![i] = myevent_s(cfd, "in", i, "recvdata", 1, g[i].buf)],
           tree' = [tree EXCEPT ![cfd] = [ptr |-> i, events |-> "in"]]
    PROVE  StatusMirrorsTree'
<1>1. /\ g \in [Slot -> SlotRecord] /\ tree \in [Fd -> TreeEntry]
      /\ \A j \in Slot : g[j].fd \in Fd
  BY DEF TypeOK, SlotRecord
<1>2. /\ g'[i].fd = cfd /\ g'[i].status = 1 /\ g'[i].events = "in"
      /\ \A j \in Slot : j # i => g'[j] = g[j]
  BY <1>1 DEF myevent_s
<1>3. /\ tree'[cfd] = [ptr |-> i, events |-> "in"]
      /\ \A f \in Fd : f # cfd => tree'[f] = tree[f]
  BY <1>1
<1>4. ASSUME NEW j \in Slot, g'[j].status = 1
      PROVE  tree'[g'[j].fd] = [ptr |-> j, events |-> g'[j].events]
  <2>1. CASE j = i
    BY <2>1, <1>2, <1>3
  <2>2. CASE j # i
    <3>1. tree[g[j].fd].ptr = j /\ tree[g[j].fd] = [ptr |-> j, events |-> g[j].events]
      BY <2>2, <1>2, <1>4 DEF StatusMirrorsTree
    <3>2. NoSlot \notin Slot
      BY ReactorAssumption DEF NoSlot, Slot
    <3>3. g[j].fd # cfd
      BY <3>1, <3>2 DEF Absent
    <3> QED
      BY <3>1, <3>3, <1>1, <1>2, <1>3, <2>2
  <2> QED  BY <2>1, <2>2
<1>5. ASSUME NEW f \in Fd, tree'[f] # Absent
      PROVE  tree'[f].ptr \in Slot /\ g'[tree'[f].ptr].fd = f /\ g'[tree'[f].ptr].status = 1
  <2>1. CASE f = cfd
    BY <2>1, <1>2, <1>3
  <2>2. CASE f # cfd
    <3>1. tree'[f] = tree[f]
      BY <2>2, <1>3
    <3>2. tree[f].ptr \in Slot /\ g[tree[f].ptr].fd = f /\ g[tree[f].ptr].status = 1
      BY <3>1, <1>5 DEF StatusMirrorsTree
    <3> QED
      BY <3>1, <3>2, <1>2
  <2> QED  BY <2>1, <2>2
<1> QED
  BY <1>4, <1>5 DEF StatusMirrorsTree

(***************************************************************************)
(* Preservation of SlotShape.                                              *)
(***************************************************************************)

\* Two listening slots never hold the same descriptor.
LEMMA DistinctFds ==
    ASSUME StatusMirrorsTree, NEW i \in Slot, NEW j \in Slot,
           g[i].status = 1, g[j].status = 1, g[i].fd = g[j].fd
    PROVE  i = j
<1>1. /\ tree[g[i].fd] = [ptr |-> i, events |-> g[i].events]
      /\ tree[g[j].fd] = [ptr |-> j, events |-> g[j].events]
  BY DEF StatusMirrorsTree
<1> QED
  BY <1>1

\* recvdata and senddata leave their slot in one of the two legal shapes.
LEMMA RearmShape ==
    ASSUME TypeOK, SlotShape, NEW i \in Slot, i # MaxEvents, g[i].status = 1,
           NEW ev, NEW cb, NEW buf, Rearm(i, ev, cb, buf),
           \/ ev = "in" /\ cb = "recvdata"
           \/ ev = "out" /\ cb = "senddata",
           UNCHANGED open
    PROVE  SlotShape'
<1>1. g \in [Slot -> SlotRecord] /\ MaxEvents \in Slot
  BY ReactorAssumption DEF TypeOK, Slot
<1>2. /\ g'[i].fd = g[i].fd /\ g'[i].status = 1 /\ g'[i].events = ev
      /\ g'[i].arg = i /\ g'[i].call_back = cb
      /\ \A j \in Slot : j # i => g'[j] = g[j]
  BY <1>1 DEF Rearm, myevent_s
<1> QED
  BY <1>1, <1>2 DEF SlotShape

\* A freed slot needs no shape, and no other listening slot held its descriptor.
LEMMA ReleaseShape ==
    ASSUME TypeOK, StatusMirrorsTree, SlotShape, NEW i \in Slot, i # MaxEvents,
           g[i].status = 1, Release(i)
    PROVE  SlotShape'
<1>1. /\ g \in [Slot -> SlotRecord] /\ MaxEvents \in Slot
      /\ open \in [Fd -> Conn \cup {NoConn}]
      /\ \A j \in Slot : g[j].fd \in Fd /\ g[j] \in SlotRecord
  BY Types
<1>2. g'[i].status = 0 /\ \A j \in Slot : j # i => g'[j] = g[j]
  BY <1>1 DEF Release, SlotRecord
<1>3. \A f \in Fd : f # g[i].fd => open'[f] = open[f]
  BY <1>1 DEF Release
<1>4. \A j \in Slot : j # i /\ g[j].status = 1 => open'[g[j].fd] = open[g[j].fd]
  BY <1>1, <1>3, DistinctFds
<1> QED
  BY <1>1, <1>2, <1>4 DEF SlotShape

\* acceptconn fills a free slot in the shape of a reading connection.
LEMMA AcceptShape ==
    ASSUME TypeOK, SlotShape, NEW i \in Slot, i # MaxEvents, NEW cfd \in Fd, NEW c \in Conn,
           open'[cfd] = c, \A f \in Fd : f # cfd => open'[f] = open[f],
           g'[i] = myevent_s(cfd, "in", i, "recvdata", 1, g[i].buf),
           \A j \in Slot : j # i => g'[j] = g[j]
    PROVE  SlotShape'
<1>1. MaxEvents \in Slot /\ \A j \in Slot : g[j].fd \in Fd
  BY Types
<1>2. /\ g'[i].fd = cfd /\ g'[i].status = 1 /\ g'[i].events = "in"
      /\ g'[i].arg = i /\ g'[i].call_back = "recvdata"
  BY DEF myevent_s
<1>3. \A f \in Fd : open[f] \in Conn => open'[f] \in Conn
  OBVIOUS
<1> QED
  BY <1>1, <1>2, <1>3 DEF SlotShape

(***************************************************************************)
(* Preservation of BatchFresh.                                             *)
(***************************************************************************)

\* Another pending event belongs to another slot.
LEMMA OtherEvent ==
    ASSUME TypeOK, ReactorInv, NEW e \in batch, NEW d \in batch, d # e
    PROVE  d.ptr # e.ptr
<1>1. /\ e = [ptr |-> e.ptr, events |-> e.events] /\ d = [ptr |-> d.ptr, events |-> d.events]
  BY DEF TypeOK
<1>2. e.events = g[e.ptr].events /\ d.events = g[d.ptr].events
  BY DEF ReactorInv, BatchFresh
<1> QED
  BY <1>1, <1>2

\* Listening slots of clients hold different connections.
LEMMA OtherConn ==
    ASSUME TypeOK, ReactorInv, NEW i \in Slot, NEW j \in Slot, i # j,
           i # MaxEvents, j # MaxEvents, g[i].status = 1, g[j].status = 1
    PROVE  /\ g[i].fd # g[j].fd
           /\ open[g[i].fd] # open[g[j].fd]
           /\ open[g[i].fd] \in Conn /\ open[g[j].fd] \in Conn
<1>1. g[i].fd # g[j].fd
  BY DistinctFds DEF ReactorInv
<1>2. open[g[i].fd] \in Conn /\ open[g[j].fd] \in Conn
  BY DEF ReactorInv, SlotShape
<1>3. g[i].fd \in Fd /\ g[j].fd \in Fd /\ NoConn \notin Conn
  BY Types
<1> QED
  BY <1>1, <1>2, <1>3 DEF ReactorInv, ConnOnce

\* What BatchFresh says of one event.
Fresh(e) ==
    /\ g[e.ptr].status = 1
    /\ e.events = g[e.ptr].events
    /\ LET c == open[g[e.ptr].fd]
       IN  /\ g[e.ptr].call_back = "recvdata" => taken[c] < sent[c] \/ fin[c] \/ rst[c]
           /\ g[e.ptr].call_back = "senddata" => unread[c] < OutCap \/ rst[c]

\* BatchFresh, event by event.
LEMMA BatchFreshDef == BatchFresh <=> \A e \in batch : Fresh(e)
BY DEF BatchFresh, Fresh

\* Every pending event is fresh.
LEMMA PendingFresh ==
    ASSUME ReactorInv, NEW e \in batch PROVE Fresh(e)
BY BatchFreshDef DEF ReactorInv

\* A callback that touches only its own slot, descriptor and connection keeps
\* the other events fresh.
LEMMA CallbackFresh ==
    ASSUME TypeOK, ReactorInv, NEW e \in batch,
           e.ptr # MaxEvents,
           batch' = batch \ {e},
           \A j \in Slot : j # e.ptr => g'[j] = g[j],
           \A f \in Fd : f # g[e.ptr].fd => open'[f] = open[f],
           \A c \in Conn : c # open[g[e.ptr].fd] =>
               taken'[c] = taken[c] /\ unread'[c] = unread[c],
           UNCHANGED <<sent, fin, rst>>
    PROVE  BatchFresh'
<1> SUFFICES ASSUME NEW d \in batch, d # e PROVE Fresh(d)'
  BY DEF BatchFresh, Fresh
<1>1. e.ptr \in Slot /\ d.ptr \in Slot /\ g[e.ptr].status = 1 /\ g[d.ptr].status = 1
  BY PendingSlot, Zenon
<1>2. d.ptr # e.ptr /\ g'[d.ptr] = g[d.ptr]
  BY <1>1, OtherEvent
<1>3. Fresh(d)
  BY PendingFresh
<1>4. CASE d.ptr = MaxEvents
  <2>1. g[d.ptr].call_back = "acceptconn"
    BY <1>1, <1>4 DEF ReactorInv, SlotShape
  <2> QED
    BY <1>2, <1>3, <2>1 DEF Fresh
<1>5. CASE d.ptr # MaxEvents
  <2>1. /\ g[d.ptr].fd # g[e.ptr].fd /\ open[g[d.ptr].fd] # open[g[e.ptr].fd]
        /\ open[g[d.ptr].fd] \in Conn
    BY <1>1, <1>2, <1>5, OtherConn
  <2>2. g[d.ptr].fd \in Fd
    BY <1>1, Types
  <2>3. open'[g[d.ptr].fd] = open[g[d.ptr].fd]
    BY <2>1, <2>2
  <2> QED
    BY <1>2, <1>3, <2>1, <2>3 DEF Fresh
<1> QED
  BY SMTT(30), <1>4, <1>5

(***************************************************************************)
(* Preservation of ConnOnce.                                               *)
(***************************************************************************)
\* close(ev->fd) keeps one descriptor per open connection.
LEMMA ReleaseOnce ==
    ASSUME TypeOK, ConnOnce, NEW i \in Slot, open[g[i].fd] \in Conn, Release(i),
           UNCHANGED <<backlog, sent, taken>>
    PROVE  ConnOnce'
<1>1. /\ open \in [Fd -> Conn \cup {NoConn}] /\ g[i].fd \in Fd /\ NoConn \notin Conn
      /\ backlog \in Seq(Conn)
  BY Types DEF TypeOK
<1>2. open'[g[i].fd] = NoConn /\ \A f \in Fd : f # g[i].fd => open'[f] = open[f]
  BY <1>1 DEF Release
<1>3. \A c \in Conn : phase'[c] = IF c = open[g[i].fd] THEN "closed" ELSE phase[c]
  BY DEF Release
<1>4. phase[open[g[i].fd]] = "open"
  BY <1>1 DEF ConnOnce
<1>5. ASSUME NEW f \in Fd, open'[f] # NoConn
      PROVE  f > Lfd /\ phase'[open'[f]] = "open"
  <2>1. f # g[i].fd /\ open'[f] = open[f] /\ open[f] \in Conn
    BY <1>1, <1>2, <1>5
  <2>2. open[f] # open[g[i].fd]
    BY <1>1, <2>1 DEF ConnOnce
  <2> QED
    BY <1>1, <1>3, <2>1, <2>2 DEF ConnOnce
<1>6. ASSUME NEW f \in Fd, NEW h \in Fd, open'[f] # NoConn, open'[f] = open'[h]
      PROVE  f = h
  BY <1>2, <1>6 DEF ConnOnce
<1>7. ASSUME NEW k \in 1 .. Len(backlog) PROVE phase'[backlog[k]] = "backlog"
  <2>1. backlog[k] \in Conn /\ phase[backlog[k]] = "backlog"
    BY <1>1 DEF ConnOnce
  <2> QED
    BY <1>3, <1>4, <2>1
<1> QED
  BY <1>5, <1>6, <1>7 DEF ConnOnce

\* accept moves the head of the queue to a descriptor no connection had.
LEMMA AcceptOnce ==
    ASSUME TypeOK, ConnOnce, backlog # <<>>, NEW cfd \in Fd, open[cfd] = NoConn, cfd > Lfd,
           open' = [open EXCEPT ![cfd] = Head(backlog)],
           backlog' = Tail(backlog),
           phase' = [phase EXCEPT ![Head(backlog)] = "open"],
           UNCHANGED <<sent, taken>>
    PROVE  ConnOnce'
<1> DEFINE c == Head(backlog)
<1>1. /\ open \in [Fd -> Conn \cup {NoConn}] /\ NoConn \notin Conn
      /\ backlog \in Seq(Conn)
      /\ phase \in [Conn -> {"idle", "backlog", "open", "closed"}]
  BY Types, Zenon DEF TypeOK
<1>2. /\ c \in Conn /\ c = backlog[1] /\ Len(backlog) \in Nat /\ Len(backlog) >= 1
      /\ Len(backlog') = Len(backlog) - 1
      /\ \A k \in 1 .. Len(backlog') : k + 1 \in 1 .. Len(backlog) /\ backlog'[k] = backlog[k + 1]
  BY <1>1
<1>3. /\ open'[cfd] = c /\ \A f \in Fd : f # cfd => open'[f] = open[f]
      /\ phase'[c] = "open" /\ \A d \in Conn : d # c => phase'[d] = phase[d]
  BY <1>1, <1>2
<1>4. phase[c] = "backlog"
  BY <1>2 DEF ConnOnce
<1>5. \A f \in Fd : open[f] # c
  BY <1>2, <1>4, <1>1 DEF ConnOnce
<1>6. ASSUME NEW f \in Fd, open'[f] # NoConn
      PROVE  f > Lfd /\ phase'[open'[f]] = "open"
  <2>1. CASE f = cfd
    BY <2>1, <1>3
  <2>2. CASE f # cfd
    BY <2>2, <1>1, <1>3, <1>5, <1>6 DEF ConnOnce
  <2> QED  BY <2>1, <2>2
<1>7. ASSUME NEW f \in Fd, NEW h \in Fd, open'[f] # NoConn, open'[f] = open'[h]
      PROVE  f = h
  BY <1>3, <1>5, <1>7 DEF ConnOnce
<1>8. ASSUME NEW k \in 1 .. Len(backlog') PROVE phase'[backlog'[k]] = "backlog"
  <2>1. k + 1 \in 1 .. Len(backlog) /\ backlog'[k] = backlog[k + 1] /\ k + 1 # 1
    BY <1>2
  <2>2. backlog[k + 1] # backlog[1]
    BY <1>2, <2>1 DEF ConnOnce
  <2>3. backlog[k + 1] \in Conn
    BY <1>1, <2>1
  <2> QED
    BY <1>2, <1>3, <2>1, <2>2, <2>3 DEF ConnOnce
<1>9. ASSUME NEW j \in 1 .. Len(backlog'), NEW k \in 1 .. Len(backlog'), backlog'[j] = backlog'[k]
      PROVE  j = k
  <2>1. j + 1 = k + 1
    BY <1>2, <1>9 DEF ConnOnce
  <2> QED  BY <2>1, <1>2
<1> QED
  BY <1>6, <1>7, <1>8, <1>9 DEF ConnOnce

\* A new connection enters the queue once.
LEMMA ConnectOnce ==
    ASSUME TypeOK, ConnOnce, NEW c \in Conn, Connect(c)
    PROVE  ConnOnce'
<1>1. /\ open \in [Fd -> Conn \cup {NoConn}] /\ NoConn \notin Conn
      /\ backlog \in Seq(Conn)
      /\ phase \in [Conn -> {"idle", "backlog", "open", "closed"}]
  BY Types DEF TypeOK
<1>2. /\ Len(backlog) \in Nat /\ Len(backlog') = Len(backlog) + 1
      /\ backlog'[Len(backlog) + 1] = c
      /\ \A k \in 1 .. Len(backlog) : backlog'[k] = backlog[k] /\ backlog[k] \in Conn
  BY <1>1 DEF Connect
<1>3. /\ phase[c] = "idle" /\ phase'[c] = "backlog"
      /\ \A d \in Conn : d # c => phase'[d] = phase[d]
      /\ open' = open /\ sent' = sent /\ taken' = taken
  BY <1>1 DEF Connect, client
<1>4. \A k \in 1 .. Len(backlog) : backlog[k] # c
  BY <1>2, <1>3 DEF ConnOnce
<1>5. \A k \in 1 .. Len(backlog') : phase'[backlog'[k]] = "backlog"
  BY <1>2, <1>3, <1>4 DEF ConnOnce
<1>6. \A j, k \in 1 .. Len(backlog') : backlog'[j] = backlog'[k] => j = k
  BY <1>2, <1>4 DEF ConnOnce
<1>7. \A f \in Fd : open'[f] # NoConn => f > Lfd /\ phase'[open'[f]] = "open"
  BY <1>1, <1>3 DEF ConnOnce
<1> QED
  BY <1>3, <1>5, <1>6, <1>7 DEF ConnOnce

(***************************************************************************)
(* Preservation of BufferNext and EchoInOrder.                             *)
(***************************************************************************)

\* What BufferNext says of one slot.
NextOf(i) ==
    LET c == open[g[i].fd]
        buf == g[i].buf
    IN  /\ buf # <<>>
        /\ \A k \in 1 .. Len(buf) : buf[k][1] = c /\ buf[k][2] <= taken[c]
        /\ \A j, k \in 1 .. Len(buf) : j < k => buf[j][2] < buf[k][2]
        /\ \A j \in 1 .. Len(echo[c]), k \in 1 .. Len(buf) : echo[c][j][2] < buf[k][2]

\* BufferNext, slot by slot.
LEMMA BufferNextDef ==
    BufferNext <=> \A i \in Slot : g[i].status = 1 /\ g[i].call_back = "senddata" => NextOf(i)
BY SMTT(30) DEF BufferNext, NextOf

\* A slot whose record, connection, received count and echo are unchanged.
LEMMA SameNext ==
    ASSUME NEW j \in Slot, NextOf(j), g'[j] = g[j],
           open'[g[j].fd] = open[g[j].fd],
           taken'[open[g[j].fd]] = taken[open[g[j].fd]],
           echo'[open[g[j].fd]] = echo[open[g[j].fd]]
    PROVE  NextOf(j)'
BY DEF NextOf

\* A callback keeps BufferNext if it leaves the other slots' connections alone
\* and its own slot is not waiting to send, or is and continues the echo.
LEMMA CallbackNext ==
    ASSUME TypeOK, ReactorInv, NEW i \in Slot, i # MaxEvents, g[i].status = 1,
           \A j \in Slot : j # i => g'[j] = g[j],
           \A f \in Fd : f # g[i].fd => open'[f] = open[f],
           \A c \in Conn : c # open[g[i].fd] => taken'[c] = taken[c] /\ echo'[c] = echo[c],
           g'[i].status = 1 /\ g'[i].call_back = "senddata" => NextOf(i)'
    PROVE  BufferNext'
<1> SUFFICES ASSUME NEW j \in Slot, g'[j].status = 1, g'[j].call_back = "senddata"
             PROVE  NextOf(j)'
  BY DEF BufferNext, NextOf
<1>1. CASE j = i
  BY <1>1
<1>2. CASE j # i
  <2>1. g'[j] = g[j] /\ g[j].status = 1 /\ g[j].call_back = "senddata"
    BY <1>2
  <2>2. j # MaxEvents
    BY <2>1 DEF ReactorInv, SlotShape
  <2>3. NextOf(j)
    BY <2>1, BufferNextDef DEF ReactorInv
  <2>4. /\ g[j].fd # g[i].fd /\ open[g[j].fd] # open[g[i].fd] /\ open[g[j].fd] \in Conn
    BY <1>2, <2>1, <2>2, OtherConn
  <2>5. g[j].fd \in Fd
    BY SMTT(30), Types
  <2> QED
    BY <2>1, <2>3, <2>4, <2>5, SameNext
<1> QED
  BY SMTT(30), <1>1, <1>2

\* The buffer recvdata fills continues the echo of its connection.
LEMMA RecvNext ==
    ASSUME TypeOK, ReactorInv, NEW i \in Slot, open[g[i].fd] \in Conn,
           NEW len \in Nat, len > 0,
           g'[i].fd = g[i].fd,
           g'[i].buf = [k \in 1 .. len |-> <<open[g[i].fd], taken[open[g[i].fd]] + k>>],
           taken'[open[g[i].fd]] = taken[open[g[i].fd]] + len,
           UNCHANGED <<open, echo>>
    PROVE  NextOf(i)'
<1> DEFINE c == open[g[i].fd]
           buf == [k \in 1 .. len |-> <<c, taken[c] + k>>]
<1>1. taken[c] \in Nat /\ echo[c] \in Seq(Byte)
  BY ReactorAssumption DEF TypeOK
<1>2. buf \in Seq(Conn \X Nat) /\ Len(buf) = len /\ \A k \in 1 .. len : buf[k] = <<c, taken[c] + k>>
  BY <1>1
<1>3. buf # <<>>
  <2> SUFFICES ASSUME buf = <<>> PROVE FALSE
    BY Zenon
  <2>1. Len(buf) = 0
    BY EmptySeq, Zenon
  <2> QED  BY <1>2, <2>1
<1>4. \A j \in 1 .. Len(echo[c]) : echo[c][j][2] <= taken[c] /\ echo[c][j][2] \in Nat
  <2> TAKE j \in 1 .. Len(echo[c])
  <2>1. DOMAIN echo[c] = 1 .. Len(echo[c]) /\ echo[c][j] \in Byte
    BY SMTT(30), <1>1, LenProperties, ElementOfSeq
  <2>2. echo[c][j][2] \in 1 .. MaxBytes
    BY <2>1 DEF Byte
  <2>3. echo[c][j][2] <= taken[c]
    BY <2>1 DEF ReactorInv, EchoInOrder
  <2>4. MaxBytes \in Nat
    BY SMTT(30), ReactorAssumption
  <2> QED  BY <2>2, <2>3, <2>4
<1>5. \A k \in 1 .. len : buf[k][1] = c /\ buf[k][2] = taken[c] + k
  BY <1>2
<1> HIDE DEF buf
<1>6. /\ \A k \in 1 .. Len(buf) : buf[k][1] = c /\ buf[k][2] <= taken[c] + len
      /\ \A j, k \in 1 .. Len(buf) : j < k => buf[j][2] < buf[k][2]
      /\ \A j \in 1 .. Len(echo[c]), k \in 1 .. Len(buf) : echo[c][j][2] < buf[k][2]
  <2>1. \A k \in 1 .. Len(buf) : buf[k][1] = c /\ buf[k][2] <= taken[c] + len
    BY <1>1, <1>2, <1>5
  <2>2. \A j, k \in 1 .. Len(buf) : j < k => buf[j][2] < buf[k][2]
    <3> SUFFICES ASSUME NEW j \in 1 .. Len(buf), NEW k \in 1 .. Len(buf), j < k
                 PROVE  buf[j][2] < buf[k][2]
      BY SMTT(30)
    <3>1. buf[k][2] = taken[c] + k /\ buf[j][2] = taken[c] + j /\ k \in Nat /\ j \in Nat
      BY <1>2, <1>5
    <3> HIDE DEF c
    <3> QED  BY <3>1, <1>1
  <2>3. \A j \in 1 .. Len(echo[c]), k \in 1 .. Len(buf) : echo[c][j][2] < buf[k][2]
    <3> SUFFICES ASSUME NEW j \in 1 .. Len(echo[c]), NEW k \in 1 .. Len(buf)
                 PROVE  echo[c][j][2] < buf[k][2]
      BY SMTT(30)
    <3>1. buf[k][2] = taken[c] + k /\ k \in Nat /\ k > 0
      BY <1>2, <1>5
    <3>2. echo[c][j][2] <= taken[c] /\ echo[c][j][2] \in Nat
      BY <1>4
    <3> HIDE DEF c
    <3> QED  BY SMTT(30), <3>1, <3>2, <1>1
  <2> QED  BY ZenonT(30), <2>1, <2>2, <2>3
<1>7. g'[i].buf = buf
  BY DEF buf
<1> QED
  BY <1>3, <1>6, <1>7, Zenon DEF NextOf

\* The sequence of bytes s is of connection c, in order, and goes up to t.
Ordered(s, c, t) ==
    /\ \A k \in 1 .. Len(s) : s[k][1] = c /\ s[k][2] <= t
    /\ \A j, k \in 1 .. Len(s) : j < k => s[j][2] < s[k][2]

\* Appending the first bytes of a later ordered sequence keeps the order.
LEMMA OrderedAppend ==
    ASSUME NEW q \in Seq(Byte), NEW b \in Seq(Byte), NEW len \in 0 .. Len(b),
           NEW c, NEW t, Ordered(q, c, t), Ordered(b, c, t),
           \A j \in 1 .. Len(q), k \in 1 .. Len(b) : q[j][2] < b[k][2]
    PROVE  /\ q \o SubSeq(b, 1, len) \in Seq(Byte)
           /\ Ordered(q \o SubSeq(b, 1, len), c, t)
<1>1. Len(q) \in Nat /\ Len(b) \in Nat /\ len \in Nat /\ len <= Len(b)
  BY LenProperties
<1>2. PICK p : p = SubSeq(b, 1, len)
  BY Zenon
<1>3. \A k \in 1 .. len : b[k] \in Byte
  BY <1>1, ElementOfSeq
<1>4. p \in Seq(Byte) /\ Len(p) = len /\ \A k \in 1 .. len : p[k] = b[k]
  BY <1>1, <1>2, <1>3, SubSeqProperties
<1>5. PICK n : n = q \o p
  BY Zenon
<1>6. /\ n \in Seq(Byte) /\ Len(n) = Len(q) + len
      /\ \A k \in 1 .. Len(q) + len : n[k] = IF k <= Len(q) THEN q[k] ELSE p[k - Len(q)]
  <2>1. p \in Seq(Byte) /\ Len(p) = len
    BY <1>4
  <2> HIDE <1>4
  <2>2. /\ q \o p \in Seq(Byte)
        /\ Len(q \o p) = Len(q) + Len(p)
        /\ \A i \in 1 .. Len(q) + Len(p) : (q \o p)[i] =
                IF i <= Len(q) THEN q[i] ELSE p[i - Len(q)]
    BY <2>1, ConcatProperties, Zenon
  <2> QED  BY <1>5, <2>1, <2>2
<1>7. ASSUME NEW k \in 1 .. Len(n)
      PROVE  \/ k \in 1 .. Len(q) /\ n[k] = q[k]
             \/ k > Len(q) /\ k - Len(q) \in 1 .. Len(b) /\ n[k] = b[k - Len(q)]
  BY <1>1, <1>4, <1>6, <1>7
<1>8. \A k \in 1 .. Len(n) : n[k][1] = c /\ n[k][2] <= t
  BY <1>7 DEF Ordered
<1>9. ASSUME NEW j \in 1 .. Len(n), NEW k \in 1 .. Len(n), j < k
      PROVE  n[j][2] < n[k][2]
  <2>1. CASE k \in 1 .. Len(q)
    <3>1. j \in 1 .. Len(q) /\ n[j] = q[j] /\ n[k] = q[k]
      BY <2>1, <1>1, <1>6, <1>7, <1>9
    <3> QED  BY <3>1, <2>1, <1>9 DEF Ordered
  <2>2. CASE k > Len(q) /\ j > Len(q)
    <3>1. /\ j - Len(q) \in 1 .. Len(b) /\ k - Len(q) \in 1 .. Len(b)
          /\ n[j] = b[j - Len(q)] /\ n[k] = b[k - Len(q)] /\ j - Len(q) < k - Len(q)
      BY <2>2, <1>1, <1>6, <1>7, <1>9
    <3> QED  BY <3>1 DEF Ordered
  <2>3. CASE k > Len(q) /\ j <= Len(q)
    <3>1. /\ j \in 1 .. Len(q) /\ k - Len(q) \in 1 .. Len(b)
          /\ n[j] = q[j] /\ n[k] = b[k - Len(q)]
      BY <2>3, <1>1, <1>6, <1>7, <1>9
    <3> QED  BY <3>1
  <2> QED  BY <2>1, <2>2, <2>3, <1>1, <1>6
<1>10. Ordered(n, c, t)
  BY <1>8, <1>9 DEF Ordered
<1> QED
  BY <1>2, <1>5, <1>6, <1>10

\* EchoInOrder, connection by connection, over 1 .. Len instead of DOMAIN.
LEMMA EchoInOrderDef ==
    ASSUME echo \in [Conn -> Seq(Byte)]
    PROVE  EchoInOrder <=> \A c \in Conn : Ordered(echo[c], c, taken[c])
<1>1. \A c \in Conn : DOMAIN echo[c] = 1 .. Len(echo[c])
  BY LenProperties
<1> QED
  BY <1>1 DEF EchoInOrder, Ordered

\* What senddata appends keeps the echo of its connection in order.
LEMMA SendOrder ==
    ASSUME TypeOK, ReactorInv, NEW i \in Slot, g[i].status = 1, g[i].call_back = "senddata",
           open[g[i].fd] \in Conn, NEW len \in 0 .. Len(g[i].buf),
           echo' = [echo EXCEPT ![open[g[i].fd]] = @ \o SubSeq(g[i].buf, 1, len)],
           UNCHANGED taken
    PROVE  EchoInOrder' /\ echo' \in [Conn -> Seq(Byte)]
<1>1. PICK c \in Conn : c = open[g[i].fd]
  OBVIOUS
<1>2. echo \in [Conn -> Seq(Byte)] /\ echo[c] \in Seq(Byte) /\ g[i].buf \in Seq(Byte)
  BY Types DEF TypeOK, SlotRecord
<1>3. NextOf(i)
  BY SMTT(30), BufferNextDef DEF ReactorInv
<1>4. Ordered(echo[c], c, taken[c])
  BY <1>2, EchoInOrderDef DEF ReactorInv
<1>5. /\ Ordered(g[i].buf, c, taken[c])
      /\ \A j \in 1 .. Len(echo[c]), k \in 1 .. Len(g[i].buf) : echo[c][j][2] < g[i].buf[k][2]
  BY <1>1, <1>3, Zenon DEF NextOf, Ordered
<1>6. PICK n : n = echo[c] \o SubSeq(g[i].buf, 1, len)
  BY Zenon
<1>7. n \in Seq(Byte) /\ Ordered(n, c, taken[c])
  BY <1>2, <1>4, <1>5, <1>6, OrderedAppend, ZenonT(30)
<1>8. echo' = [echo EXCEPT ![c] = n]
  BY <1>1, <1>6
<1>9. echo' \in [Conn -> Seq(Byte)] /\ echo'[c] = n /\ \A d \in Conn : d # c => echo'[d] = echo[d]
  BY <1>2, <1>7, <1>8, ZenonT(30)
<1>10. \A d \in Conn : Ordered(echo'[d], d, taken'[d])
  BY <1>2, <1>7, <1>9, EchoInOrderDef, ZenonT(30) DEF ReactorInv
<1>11. \A d \in Conn : DOMAIN echo'[d] = 1 .. Len(echo'[d])
  BY <1>9, LenProperties, ZenonT(30)
<1>12. EchoInOrder'
  <2>1. ASSUME NEW d \in Conn
        PROVE  /\ \A k \in DOMAIN echo'[d] : echo'[d][k][1] = d /\ echo'[d][k][2] <= taken'[d]
               /\ \A j, k \in DOMAIN echo'[d] : j < k => echo'[d][j][2] < echo'[d][k][2]
    <3>1. PICK m : m = echo'[d]
      BY Zenon
    <3>2. Ordered(m, d, taken'[d]) /\ DOMAIN m = 1 .. Len(m)
      BY <3>1, <1>10, <1>11, Zenon
    <3>3. /\ \A k \in DOMAIN m : m[k][1] = d /\ m[k][2] <= taken'[d]
          /\ \A j, k \in DOMAIN m : j < k => m[j][2] < m[k][2]
      BY <3>2 DEF Ordered
    <3> QED
      BY ZenonT(30), <3>1, <3>3
  <2> QED
    BY <2>1, Zenon DEF EchoInOrder
<1> QED
  BY <1>9, <1>12, Zenon

(***************************************************************************)
(* Every step preserves TypeOK and ReactorInv: one lemma per action.       *)
(***************************************************************************)

\* recvdata with data preserves the invariant.
LEMMA RecvStep ==
    ASSUME TypeOK, ReactorInv, NEW e \in batch, recvdata_data(e)
    PROVE  TypeOK' /\ ReactorInv'
<1>1. PICK i \in Slot : i = e.ptr
  BY PendingSlot, ZenonT(30)
<1>2. PICK c \in Conn : c = open[g[i].fd]
  BY <1>1, PendingSlot, Zenon DEF recvdata_data, Calls
<1>3. /\ i # MaxEvents /\ g[i].status = 1 /\ g[i].fd \in Fd /\ g[i] \in SlotRecord
  BY <1>1, PendingSlot, ZenonT(30) DEF recvdata_data, Calls
<1> DEFINE avail == sent[c] - taken[c]
           ln == IF avail < BufLen THEN avail ELSE BufLen
<1>4. PICK buf : /\ buf = [k \in 1 .. ln |-> <<c, taken[c] + k>>]
                 /\ Rearm(i, "out", "senddata", buf)
                 /\ taken' = [taken EXCEPT ![c] = @ + ln]
  BY <1>1, <1>2, RecvEffect, ZenonT(30)
<1>5. /\ taken[c] < sent[c] /\ batch' = batch \ {e}
      /\ UNCHANGED <<up, open, backlog, phase, echo, sent, unread, fin, rst>>
  BY <1>1, <1>2, Zenon DEF recvdata_data, HasData, Calls, client
<1>6. /\ taken \in [Conn -> 0 .. MaxBytes] /\ sent \in [Conn -> 0 .. MaxBytes]
      /\ taken[c] \in 0 .. MaxBytes /\ sent[c] \in 0 .. MaxBytes
      /\ MaxBytes \in Nat /\ BufLen \in Nat \ {0}
  BY ReactorAssumption DEF TypeOK
<1>7. PICK len \in Nat : len = ln /\ len > 0 /\ taken[c] + len <= sent[c]
  BY <1>5, <1>6
<1>8. buf = [k \in 1 .. len |-> <<c, taken[c] + k>>] /\ taken' = [taken EXCEPT ![c] = taken[c] + len]
  BY <1>4, <1>7
<1>9. /\ taken' \in [Conn -> 0 .. MaxBytes] /\ taken'[c] = taken[c] + len
      /\ \A d \in Conn : d # c => taken'[d] = taken[d]
  BY <1>6, <1>7, <1>8
<1>10. buf \in Seq(Byte)
  <2>1. \A k \in 1 .. len : <<c, taken[c] + k>> \in Byte
    BY <1>6, <1>7 DEF Byte
  <2> QED
    BY <1>7, <1>8, <2>1
<1>11. /\ g'[i].fd = g[i].fd /\ g'[i].buf = buf
       /\ \A j \in Slot : j # i => g'[j] = g[j]
  BY <1>3, <1>4, Types DEF Rearm, myevent_s
<1>12. TypeOK'
  <2>1. myevent_s(g[i].fd, "out", i, "senddata", 1, buf) \in SlotRecord
    BY <1>3, <1>10 DEF myevent_s, SlotRecord, Events, CallBack
  <2>2. g' \in [Slot -> SlotRecord]
    BY <1>4, <2>1, Types DEF Rearm
  <2>3. [ptr |-> i, events |-> "out"] \in TreeEntry
    BY DEF TreeEntry, Events
  <2>4. tree' \in [Fd -> TreeEntry]
    BY <1>4, <2>3, Types DEF Rearm
  <2> QED
    BY SMTT(30), <1>5, <1>9, <2>2, <2>4 DEF TypeOK
<1>13. StatusMirrorsTree'
  BY <1>3, <1>4, RearmMirrors DEF ReactorInv
<1>14. SlotShape'
  BY SMTT(30), <1>3, <1>4, <1>5, RearmShape DEF ReactorInv
<1>15. BatchFresh'
  BY <1>1, <1>2, <1>3, <1>5, <1>9, <1>11, CallbackFresh
<1>16. ConnOnce'
  BY ZenonT(30), <1>5, <1>6, <1>7, <1>9 DEF ReactorInv, ConnOnce
<1>17. BufferNext'
  <2>1. NextOf(i)'
    <3>1. /\ open[g[i].fd] \in Conn /\ g'[i].fd = g[i].fd
          /\ g'[i].buf = [k \in 1 .. len |-> <<open[g[i].fd], taken[open[g[i].fd]] + k>>]
          /\ taken'[open[g[i].fd]] = taken[open[g[i].fd]] + len
          /\ UNCHANGED <<open, echo>>
      BY <1>2, <1>5, <1>8, <1>9, <1>11
    <3> QED
      BY <1>7, <3>1, RecvNext
  <2> QED
    BY <1>2, <1>3, <1>5, <1>9, <1>11, <2>1, CallbackNext
<1>18. EchoInOrder'
  <2>1. echo \in [Conn -> Seq(Byte)]
    BY DEF TypeOK
  <2>2. ASSUME NEW d \in Conn, NEW k \in DOMAIN echo[d]
        PROVE  echo[d][k][1] = d /\ echo[d][k][2] <= taken'[d]
    <3>1. echo[d][k] \in Byte
      BY <2>1, <2>2, LenProperties, ElementOfSeq
    <3>2. echo[d][k][2] \in Nat
      BY <3>1, <1>6 DEF Byte
    <3>3. echo[d][k][1] = d /\ echo[d][k][2] <= taken[d]
      BY <2>2 DEF ReactorInv, EchoInOrder
    <3>4. taken[d] \in Nat /\ taken'[d] \in Nat /\ taken[d] <= taken'[d]
      BY <1>6, <1>7, <1>9
    <3> QED  BY <3>2, <3>3, <3>4
  <2> QED
    BY <1>5, <2>2 DEF ReactorInv, EchoInOrder
<1> QED
  BY <1>12, <1>13, <1>14, <1>15, <1>16, <1>17, <1>18 DEF ReactorInv

\* senddata with room to send preserves the invariant.
LEMMA SendStep ==
    ASSUME TypeOK, ReactorInv, NEW e \in batch, senddata_data(e)
    PROVE  TypeOK' /\ ReactorInv'
<1>1. PICK i \in Slot : i = e.ptr
  BY PendingSlot
<1>2. PICK c \in Conn : c = open[g[i].fd]
  BY <1>1, PendingSlot, ZenonT(30) DEF senddata_data, Calls
<1>3. /\ i # MaxEvents /\ g[i].status = 1 /\ g[i].fd \in Fd /\ g[i] \in SlotRecord
      /\ g[i].call_back = "senddata" /\ g[i].arg = i
  BY <1>1, PendingSlot, Zenon DEF senddata_data, Calls
<1>4. Rearm(i, "in", "recvdata", g[i].buf)
  BY <1>1, SendEffect
<1> DEFINE room == OutCap - unread[c]
           ln == IF Len(g[i].buf) < room THEN Len(g[i].buf) ELSE room
<1>5. /\ unread[c] < OutCap /\ batch' = batch \ {e}
      /\ UNCHANGED <<up, open, backlog, phase, taken, sent, fin, rst>>
      /\ echo' = [echo EXCEPT ![c] = @ \o SubSeq(g[i].buf, 1, ln)]
      /\ unread' = [unread EXCEPT ![c] = @ + ln]
  BY <1>1, <1>2, <1>3, ZenonT(30) DEF senddata_data, HasRoom, Calls
<1>6. /\ unread \in [Conn -> 0 .. OutCap] /\ unread[c] \in 0 .. OutCap
      /\ OutCap \in Nat /\ g[i].buf \in Seq(Byte)
  BY <1>3, ReactorAssumption DEF TypeOK, SlotRecord
<1>7. Len(g[i].buf) \in Nat
  BY <1>6, LenProperties
<1>8. PICK len \in 0 .. Len(g[i].buf) : len = ln /\ unread[c] + len <= OutCap
  <2>1. PICK m \in Nat : m = Len(g[i].buf)
    BY <1>7
  <2>2. ln \in 0 .. m /\ unread[c] + ln <= OutCap
    BY <1>5, <1>6, <2>1
  <2> QED  BY <2>1, <2>2
<1>9. /\ unread' \in [Conn -> 0 .. OutCap]
      /\ \A d \in Conn : d # c => unread'[d] = unread[d]
  BY <1>5, <1>6, <1>7, <1>8
<1>10. EchoInOrder' /\ echo' \in [Conn -> Seq(Byte)]
  BY <1>2, <1>3, <1>5, <1>8, SendOrder, Zenon
<1>11. \A d \in Conn : d # c => echo'[d] = echo[d]
  BY <1>5 DEF TypeOK
<1>12. /\ g'[i].call_back = "recvdata"
       /\ \A j \in Slot : j # i => g'[j] = g[j]
  BY SMTT(30), <1>4, Types DEF Rearm, myevent_s
<1>13. TypeOK'
  <2>1. myevent_s(g[i].fd, "in", i, "recvdata", 1, g[i].buf) \in SlotRecord
    BY <1>3, <1>6 DEF myevent_s, SlotRecord, Events, CallBack
  <2>2. g' \in [Slot -> SlotRecord]
    BY <1>4, <2>1, Types DEF Rearm
  <2>3. [ptr |-> i, events |-> "in"] \in TreeEntry
    BY DEF TreeEntry, Events
  <2>4. tree' \in [Fd -> TreeEntry]
    BY <1>4, <2>3, Types DEF Rearm
  <2> QED
    BY <1>5, <1>9, <1>10, <2>2, <2>4, Zenon DEF TypeOK
<1>14. StatusMirrorsTree'
  BY <1>3, <1>4, RearmMirrors DEF ReactorInv
<1>15. SlotShape'
  BY <1>3, <1>4, <1>5, RearmShape DEF ReactorInv
<1>16. BatchFresh'
  BY <1>1, <1>2, <1>3, <1>5, <1>9, <1>12, CallbackFresh, ZenonT(30)
<1>17. ConnOnce'
  BY <1>5 DEF ReactorInv, ConnOnce
<1>18. BufferNext'
  BY <1>2, <1>3, <1>5, <1>11, <1>12, CallbackNext, Zenon
<1> QED
  BY <1>10, <1>13, <1>14, <1>15, <1>16, <1>17, <1>18 DEF ReactorInv

\* recvdata and senddata that close the connection preserve the invariant.
LEMMA CloseStep ==
    ASSUME TypeOK, ReactorInv, NEW e \in batch, recvdata_close(e) \/ senddata_close(e)
    PROVE  TypeOK' /\ ReactorInv'
<1>1. PICK i \in Slot : i = e.ptr
  BY PendingSlot, ZenonT(30)
<1>2. PICK c \in Conn : c = open[g[i].fd]
  BY <1>1, PendingSlot, Zenon DEF recvdata_close, senddata_close, Calls
<1>3. /\ i # MaxEvents /\ g[i].status = 1 /\ g[i].fd \in Fd /\ g[i] \in SlotRecord
  BY <1>1, PendingSlot, Zenon DEF recvdata_close, senddata_close, Calls
<1>4. Release(i)
  BY SMTT(30), <1>1, CloseEffect
<1>5. /\ batch' = batch \ {e}
      /\ UNCHANGED <<up, backlog, taken, echo, sent, unread, fin, rst>>
  BY DEF recvdata_close, senddata_close, Calls, client
<1>6. /\ \A j \in Slot : j # i => g'[j] = g[j]
      /\ \A f \in Fd : f # g[i].fd => open'[f] = open[f]
      /\ g'[i].status = 0
  BY <1>3, <1>4, Types DEF Release, SlotRecord
<1>7. TypeOK'
  <2>1. [g[i] EXCEPT !.status = 0] \in SlotRecord
    BY <1>3 DEF SlotRecord
  <2>2. g' \in [Slot -> SlotRecord]
    BY <1>4, <2>1, Types DEF Release
  <2>3. tree' \in [Fd -> TreeEntry]
    BY <1>3, <1>4, Types DEF Release, Absent, TreeEntry, Events
  <2>4. open' \in [Fd -> Conn \cup {NoConn}]
    BY <1>3, <1>4, Types DEF Release
  <2>5. phase' \in [Conn -> {"idle", "backlog", "open", "closed"}]
    BY <1>4 DEF Release, TypeOK
  <2> QED
    BY <1>5, <2>2, <2>3, <2>4, <2>5 DEF TypeOK
<1>8. StatusMirrorsTree'
  BY <1>3, <1>4, ReleaseMirrors DEF ReactorInv
<1>9. SlotShape'
  BY <1>3, <1>4, ReleaseShape DEF ReactorInv
<1>10. BatchFresh'
  BY <1>1, <1>3, <1>5, <1>6, CallbackFresh
<1>11. ConnOnce'
  BY <1>2, <1>4, <1>5, ReleaseOnce DEF ReactorInv
<1>12. BufferNext'
  BY SMTT(30), <1>3, <1>5, <1>6, CallbackNext
<1>13. EchoInOrder'
  BY <1>5 DEF ReactorInv, EchoInOrder
<1> QED
  BY <1>7, <1>8, <1>9, <1>10, <1>11, <1>12, <1>13 DEF ReactorInv

\* acceptconn preserves the invariant, with and without a free slot.
LEMMA AcceptStep ==
    ASSUME TypeOK, ReactorInv, AcceptArg = "slot", NEW e \in batch, acceptconn(e)
    PROVE  TypeOK' /\ ReactorInv'
<1>1. /\ backlog # <<>> /\ backlog \in Seq(Conn) /\ batch' = batch \ {e}
      /\ backlog' = Tail(backlog)
      /\ phase' = [phase EXCEPT ![Head(backlog)] = "open"]
      /\ UNCHANGED <<up, taken, echo, sent, unread, fin, rst>>
  BY DEF acceptconn, Calls, client, TypeOK
<1>2. PICK cfd \in Fd :
        /\ open[cfd] = NoConn /\ cfd > Lfd /\ tree[cfd] = Absent
        /\ open' = [open EXCEPT ![cfd] = Head(backlog)]
        /\ \/ UNCHANGED <<g, tree>>
           \/ \E i \in Slot : /\ i # MaxEvents /\ g[i].status = 0
                              /\ g' = [g EXCEPT ![i] = myevent_s(cfd, "in", i, "recvdata", 1, g[i].buf)]
                              /\ tree' = [tree EXCEPT ![cfd] = [ptr |-> i, events |-> "in"]]
  BY AcceptEffect
<1>3. PICK c \in Conn : c = Head(backlog)
  BY <1>1, HeadTailProperties
<1>4. Tail(backlog) \in Seq(Conn)
  BY <1>1, HeadTailProperties
<1>5. /\ open' \in [Fd -> Conn \cup {NoConn}] /\ open' = [open EXCEPT ![cfd] = c]
      /\ \A f \in Fd : f # cfd => open'[f] = open[f]
  BY <1>2, <1>3, Types
<1>6. phase' \in [Conn -> {"idle", "backlog", "open", "closed"}]
  BY <1>1, <1>3 DEF TypeOK
<1>7. ConnOnce'
  BY <1>1, <1>2, AcceptOnce, Zenon DEF ReactorInv
<1>8. EchoInOrder'
  BY <1>1 DEF ReactorInv, EchoInOrder
<1>9. \A j \in Slot : g[j].status = 1 => g[j].fd # cfd
  <2> SUFFICES ASSUME NEW j \in Slot, g[j].status = 1, g[j].fd = cfd PROVE FALSE
    OBVIOUS
  <2>1. tree[cfd] = [ptr |-> j, events |-> g[j].events]
    BY DEF ReactorInv, StatusMirrorsTree
  <2> QED
    BY <1>2, <2>1, Types DEF Absent
<1>10. ASSUME \A j \in Slot : g[j].status = 1 => g'[j] = g[j],
              \A j \in Slot : g[j].status = 0 /\ g'[j].status = 1 => g'[j].call_back = "recvdata"
       PROVE  BatchFresh' /\ BufferNext'
  <2>1. \A j \in Slot : g[j].status = 1 => g'[j] = g[j] /\ open'[g[j].fd] = open[g[j].fd]
    BY SMTT(30), <1>5, <1>9, <1>10, Types
  <2>2. ASSUME NEW d \in batch PROVE Fresh(d)'
    <3>1. d.ptr \in Slot /\ g[d.ptr].status = 1
      BY PendingSlot, ZenonT(30)
    <3>2. Fresh(d)
      BY PendingFresh
    <3>3. g'[d.ptr] = g[d.ptr] /\ open'[g[d.ptr].fd] = open[g[d.ptr].fd]
      BY <2>1, <3>1
    <3>4. taken' = taken /\ sent' = sent /\ unread' = unread /\ fin' = fin /\ rst' = rst
      BY <1>1
    <3> QED
      BY <3>2, <3>3, <3>4, Zenon DEF Fresh
  <2>3. BatchFresh'
    BY <1>1, <2>2 DEF BatchFresh, Fresh
  <2>4. ASSUME NEW j \in Slot, g'[j].status = 1, g'[j].call_back = "senddata"
        PROVE  NextOf(j)'
    <3>1. g[j].status \in {0, 1}
      BY Types DEF SlotRecord
    <3>2. g[j].status = 1 /\ g'[j] = g[j]
      BY <1>10, <2>4, <3>1
    <3>3. NextOf(j)
      BY SMTT(30), <2>4, <3>2, BufferNextDef DEF ReactorInv
    <3> QED
      BY <1>1, <2>1, <3>2, <3>3, SameNext
  <2>5. BufferNext'
    BY <2>4 DEF BufferNext, NextOf
  <2> QED
    BY <2>3, <2>5
<1>11. CASE UNCHANGED <<g, tree>>
  <2>1. TypeOK'
    BY <1>1, <1>4, <1>5, <1>6, <1>11, Zenon DEF TypeOK
  <2>2. StatusMirrorsTree'
    BY <1>11 DEF ReactorInv, StatusMirrorsTree
  <2>3. SlotShape'
    <3>1. \A j \in Slot : g[j].status = 1 => open'[g[j].fd] = open[g[j].fd]
      BY <1>5, <1>9, Types
    <3> QED
      BY <1>11, <3>1 DEF ReactorInv, SlotShape
  <2> QED
    BY <1>7, <1>8, <1>10, <1>11, <2>1, <2>2, <2>3 DEF ReactorInv
<1>12. ASSUME NEW i \in Slot, i # MaxEvents, g[i].status = 0,
              g' = [g EXCEPT ![i] = myevent_s(cfd, "in", i, "recvdata", 1, g[i].buf)],
              tree' = [tree EXCEPT ![cfd] = [ptr |-> i, events |-> "in"]]
       PROVE  TypeOK' /\ ReactorInv'
  <2>1. TypeOK'
    <3>1. myevent_s(cfd, "in", i, "recvdata", 1, g[i].buf) \in SlotRecord
      BY Types, Zenon DEF myevent_s, SlotRecord, Events, CallBack
    <3>2. g' \in [Slot -> SlotRecord]
      BY <1>12, <3>1, Types
    <3>3. [ptr |-> i, events |-> "in"] \in TreeEntry
      BY DEF TreeEntry, Events
    <3>4. tree' \in [Fd -> TreeEntry]
      BY <1>12, <3>3, Types
    <3> QED
      BY <1>1, <1>4, <1>5, <1>6, <3>2, <3>4, Zenon DEF TypeOK
  <2>2. StatusMirrorsTree'
    BY <1>2, <1>12, AcceptMirrors, Zenon DEF ReactorInv
  <2>3. SlotShape'
    <3>1. /\ g'[i] = myevent_s(cfd, "in", i, "recvdata", 1, g[i].buf)
          /\ \A j \in Slot : j # i => g'[j] = g[j]
      BY <1>12, Types
    <3>2. open'[cfd] = c
      BY <1>5, Types
    <3> QED
      BY <1>5, <1>12, <3>1, <3>2, AcceptShape DEF ReactorInv
  <2>4. /\ \A j \in Slot : g[j].status = 1 => g'[j] = g[j]
        /\ \A j \in Slot : g[j].status = 0 /\ g'[j].status = 1 => g'[j].call_back = "recvdata"
    BY <1>12, Types DEF myevent_s
  <2> QED
    BY <1>7, <1>8, <1>10, <2>1, <2>2, <2>3, <2>4 DEF ReactorInv
<1> QED
  BY <1>2, <1>11, <1>12

\* The parts of the invariant that only look at slots, tree, descriptors and
\* echoes are kept by a step that leaves those alone.
LEMMA SameParts ==
    ASSUME ReactorInv, UNCHANGED <<g, tree, open, taken, echo>>
    PROVE  StatusMirrorsTree' /\ SlotShape' /\ BufferNext' /\ EchoInOrder'
<1>1. StatusMirrorsTree /\ SlotShape /\ BufferNext /\ EchoInOrder
  BY DEF ReactorInv
<1>2. StatusMirrorsTree'
  BY <1>1 DEF StatusMirrorsTree
<1>3. SlotShape'
  BY SMTT(30), <1>1 DEF SlotShape
<1>4. BufferNext'
  BY <1>1 DEF BufferNext
<1>5. EchoInOrder'
  BY <1>1 DEF EchoInOrder
<1> QED
  BY <1>2, <1>3, <1>4, <1>5

\* EpollWait reports what is true now.
LEMMA WaitStep ==
    ASSUME TypeOK, ReactorInv, EpollWait
    PROVE  TypeOK' /\ ReactorInv'
<1>1. /\ batch' = {tree[f] : f \in {h \in Fd : Ready(h)}}
      /\ UNCHANGED <<g, tree, up, open, backlog, phase, taken, echo, sent, unread, fin, rst>>
  BY DEF EpollWait, client
<1>2. ASSUME NEW e \in batch'
      PROVE  e \in [ptr : Slot, events : {"in", "out"}] /\ Fresh(e)
  <2>1. PICK f \in Fd : e = tree[f] /\ Ready(f)
    BY <1>1, <1>2
  <2>2. tree[f] # Absent /\ tree[f] \in TreeEntry
    BY SMTT(30), <2>1, Types DEF Ready
  <2>3. /\ e.ptr \in Slot /\ g[e.ptr].fd = f /\ g[e.ptr].status = 1
        /\ tree[f] = [ptr |-> e.ptr, events |-> g[e.ptr].events]
    BY <2>1, <2>2 DEF ReactorInv, StatusMirrorsTree
  <2>4. e = [ptr |-> e.ptr, events |-> g[e.ptr].events] /\ e.events = g[e.ptr].events
    <3>1. e = [ptr |-> e.ptr, events |-> g[e.ptr].events]
      BY <2>1, <2>3, Zenon
    <3>2. \A a, b : e = [ptr |-> a, events |-> b] => e.events = b
      OBVIOUS
    <3> QED  BY <3>1, <3>2, Zenon
  <2>5. g[e.ptr].events = IF g[e.ptr].call_back = "senddata" THEN "out" ELSE "in"
    BY SMTT(30), <2>3 DEF ReactorInv, SlotShape
  <2>6. f = Lfd => g[e.ptr].call_back = "acceptconn"
    <3>1. MaxEvents \in Slot /\ NoConn \notin Conn /\ open[f] \in Conn \cup {NoConn}
      BY Types
    <3>2. open[Lfd] = NoConn
      <4>1. Lfd \in Fd /\ ~ (Lfd > Lfd)
        BY SMTT(30), ReactorAssumption DEF Lfd, Fd
      <4> QED  BY <4>1 DEF ReactorInv, ConnOnce
    <3> QED
      BY <2>3, <3>1, <3>2 DEF ReactorInv, SlotShape
  <2>7. g[e.ptr].call_back = "recvdata" =>
           LET c == open[f] IN taken[c] < sent[c] \/ fin[c] \/ rst[c]
    BY <2>1, <2>4, <2>5, <2>6 DEF Ready, Readable
  <2>8. g[e.ptr].call_back = "senddata" => LET c == open[f] IN unread[c] < OutCap \/ rst[c]
    BY <2>1, <2>4, <2>5 DEF Ready, Writable
  <2>9. Fresh(e)
    BY <2>3, <2>4, <2>7, <2>8 DEF Fresh
  <2>10. e \in [ptr : Slot, events : {"in", "out"}]
    BY <2>3, <2>4, <2>5
  <2> QED
    BY <2>9, <2>10
<1>3. TypeOK'
  BY <1>1, <1>2 DEF TypeOK
<1>4. BatchFresh'
  BY ZenonT(30), <1>1, <1>2 DEF BatchFresh, Fresh
<1> QED
  <2>1. StatusMirrorsTree' /\ SlotShape' /\ BufferNext' /\ EchoInOrder'
    BY <1>1, SameParts
  <2>2. ConnOnce'
    BY <1>1 DEF ReactorInv, ConnOnce
  <2> QED
    BY SMTT(30), <1>3, <1>4, <2>1, <2>2 DEF ReactorInv

\* Steps that only drop an event, end the process, or are the clients' own.
LEMMA QuietStep ==
    ASSUME TypeOK, ReactorInv,
           batch' \subseteq batch, up' \in BOOLEAN,
           UNCHANGED <<g, tree, open, backlog, phase, taken, echo>>,
           sent' \in [Conn -> 0 .. MaxBytes], unread' \in [Conn -> 0 .. OutCap],
           fin' \in [Conn -> BOOLEAN], rst' \in [Conn -> BOOLEAN],
           \A c \in Conn : /\ sent[c] <= sent'[c]
                           /\ fin[c] => fin'[c]
                           /\ rst[c] => rst'[c]
                           /\ unread'[c] <= unread[c]
    PROVE  TypeOK' /\ ReactorInv'
<1>1. TypeOK'
  BY DEF TypeOK
<1>2. \A c \in Conn : /\ taken[c] \in Int /\ sent[c] \in Int /\ sent'[c] \in Int
                      /\ unread[c] \in Int /\ unread'[c] \in Int
  BY ReactorAssumption DEF TypeOK
<1>3. ASSUME NEW d \in batch PROVE Fresh(d)'
  <2>1. d.ptr \in Slot /\ g[d.ptr].status = 1
    BY PendingSlot, ZenonT(30)
  <2>2. Fresh(d)
    BY PendingFresh, Zenon
  <2>3. g[d.ptr].call_back \in {"recvdata", "senddata"} => open[g[d.ptr].fd] \in Conn
    BY PendingSlot, Zenon
  <2>4. OutCap \in Int
    BY ReactorAssumption
  <2>5. /\ g'[d.ptr].status = 1 /\ d.events = g'[d.ptr].events
        /\ g' = g /\ open' = open /\ taken' = taken
    BY <2>1, <2>2 DEF Fresh
  <2>6. ASSUME g[d.ptr].call_back = "recvdata"
        PROVE  LET c == open[g[d.ptr].fd] IN taken[c] < sent'[c] \/ fin'[c] \/ rst'[c]
    <3>1. PICK c \in Conn : c = open[g[d.ptr].fd]
      BY SMTT(30), <2>3, <2>6
    <3>2. taken[c] < sent[c] \/ fin[c] \/ rst[c]
      BY SMTT(30), <2>2, <2>6, <3>1 DEF Fresh
    <3>3. taken[c] < sent'[c] \/ fin'[c] \/ rst'[c]
      BY SMTT(30), <1>2, <3>2
    <3> QED  BY ZenonT(30), <3>1, <3>3
  <2>7. ASSUME g[d.ptr].call_back = "senddata"
        PROVE  LET c == open[g[d.ptr].fd] IN unread'[c] < OutCap \/ rst'[c]
    <3>1. PICK c \in Conn : c = open[g[d.ptr].fd]
      BY SMTT(30), <2>3, <2>7
    <3>2. unread[c] < OutCap \/ rst[c]
      BY SMTT(30), <2>2, <2>7, <3>1 DEF Fresh
    <3>3. unread'[c] < OutCap \/ rst'[c]
      BY <1>2, <2>4, <3>2
    <3> QED  BY <3>1, <3>3
  <2> QED
    BY <2>5, <2>6, <2>7, ZenonT(30) DEF Fresh
<1>4. BatchFresh'
  BY <1>3, ZenonT(30) DEF BatchFresh, Fresh
<1>5. ConnOnce'
  <2>1. \A c \in Conn : taken[c] <= sent'[c]
    <3> TAKE c \in Conn
    <3>1. taken[c] <= sent[c] /\ sent[c] <= sent'[c]
      BY DEF ReactorInv, ConnOnce
    <3> QED  BY <1>2, <3>1
  <2> QED
    BY <2>1, Zenon DEF ReactorInv, ConnOnce
<1> QED
  BY <1>1, <1>4, <1>5, SameParts DEF ReactorInv

\* A client's connect preserves the invariant.
LEMMA ConnectStep ==
    ASSUME TypeOK, ReactorInv, NEW c \in Conn, Connect(c)
    PROVE  TypeOK' /\ ReactorInv'
<1>1. UNCHANGED <<g, tree, batch, up, open, taken, echo, sent, unread, fin, rst>>
  BY DEF Connect, server, client
<1>2. backlog' \in Seq(Conn) /\ phase' \in [Conn -> {"idle", "backlog", "open", "closed"}]
  BY DEF Connect, TypeOK
<1>3. TypeOK'
  BY <1>1, <1>2 DEF TypeOK
<1>4. ConnOnce'
  BY ConnectOnce DEF ReactorInv
<1> QED
  <2>1. StatusMirrorsTree' /\ SlotShape' /\ BufferNext' /\ EchoInOrder'
    BY SMTT(30), <1>1, SameParts
  <2>2. BatchFresh'
    BY <1>1, Zenon DEF ReactorInv, BatchFresh
  <2> QED
    BY <1>3, <1>4, <2>1, <2>2 DEF ReactorInv

\* The initial state: only the listener's slot is in the tree.
LEMMA InitInv == Init => TypeOK /\ ReactorInv
<1> SUFFICES ASSUME Init PROVE TypeOK /\ ReactorInv
  OBVIOUS
<1>1. MaxEvents \in Slot /\ Lfd \in Fd /\ 0 \in Fd /\ NoSlot \notin Slot
  BY ReactorAssumption DEF Slot, Fd, Lfd, NoSlot
<1> DEFINE z == [i \in Slot |-> Zeroed]
           t == [f \in Fd |-> Absent]
           m == myevent_s(Lfd, "none", MaxEvents, "acceptconn", 0, <<>>)
<1>2. /\ z \in [Slot -> {Zeroed}] /\ Zeroed.buf = <<>> /\ z[MaxEvents].buf = <<>>
  BY SMTT(30), <1>1 DEF Zeroed, myevent_s
<1>3. eventset([g |-> z, tree |-> t], MaxEvents, Lfd, "acceptconn", MaxEvents)
        = [g |-> [z EXCEPT ![MaxEvents] = m], tree |-> t]
  BY <1>1, <1>2 DEF eventset
<1>4. m.fd = Lfd /\ m.arg = MaxEvents /\ m.call_back = "acceptconn" /\ m.buf = <<>>
  BY DEF myevent_s
<1>5. [z EXCEPT ![MaxEvents] = m][MaxEvents] = m
  BY <1>1
<1>6. /\ g = [[z EXCEPT ![MaxEvents] = m] EXCEPT ![MaxEvents] =
                 myevent_s(Lfd, "in", MaxEvents, "acceptconn", 1, <<>>)]
      /\ tree = CtlAdd(t, TRUE, Lfd, MaxEvents, "in")
  <2>1. PICK r : r = [g |-> [z EXCEPT ![MaxEvents] = m], tree |-> t]
    BY Zenon
  <2>2. r.g[MaxEvents] = m /\ r.g = [z EXCEPT ![MaxEvents] = m] /\ r.tree = t
    BY <1>5, <2>1
  <2>3. initlistensocket = eventadd(r, MaxEvents, "in", TRUE)
    BY <1>3, <2>1, ZenonT(30) DEF initlistensocket
  <2>4. g = eventadd(r, MaxEvents, "in", TRUE).g /\ tree = eventadd(r, MaxEvents, "in", TRUE).tree
    BY <2>3 DEF Init
  <2>5. /\ g = [r.g EXCEPT ![MaxEvents] = myevent_s(m.fd, "in", m.arg, m.call_back, 1, m.buf)]
        /\ tree = CtlAdd(r.tree, TRUE, m.fd, MaxEvents, "in")
    BY <2>2, <2>4, Zenon DEF eventadd
  <2>6. /\ g = [r.g EXCEPT ![MaxEvents] = myevent_s(Lfd, "in", MaxEvents, "acceptconn", 1, <<>>)]
        /\ tree = CtlAdd(r.tree, TRUE, Lfd, MaxEvents, "in")
    <3> HIDE DEF m
    <3> QED  BY <1>4, <2>5, Zenon
  <2> HIDE DEF z, t, m
  <2> QED
    BY <2>2, <2>6
<1>7. tree = [t EXCEPT ![Lfd] = [ptr |-> MaxEvents, events |-> "in"]]
  BY <1>1, <1>6 DEF CtlAdd
<1>8. /\ g[MaxEvents] = myevent_s(Lfd, "in", MaxEvents, "acceptconn", 1, <<>>)
      /\ \A i \in Slot : i # MaxEvents => g[i] = Zeroed
      /\ g \in [Slot -> {Zeroed, myevent_s(Lfd, "in", MaxEvents, "acceptconn", 1, <<>>)}]
  BY <1>1, <1>6
<1>9. /\ tree[Lfd] = [ptr |-> MaxEvents, events |-> "in"]
      /\ \A f \in Fd : f # Lfd => tree[f] = Absent
      /\ tree \in [Fd -> {Absent, [ptr |-> MaxEvents, events |-> "in"]}]
  BY <1>1, <1>7
<1>10. /\ Zeroed \in SlotRecord
       /\ myevent_s(Lfd, "in", MaxEvents, "acceptconn", 1, <<>>) \in SlotRecord
  BY <1>1 DEF Zeroed, myevent_s, SlotRecord, Events, CallBack
<1>11. Absent \in TreeEntry /\ [ptr |-> MaxEvents, events |-> "in"] \in TreeEntry
  BY <1>1 DEF Absent, TreeEntry, Events
<1>12. TypeOK
  <2>1. g \in [Slot -> SlotRecord] /\ tree \in [Fd -> TreeEntry]
    BY <1>8, <1>9, <1>10, <1>11
  <2> QED
    BY <2>1, ReactorAssumption DEF Init, TypeOK
<1>13. /\ g[MaxEvents].status = 1 /\ g[MaxEvents].fd = Lfd /\ g[MaxEvents].events = "in"
       /\ g[MaxEvents].arg = MaxEvents /\ g[MaxEvents].call_back = "acceptconn"
       /\ \A i \in Slot : i # MaxEvents => g[i].status = 0
  BY SMTT(30), <1>8 DEF Zeroed, myevent_s
<1>14. StatusMirrorsTree
  BY <1>1, <1>9, <1>13 DEF StatusMirrorsTree
<1>15. SlotShape
  BY <1>1, <1>13 DEF SlotShape
<1>16. BatchFresh /\ ConnOnce /\ EchoInOrder
  BY SMTT(30) DEF Init, BatchFresh, ConnOnce, EchoInOrder
<1>17. BufferNext
  BY <1>13 DEF BufferNext
<1> QED
  BY <1>12, <1>14, <1>15, <1>16, <1>17 DEF ReactorInv

\* Every step of the server and of the clients preserves the invariant.
LEMMA NextInv ==
    ASSUME AcceptArg = "slot", TypeOK, ReactorInv, [Next]_vars
    PROVE  TypeOK' /\ ReactorInv'
<1>1. CASE EpollWait
  BY SMTT(30), <1>1, WaitStep
<1>2. CASE EpollError
  <2>1. \A c \in Conn : sent[c] <= sent[c] /\ unread[c] <= unread[c]
    BY ReactorAssumption DEF TypeOK
  <2> QED
    BY <1>2, <2>1, QuietStep, Zenon DEF EpollError, client, TypeOK
<1>3. ASSUME NEW e \in batch, Dispatch(e)
      PROVE  TypeOK' /\ ReactorInv'
  <2>1. CASE Skip(e) \/ acceptconn_fails(e) \/ senddata_sigpipe(e)
    <3>1. \A c \in Conn : sent[c] <= sent[c] /\ unread[c] <= unread[c]
      BY SMTT(30), ReactorAssumption DEF TypeOK
    <3>2. /\ batch' \subseteq batch /\ up' \in BOOLEAN
          /\ UNCHANGED <<g, tree, open, backlog, phase, taken, echo, sent, unread, fin, rst>>
      BY <2>1, Zenon DEF Skip, acceptconn_fails, senddata_sigpipe, Calls, client, TypeOK
    <3> QED
      BY <3>1, <3>2, QuietStep DEF TypeOK
  <2>2. CASE acceptconn(e)
    BY <2>2, AcceptStep
  <2>3. CASE recvdata_data(e)
    BY <2>3, RecvStep
  <2>4. CASE recvdata_close(e) \/ senddata_close(e)
    BY <2>4, CloseStep
  <2>5. CASE senddata_data(e)
    BY <2>5, SendStep
  <2> QED
    BY <1>3, <2>1, <2>2, <2>3, <2>4, <2>5 DEF Dispatch
<1>4. ASSUME NEW c \in Conn,
             ClientSend(c) \/ ClientRead(c) \/ ClientShut(c) \/ ClientReset(c)
      PROVE  TypeOK' /\ ReactorInv'
  <2>1. /\ batch' = batch /\ up' = up
        /\ UNCHANGED <<g, tree, open, backlog, phase, taken, echo>>
    BY <1>4 DEF ClientSend, ClientRead, ClientShut, ClientReset, server
  <2>2. /\ sent \in [Conn -> 0 .. MaxBytes] /\ unread \in [Conn -> 0 .. OutCap]
        /\ MaxBytes \in Nat /\ OutCap \in Nat /\ up \in BOOLEAN
        /\ fin \in [Conn -> BOOLEAN] /\ rst \in [Conn -> BOOLEAN]
    BY ReactorAssumption DEF TypeOK
  <2>3. sent' \in [Conn -> 0 .. MaxBytes] /\ \A d \in Conn : sent[d] <= sent'[d]
    BY <1>4, <2>2 DEF ClientSend, ClientRead, ClientShut, ClientReset
  <2>4. unread' \in [Conn -> 0 .. OutCap] /\ \A d \in Conn : unread'[d] <= unread[d]
    BY <1>4, <2>2 DEF ClientSend, ClientRead, ClientShut, ClientReset
  <2>5. fin' \in [Conn -> BOOLEAN] /\ \A d \in Conn : fin[d] => fin'[d]
    BY <1>4, <2>2, Zenon DEF ClientSend, ClientRead, ClientShut, ClientReset
  <2>6. rst' \in [Conn -> BOOLEAN] /\ \A d \in Conn : rst[d] => rst'[d]
    BY <1>4, <2>2, Zenon DEF ClientSend, ClientRead, ClientShut, ClientReset
  <2> QED
    BY <2>1, <2>2, <2>3, <2>4, <2>5, <2>6, QuietStep
<1>5. ASSUME NEW c \in Conn, Connect(c) PROVE TypeOK' /\ ReactorInv'
  BY <1>5, ConnectStep
<1>6. CASE UNCHANGED vars
  <2>1. UNCHANGED <<g, tree, batch, up, open, backlog, phase, sent, taken, echo, unread, fin, rst>>
    BY <1>6 DEF vars
  <2>2. TypeOK'
    BY <2>1 DEF TypeOK
  <2>3. StatusMirrorsTree' /\ SlotShape' /\ BufferNext' /\ EchoInOrder'
    BY <2>1, SameParts
  <2>4. BatchFresh'
    BY <2>1 DEF ReactorInv, BatchFresh
  <2>5. ConnOnce'
    BY <2>1 DEF ReactorInv, ConnOnce
  <2> QED
    BY <2>2, <2>3, <2>4, <2>5 DEF ReactorInv
<1> QED
  BY <1>1, <1>2, <1>3, <1>4, <1>5, <1>6 DEF Next

(***************************************************************************)
(* The theorems.                                                           *)
(***************************************************************************)

\* In test.c (AcceptArg = "slot"), for any number of clients, slots and
\* descriptors: every reachable state is well typed and satisfies ReactorInv.
THEOREM ReactorInvariant ==
    ASSUME AcceptArg = "slot"
    PROVE  Spec => [](TypeOK /\ ReactorInv)
<1>1. Init => TypeOK /\ ReactorInv
  BY InitInv
<1>2. (TypeOK /\ ReactorInv) /\ [Next]_vars => (TypeOK /\ ReactorInv)'
  BY NextInv
<1> QED
  BY <1>1, <1>2, PTL DEF Spec

\* The comment on the field status is true of test.c: status is 1 exactly while
\* the slot's descriptor is in the epoll tree and points back to the slot.
THEOREM StatusIsTreeMembership ==
    ASSUME AcceptArg = "slot"
    PROVE  Spec => []StatusMirrorsTree
<1>1. TypeOK /\ ReactorInv => StatusMirrorsTree
  BY DEF ReactorInv
<1> QED
  BY <1>1, ReactorInvariant, PTL

\* senddata only ever returns to a client bytes of its own, in the order the
\* client sent them and none twice.
THEOREM EchoesAreOwnAndOrdered ==
    ASSUME AcceptArg = "slot"
    PROVE  Spec => []EchoInOrder
<1>1. TypeOK /\ ReactorInv => EchoInOrder
  BY DEF ReactorInv
<1> QED
  BY <1>1, ReactorInvariant, PTL

\* A connection is closed by recvdata or senddata only when its client has shut
\* it down or reset it: no callback closes another client's descriptor and no
\* readiness report is stale.
THEOREM ClosedOnlyWhenEnded ==
    ASSUME AcceptArg = "slot"
    PROVE  Spec => ClosesOnlyEnded
<1> DEFINE Ended == \A c \in Conn : phase[c] = "open" /\ phase'[c] = "closed" => fin[c] \/ rst[c]
<1>1. TypeOK /\ ReactorInv /\ [Next]_vars => [Ended]_vars
  <2> SUFFICES ASSUME TypeOK, ReactorInv, Next PROVE Ended
    OBVIOUS
  <2>1. CASE EpollWait \/ EpollError
    BY <2>1 DEF EpollWait, EpollError
  <2>2. ASSUME NEW c \in Conn,
               Connect(c) \/ ClientSend(c) \/ ClientRead(c) \/ ClientShut(c) \/ ClientReset(c)
        PROVE  Ended
    <3>1. phase' = phase \/ phase' = [phase EXCEPT ![c] = "backlog"]
      BY <2>2 DEF Connect, ClientSend, ClientRead, ClientShut, ClientReset
    <3> QED
      BY <3>1, Zenon DEF TypeOK
  <2>3. ASSUME NEW e \in batch, Dispatch(e)
        PROVE  Ended
    <3>1. CASE phase' = phase
      BY <3>1
    <3>2. CASE acceptconn(e)
      <4>1. phase' = [phase EXCEPT ![Head(backlog)] = "open"]
        BY <3>2 DEF acceptconn
      <4> QED  BY <4>1 DEF TypeOK
    <3>3. CASE recvdata_close(e) \/ senddata_close(e)
      <4>1. Release(e.ptr)
        BY <3>3, CloseEffect
      <4>2. PICK c \in Conn : c = open[g[e.ptr].fd]
        BY <3>3, PendingSlot, Zenon DEF recvdata_close, senddata_close, Calls
      <4>3. \A d \in Conn : d # c => phase'[d] = phase[d]
        BY <4>1, <4>2 DEF Release
      <4>4. Fresh(e) /\ NoConn \notin Conn
        BY PendingFresh, Types
      <4>5. fin[c] \/ rst[c]
        <5>1. CASE recvdata_close(e)
          BY <5>1, <4>2, <4>4, ZenonT(30) DEF recvdata_close, Calls, HasData, Fresh
        <5>2. CASE senddata_close(e)
          BY <5>2, <4>2, <4>4, ZenonT(30) DEF senddata_close, Calls, HasRoom, Fresh
        <5> QED  BY <3>3, <5>1, <5>2
      <4> QED
        BY <4>3, <4>5
    <3> QED
      BY <2>3, <3>1, <3>2, <3>3, Zenon
      DEF Dispatch, Skip, acceptconn_fails, recvdata_data, senddata_data, senddata_sigpipe
  <2> QED
    BY <2>1, <2>2, <2>3 DEF Next
<1> QED
  BY <1>1, ReactorInvariant, PTL DEF Spec, ClosesOnlyEnded

\* The listener stays registered for reading with its own slot: initsocket adds it, and
\* nothing that serves a connection removes it.
THEOREM ListenerStays ==
    ASSUME AcceptArg = "slot"
    PROVE  Spec => []ListenerRegistered
<1>1. TypeOK /\ ReactorInv => ListenerRegistered
  BY Types DEF ReactorInv, SlotShape, StatusMirrorsTree, ListenerRegistered
<1> QED  BY <1>1, ReactorInvariant, PTL

\* A callback that puts its slot back keeps every descriptor held; one that frees its slot
\* closes the descriptor with it.
LEMMA CallbackHolds ==
    ASSUME TypeOK, NEW i \in Slot,
           \/ /\ \E ev, cb, buf : Rearm(i, ev, cb, buf)
              /\ open' = open
           \/ Release(i)
    PROVE  Leaked' \subseteq Leaked
<1> SUFFICES ASSUME NEW f \in Fd, open'[f] # NoConn
             PROVE  /\ open[f] # NoConn
                    /\ \A j \in Slot : g[j].status = 1 /\ g[j].fd = f => g'[j].status = 1 /\ g'[j].fd = f
  BY DEF Leaked
<1>1. g \in [Slot -> SlotRecord] /\ open \in [Fd -> Conn \cup {NoConn}]
  BY DEF TypeOK
<1>2. ASSUME NEW ev, NEW cb, NEW buf, Rearm(i, ev, cb, buf), open' = open, NEW j \in Slot,
             g[j].status = 1, g[j].fd = f
      PROVE  g'[j].status = 1 /\ g'[j].fd = f
  BY <1>1, <1>2 DEF Rearm, myevent_s
<1>3. ASSUME Release(i)
      PROVE  /\ open[f] # NoConn
             /\ \A j \in Slot : g[j].status = 1 /\ g[j].fd = f => g'[j].status = 1 /\ g'[j].fd = f
  <2>1. f # g[i].fd /\ open[f] # NoConn
    BY <1>1, <1>3 DEF Release
  <2>2. \A j \in Slot : j # i => g'[j] = g[j]
    BY <1>1, <1>3 DEF Release
  <2> QED BY <2>1, <2>2
<1> QED BY <1>2, <1>3

\* acceptconn with a free slot gives the new descriptor to that slot; with none it takes
\* a connection off the queue.
LEMMA AcceptHolds ==
    ASSUME AcceptArg = "slot", TypeOK, ReactorInv, NEW e \in batch, acceptconn(e)
    PROVE  Leaked' \subseteq Leaked \/ (FreeSlot = {} /\ backlog' # backlog)
<1>1. PICK cfd \in Fd :
        /\ open[cfd] = NoConn /\ open' = [open EXCEPT ![cfd] = Head(backlog)]
        /\ \/ FreeSlot = {}
           \/ \E i \in Slot : /\ i # MaxEvents /\ g[i].status = 0
                              /\ g' = [g EXCEPT ![i] = myevent_s(cfd, "in", i, "recvdata", 1, g[i].buf)]
  BY AcceptEffect
<1>2. backlog' # backlog
  <2>1. backlog \in Seq(Conn) /\ backlog # <<>> /\ backlog' = Tail(backlog)
    BY DEF acceptconn, TypeOK
  <2>2. Len(Tail(backlog)) = Len(backlog) - 1 /\ Len(backlog) \in Nat
    BY <2>1, HeadTailProperties
  <2>3. Len(backlog) - 1 # Len(backlog)
    BY <2>2
  <2> QED BY <2>1, <2>2, <2>3, Zenon
<1>3. ASSUME NEW i \in Slot, g[i].status = 0,
             g' = [g EXCEPT ![i] = myevent_s(cfd, "in", i, "recvdata", 1, g[i].buf)]
      PROVE  Leaked' \subseteq Leaked
  <2>1. /\ g'[i].status = 1 /\ g'[i].fd = cfd /\ \A j \in Slot : g[j].status = 1 => g'[j] = g[j]
        /\ \A f \in Fd : f # cfd => open'[f] = open[f]
    BY <1>1, <1>3 DEF TypeOK, myevent_s
  <2> QED BY <2>1 DEF Leaked
<1> QED BY <1>1, <1>2, <1>3

\* In test.c no callback closes a connection that has not ended, and none loses a
\* descriptor: only acceptconn with every slot taken does.
THEOREM DescriptorsAreSound ==
    ASSUME AcceptArg = "slot"
    PROVE  Spec => DescriptorsSound
<1>1. TypeOK /\ ReactorInv /\ [Next]_vars =>
         [Leaked' \subseteq Leaked \/ (FreeSlot = {} /\ backlog' # backlog)]_vars
  <2> SUFFICES ASSUME TypeOK, ReactorInv, Next
               PROVE  Leaked' \subseteq Leaked \/ (FreeSlot = {} /\ backlog' # backlog)
    OBVIOUS
  <2>1. ASSUME UNCHANGED <<g, open>> PROVE Leaked' \subseteq Leaked
    BY <2>1 DEF Leaked
  <2>2. ASSUME NEW c \in Conn,
               Connect(c) \/ ClientSend(c) \/ ClientRead(c) \/ ClientShut(c) \/ ClientReset(c)
        PROVE  Leaked' \subseteq Leaked
    BY <2>1, <2>2 DEF Connect, ClientSend, ClientRead, ClientShut, ClientReset, server
  <2>3. ASSUME NEW e \in batch, Dispatch(e)
        PROVE  Leaked' \subseteq Leaked \/ (FreeSlot = {} /\ backlog' # backlog)
    <3>1. e.ptr \in Slot
      BY PendingSlot, Zenon
    <3>2. CASE Skip(e) \/ acceptconn_fails(e) \/ senddata_sigpipe(e)
      BY <2>1, <3>2 DEF Skip, acceptconn_fails, senddata_sigpipe
    <3>3. CASE acceptconn(e)
      BY <3>3, AcceptHolds
    <3>4. CASE recvdata_data(e)
      BY <3>1, <3>4, RecvEffect, CallbackHolds, Zenon DEF recvdata_data
    <3>5. CASE senddata_data(e)
      BY <3>1, <3>5, SendEffect, CallbackHolds, Zenon DEF senddata_data
    <3>6. CASE recvdata_close(e) \/ senddata_close(e)
      BY <3>1, <3>6, CloseEffect, CallbackHolds
    <3> QED BY <2>3, <3>2, <3>3, <3>4, <3>5, <3>6 DEF Dispatch
  <2>4. CASE EpollWait \/ EpollError
    BY <2>1, <2>4 DEF EpollWait, EpollError
  <2> QED BY <2>2, <2>3, <2>4 DEF Next
<1>2. Spec => LeakOnlyAtLimit
  BY <1>1, ReactorInvariant, PTL DEF Spec, LeakOnlyAtLimit
<1> QED BY <1>2, ClosedOnlyWhenEnded DEF DescriptorsSound
=============================================================================
