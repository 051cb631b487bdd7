---------------------------- MODULE EventProofs -----------------------------
(***************************************************************************)
(* Proofs about programs that wait for several descriptors: the sock       *)
(* program over UDP and as a server that forks, and the event loop of      *)
(* mymuduo.                                                                *)
(***************************************************************************)
EXTENDS SockModes, PollLoop, SequenceTheorems, TLAPS

(***************************************************************************)
(* The sock program over UDP: what is shown and what waits, on each side.  *)
(***************************************************************************)

\* There are two sides.
LEMMA SuSides == SuSide = {"c", "s"} /\ \A e \in SuSide : SuOther(e) \in SuSide /\ SuOther(e) # e /\ SuOther(SuOther(e)) = e
BY DEF SuSide, SuOther

\* Both sides start in the invariant.
LEMMA SuInitial == SuInit => SuInv
<1> SUFFICES ASSUME SuInit PROVE SuInv
  OBVIOUS
<1>1. \A e \in SuSide : suBox[e] = <<>> /\ suOut[e] = <<>> /\ suAt[e] = suProg[e].body /\ suSent[e] = 0
  BY DEF SuInit
<1>2. \A e \in SuSide : suProg[e].body \in {"select", "source", "sock"}
  BY DEF SuInit, SuClients, SuServers, SuSide
<1>3. SuTypeOK
  BY <1>1, <1>2 DEF SuInit, SuTypeOK
<1>4. \A e \in SuSide : SuFlow(e)
  BY <1>1 DEF SuFlow, SuAllEmpty, SuInOrder
<1>5. \A e \in SuSide : SuPeeked(e)
  <2> TAKE e \in SuSide
  <2>1. DOMAIN suOut[e] = {} /\ Len(suOut[e]) = 0 /\ suAt[e] # "oncemore"
    BY <1>1, <1>2
  <2>2. Len(suOut[e]) % 2 # 1
    BY <2>1
  <2> QED BY <2>1, <2>2 DEF SuPeeked
<1>6. SuOnce
  BY <1>1 DEF SuOnce
<1>7. SuHeard
  BY <1>1 DEF SuInit, SuHeard, SuSide
<1> QED BY <1>3, <1>4, <1>5, <1>6, <1>7 DEF SuInv

\* The options never change, and with them what depends on them.
LEMMA SuFixed ==
    ASSUME suProg' = suProg
    PROVE  /\ \A e : (SuZero(e)' <=> SuZero(e)) /\ (SuPeeks(e)' <=> SuPeeks(e)) /\ (SuConnected(e)' <=> SuConnected(e))
           /\ \A e, o : SuHas(e, o)' <=> SuHas(e, o)
BY DEF SuZero, SuPeeks, SuConnected, SuHas, SuUsesRecv

\* A datagram appended to a buffer, and the first one taken.
LEMMA SuAppended ==
    ASSUME NEW s \in Seq(Nat), NEW d \in Nat
    PROVE  /\ Append(s, d) \in Seq(Nat) /\ Append(s, d) # <<>> /\ Len(Append(s, d)) = Len(s) + 1 /\ Len(s) \in Nat
           /\ Append(s, d)[Len(s) + 1] = d
           /\ \A i \in DOMAIN s : i \in Nat /\ i <= Len(s) /\ i >= 1 /\ s[i] \in Nat
           /\ \A i \in DOMAIN Append(s, d) : \/ i \in DOMAIN s /\ Append(s, d)[i] = s[i]
                                             \/ i = Len(s) + 1 /\ Append(s, d)[i] = d
<1>1. Append(s, d) \in Seq(Nat) /\ Append(s, d) # <<>> /\ Len(Append(s, d)) = Len(s) + 1 /\ Len(s) \in Nat
  BY AppendProperties
<1>2. Append(s, d)[Len(s) + 1] = d /\ \A i \in 1 .. Len(s) : Append(s, d)[i] = s[i]
  BY AppendProperties
<1>3. DOMAIN s = 1 .. Len(s) /\ DOMAIN Append(s, d) = 1 .. Len(s) + 1
  BY <1>1
<1>4. \A i \in 1 .. Len(s) + 1 : i \in 1 .. Len(s) \/ i = Len(s) + 1
  BY <1>1
<1>5. \A i \in DOMAIN s : i \in Nat /\ i <= Len(s) /\ i >= 1 /\ s[i] \in Nat
  BY <1>1, <1>3
<1> QED BY <1>1, <1>2, <1>3, <1>4, <1>5

\* The first datagram of a buffer is taken.
LEMMA SuTaken ==
    ASSUME NEW s \in Seq(Nat), s # <<>>
    PROVE  /\ Tail(s) \in Seq(Nat) /\ Head(s) \in Nat /\ Head(s) = s[1] /\ 1 \in DOMAIN s
           /\ \A j \in DOMAIN s : j \in Nat /\ j >= 1 /\ s[j] \in Nat
           /\ \A j \in DOMAIN Tail(s) : j \in Nat /\ j >= 1 /\ j + 1 \in DOMAIN s /\ Tail(s)[j] = s[j + 1]
<1>1. Len(s) \in Nat /\ Len(s) # 0 /\ DOMAIN s = 1 .. Len(s)
  BY EmptySeq
<1>2. Tail(s) \in Seq(Nat) /\ Len(Tail(s)) = Len(s) - 1 /\ \A i \in 1 .. Len(Tail(s)) : Tail(s)[i] = s[i + 1]
  BY HeadTailProperties
<1>3. Head(s) \in Nat /\ Head(s) = s[1]
  BY HeadTailProperties
<1>4. DOMAIN Tail(s) = 1 .. Len(Tail(s))
  BY <1>2
<1>5. \A j \in DOMAIN s : j \in Nat /\ j >= 1 /\ s[j] \in Nat
  BY <1>1
<1> QED BY <1>1, <1>2, <1>3, <1>4, <1>5

\* The order is kept when more has been sent, when the next datagram arrives, by a peek
\* and when the first one is taken.
LEMMA SuOrderGrows ==
    ASSUME NEW u \in Seq(Nat), NEW b \in Seq(Nat), NEW m \in Nat, NEW n \in Nat, m <= n, NEW now, SuInOrder(u, b, m, now)
    PROVE  SuInOrder(u, b, n, now)
<1>1. (\A i \in DOMAIN u : u[i] \in Nat) /\ (\A i \in DOMAIN b : b[i] \in Nat)
  OBVIOUS
<1> HIDE DEF SuInOrder
<1>2. \A x \in Nat : x <= m => x <= n
  OBVIOUS
<1> QED BY <1>1, <1>2 DEF SuInOrder

LEMMA SuOrderSends ==
    ASSUME NEW u \in Seq(Nat), NEW b \in Seq(Nat), NEW m \in Nat, NEW now, SuInOrder(u, b, m, now)
    PROVE  SuInOrder(u, Append(b, m + 1), m + 1, now)
<1>1. /\ \A i \in DOMAIN b : b[i] \in Nat /\ 0 < b[i] /\ b[i] <= m
      /\ \A i \in DOMAIN u : u[i] \in Nat /\ 0 < u[i] /\ u[i] <= m
  <2>1. (\A i \in DOMAIN u : u[i] \in Nat) /\ (\A i \in DOMAIN b : b[i] \in Nat)
    OBVIOUS
  <2> QED BY <2>1 DEF SuInOrder
<1>2. PICK n : n = Append(b, m + 1)
  BY Zenon
<1>3. /\ \A i \in DOMAIN n : (i \in DOMAIN b /\ n[i] = b[i]) \/ (i = Len(b) + 1 /\ n[i] = m + 1)
      /\ \A i \in DOMAIN b : i \in Nat /\ i <= Len(b)
      /\ Len(b) \in Nat
  BY <1>2, SuAppended
<1>4. \A i \in DOMAIN n : 0 < n[i] /\ n[i] <= m + 1
  BY <1>1, <1>3
<1>5. \A i, j \in DOMAIN n : i < j => n[i] < n[j]
  <2>1. \A i, j \in DOMAIN b : i < j => b[i] < b[j]
    BY DEF SuInOrder
  <2>2. ASSUME NEW i \in DOMAIN n, NEW j \in DOMAIN n, i < j PROVE i \in DOMAIN b /\ n[i] = b[i]
    BY <1>3, <2>2
  <2>3. \A i \in DOMAIN b : b[i] < m + 1
    BY <1>1
  <2> QED BY <1>3, <2>1, <2>2, <2>3
<1>6. \A i \in DOMAIN u : 0 < u[i] /\ u[i] <= m + 1 /\ u[i] < m + 1
  BY <1>1
<1>7. \A i \in DOMAIN u, j \in DOMAIN n : u[i] < n[j] \/ (now = "oncemore" /\ i = Len(u) /\ j = 1)
  BY <1>3, <1>6 DEF SuInOrder
<1>8. SuInOrder(u, n, m + 1, now)
  BY <1>4, <1>5, <1>6, <1>7 DEF SuInOrder
<1> QED BY <1>2, <1>8

LEMMA SuOrderPeeks ==
    ASSUME NEW u \in Seq(Nat), NEW b \in Seq(Nat), b # <<>>, NEW m \in Nat, NEW now, now # "oncemore",
           SuInOrder(u, b, m, now)
    PROVE  SuInOrder(Append(u, b[1]), b, m, "oncemore")
<1>1. 1 \in DOMAIN b /\ b[1] \in Nat /\ \A j \in DOMAIN b : j \in Nat /\ j >= 1 /\ (j = 1 \/ 1 < j)
  BY SuTaken
<1>2. PICK n : n = Append(u, b[1])
  BY Zenon
<1>3. /\ \A i \in DOMAIN n : (i \in DOMAIN u /\ n[i] = u[i]) \/ (i = Len(u) + 1 /\ n[i] = b[1])
      /\ Len(n) = Len(u) + 1
  BY <1>1, <1>2, SuAppended
<1>4. \A i \in DOMAIN n : 0 < n[i] /\ n[i] <= m
  BY <1>1, <1>3 DEF SuInOrder
<1>5. \A j \in DOMAIN b : j = 1 \/ b[1] < b[j]
  BY <1>1 DEF SuInOrder
<1>6. \A i \in DOMAIN u, j \in DOMAIN b : u[i] < b[j]
  BY DEF SuInOrder
<1>7. \A i \in DOMAIN n, j \in DOMAIN b : n[i] < b[j] \/ (i = Len(n) /\ j = 1)
  BY <1>3, <1>5, <1>6
<1>8. SuInOrder(n, b, m, "oncemore")
  BY <1>4, <1>7 DEF SuInOrder
<1> QED BY <1>2, <1>8

LEMMA SuOrderTakes ==
    ASSUME NEW u \in Seq(Nat), NEW b \in Seq(Nat), b # <<>>, NEW m \in Nat, NEW now, NEW to, SuInOrder(u, b, m, now)
    PROVE  SuInOrder(Append(u, b[1]), Tail(b), m, to)
<1>1. 1 \in DOMAIN b /\ b[1] \in Nat
  BY SuTaken
<1>2. PICK n, c : n = Append(u, b[1]) /\ c = Tail(b)
  BY Zenon
<1>3. \A i \in DOMAIN n : (i \in DOMAIN u /\ n[i] = u[i]) \/ n[i] = b[1]
  BY <1>1, <1>2, SuAppended
<1>4. \A j \in DOMAIN c : j \in Nat /\ j >= 1 /\ j + 1 \in DOMAIN b /\ c[j] = b[j + 1]
  BY <1>2, SuTaken
<1>5. \A i \in DOMAIN n : 0 < n[i] /\ n[i] <= m
  BY <1>1, <1>3, Zenon DEF SuInOrder
<1>6. \A j \in DOMAIN c : 0 < c[j] /\ c[j] <= m
  BY <1>4 DEF SuInOrder
<1>7. \A i, j \in DOMAIN c : i < j => i + 1 < j + 1
  BY <1>4
<1>8. \A i, j \in DOMAIN c : i < j => c[i] < c[j]
  BY <1>4, <1>7 DEF SuInOrder
<1>9. \A j \in DOMAIN c : 1 < j + 1 /\ j + 1 # 1
  BY <1>4
<1>10. \A j \in DOMAIN c : b[1] < c[j]
  BY <1>1, <1>4, <1>9 DEF SuInOrder
<1>11. \A i \in DOMAIN u, j \in DOMAIN c : u[i] < c[j]
  BY <1>4, <1>9 DEF SuInOrder
<1>12. \A i \in DOMAIN n, j \in DOMAIN c : n[i] < c[j]
  BY <1>3, <1>10, <1>11
<1>13. SuInOrder(n, c, m, to)
  BY <1>5, <1>6, <1>8, <1>12 DEF SuInOrder
<1> QED BY <1>2, <1>13

\* The order in which a side shows datagrams, and what may come next; w is 1 with a peek.
SuInTurn(u, w) ==
    \A i, j \in DOMAIN u : i < j /\ u[i] # 0 =>
        IF w = 1 /\ j = i + 1 /\ i % 2 = 1 THEN u[i] = u[j] ELSE u[i] < u[j]
SuIsNext(u, h, w) ==
    \A i \in DOMAIN u : u[i] # 0 => IF w = 1 /\ i = Len(u) /\ i % 2 = 1 THEN u[i] = h ELSE u[i] < h

\* What is shown next may come once more only after a peek.
LEMMA SuShowsNext ==
    ASSUME NEW u \in Seq(Nat), NEW h \in Nat, NEW w \in {0, 1}, SuInTurn(u, w), SuIsNext(u, h, w)
    PROVE  SuInTurn(Append(u, h), w)
<1>1. PICK n : n = Append(u, h)
  BY Zenon
<1>2. /\ \A i \in DOMAIN n : (i \in DOMAIN u /\ n[i] = u[i]) \/ (i = Len(u) + 1 /\ n[i] = h)
      /\ \A i \in DOMAIN u : i \in Nat /\ i <= Len(u)
      /\ Len(u) \in Nat
  BY <1>1, SuAppended
<1>3. ASSUME NEW i \in DOMAIN n, NEW j \in DOMAIN n, i < j, n[i] # 0
      PROVE  IF w = 1 /\ j = i + 1 /\ i % 2 = 1 THEN n[i] = n[j] ELSE n[i] < n[j]
  <2>1. i \in DOMAIN u /\ n[i] = u[i] /\ i \in Nat /\ i <= Len(u)
    BY <1>2, <1>3
  <2>2. CASE j \in DOMAIN u /\ n[j] = u[j]
    BY <1>3, <2>1, <2>2 DEF SuInTurn
  <2>3. CASE j = Len(u) + 1 /\ n[j] = h
    <3>1. j = i + 1 <=> i = Len(u)
      BY <1>2, <2>1, <2>3
    <3>2. IF w = 1 /\ i = Len(u) /\ i % 2 = 1 THEN u[i] = h ELSE u[i] < h
      BY <1>3, <2>1 DEF SuIsNext
    <3> QED BY <2>1, <2>3, <3>1, <3>2
  <2> QED BY <1>2, <2>2, <2>3
<1> QED BY <1>1, <1>3 DEF SuInTurn

\* A number and its successor are not both odd, nor both even.
LEMMA SuOdd == ASSUME NEW k \in Nat PROVE k % 2 = 1 <=> ~((k + 1) % 2 = 1)
<1>1. k = 2 * (k \div 2) + (k % 2) /\ k % 2 \in 0 .. 1 /\ k \div 2 \in Int
  OBVIOUS
<1>2. k + 1 = 2 * ((k + 1) \div 2) + ((k + 1) % 2) /\ (k + 1) % 2 \in 0 .. 1 /\ (k + 1) \div 2 \in Int
  OBVIOUS
<1>3. \A a, b \in 0 .. 1 : \A q, r \in Int : k = 2 * q + a /\ k + 1 = 2 * r + b => a # b
  OBVIOUS
<1>4. k % 2 # (k + 1) % 2
  BY <1>1, <1>2, <1>3
<1> QED BY <1>1, <1>2, <1>4

\* A side is judged by its own place, its own datagrams and the other's count.
LEMMA SuSameSide ==
    ASSUME SuInv, suProg' = suProg, NEW e \in SuSide, suOut'[e] = suOut[e], suBox'[e] = suBox[e],
           suAt[e] = "oncemore" <=> suAt'[e] = "oncemore",
           suSent'[SuOther(e)] >= suSent[SuOther(e)], suSent' \in [SuSide -> Nat]
    PROVE  SuFlow(e)' /\ SuPeeked(e)'
<1>1. SuFlow(e) /\ SuPeeked(e)
  BY DEF SuInv
<1>2. (SuZero(SuOther(e))' <=> SuZero(SuOther(e))) /\ (SuPeeks(e)' <=> SuPeeks(e))
  BY SuFixed
<1>3. SuFlow(e)'
  <2>1. CASE SuZero(SuOther(e))
    BY <1>1, <1>2, <2>1 DEF SuFlow, SuAllEmpty
  <2>2. CASE ~SuZero(SuOther(e))
    <3>1. PICK u \in Seq(Nat), b \in Seq(Nat), m \in Nat, n \in Nat :
            u = suOut[e] /\ b = suBox[e] /\ m = suSent[SuOther(e)] /\ n = suSent'[SuOther(e)] /\ m <= n
      <4>1. suSent[SuOther(e)] \in Nat /\ suSent'[SuOther(e)] \in Nat /\ suOut[e] \in Seq(Nat) /\ suBox[e] \in Seq(Nat)
        BY SuSides DEF SuInv, SuTypeOK
      <4>2. suSent[SuOther(e)] <= suSent'[SuOther(e)]
        BY <4>1
      <4> QED BY <4>1, <4>2
    <3>2. SuInOrder(u, b, m, suAt[e])
      BY <1>1, <2>2, <3>1 DEF SuFlow
    <3>3. SuInOrder(u, b, n, suAt[e])
      BY <3>1, <3>2, SuOrderGrows
    <3>4. SuInOrder(u, b, n, suAt'[e])
      BY <3>3 DEF SuInOrder
    <3> QED BY <1>2, <2>2, <3>1, <3>4 DEF SuFlow
  <2> QED BY <2>1, <2>2
<1>4. SuPeeked(e)'
  BY <1>1, <1>2, Zenon DEF SuPeeked
<1> QED BY <1>3, <1>4

\* A side that only moves on.
LEMMA SuMoves ==
    ASSUME SuInv, NEW e \in SuSide, NEW to \in {"select", "stdin", "sock", "source", "gone"},
           suAt[e] # "oncemore", suAt' = [suAt EXCEPT ![e] = to],
           UNCHANGED <<suProg, suSent, suAddr, suBox, suOut>>
    PROVE  SuInv'
<1>1. SuTypeOK'
  BY DEF SuInv, SuTypeOK
<1>2. \A d \in SuSide : suAt[d] = "oncemore" <=> suAt'[d] = "oncemore"
  BY DEF SuInv, SuTypeOK
<1>3. \A d \in SuSide : SuFlow(d)' /\ SuPeeked(d)'
  BY <1>1, <1>2, SuSameSide, SuSides DEF SuTypeOK
<1>4. SuOnce'
  BY SuFixed DEF SuInv, SuOnce
<1>5. SuHeard'
  BY SuFixed DEF SuInv, SuHeard
<1> QED BY <1>1, <1>3, <1>4, <1>5 DEF SuInv

\* A datagram that is sent comes after all that the other side has shown or has waiting.
LEMMA SuSends ==
    ASSUME SuInv, NEW e \in SuSide, NEW to \in {"select", "stdin", "sock", "source", "gone"}, NEW d \in Nat,
           suAt[e] # "oncemore", suAt' = [suAt EXCEPT ![e] = to],
           suSent' = [suSent EXCEPT ![e] = @ + 1],
           suBox' = suBox \/ (suBox' = [suBox EXCEPT ![SuOther(e)] = Append(@, d)] /\ SuTo(e) = "peer"),
           d = IF SuZero(e) THEN 0 ELSE suSent[e] + 1,
           e = "s" => suProg[e].body = "select",
           UNCHANGED <<suProg, suAddr, suOut>>
    PROVE  SuInv'
<1>0. PICK o \in SuSide : o = SuOther(e) /\ o # e /\ SuOther(o) = e /\ \A x \in SuSide : x \in {e, o}
  BY SuSides DEF SuOther
<1>t. suSent \in [SuSide -> Nat] /\ suBox \in [SuSide -> Seq(Nat)] /\ suOut \in [SuSide -> Seq(Nat)]
      /\ suBox[o] \in Seq(Nat) /\ suOut[o] \in Seq(Nat) /\ suSent[e] \in Nat
  BY DEF SuInv, SuTypeOK
<1>a. suBox' = [suBox EXCEPT ![o] = Append(@, d)] => suBox'[o] = Append(suBox[o], d)
  BY <1>t
<1>b. suBox' \in [SuSide -> Seq(Nat)] /\ suBox'[e] = suBox[e]
  <2>1. Append(suBox[o], d) \in Seq(Nat)
    BY <1>t, SuAppended
  <2>2. CASE suBox' = suBox
    BY <1>t, <2>2
  <2>3. CASE suBox' = [suBox EXCEPT ![o] = Append(suBox[o], d)]
    BY <1>0, <1>t, <2>1, <2>3
  <2> QED BY <1>0, <2>2, <2>3
<1>1. SuTypeOK'
  <2>1. suSent' \in [SuSide -> Nat]
    BY <1>t
  <2>2. suAt' \in [SuSide -> {"select", "stdin", "sock", "oncemore", "source", "gone"}]
    BY DEF SuInv, SuTypeOK
  <2> QED BY <1>b, <2>1, <2>2 DEF SuInv, SuTypeOK
<1>2. suSent'[e] = suSent[e] + 1 /\ suSent'[o] = suSent[o] /\ suSent'[o] >= suSent[o] /\ suSent'[e] >= suSent[e]
  BY <1>0, <1>t
<1>3. \A x \in SuSide : suAt[x] = "oncemore" <=> suAt'[x] = "oncemore"
  BY DEF SuInv, SuTypeOK
<1>4. SuFlow(e)' /\ SuPeeked(e)'
  BY <1>0, <1>1, <1>2, <1>3, <1>b, SuSameSide DEF SuTypeOK
<1>5. SuFlow(o)' /\ SuPeeked(o)'
  <2>1. CASE suBox' = suBox
    BY <1>0, <1>1, <1>2, <1>3, <1>t, <2>1, SuSameSide DEF SuTypeOK
  <2>2. CASE suBox'[o] = Append(suBox[o], d)
    <3>0. SuFlow(o) /\ SuPeeked(o) /\ suOut'[o] = suOut[o] /\ suAt'[o] = suAt[o]
      BY <1>0 DEF SuInv, SuTypeOK
    <3>1. (SuZero(e)' <=> SuZero(e)) /\ (SuPeeks(o)' <=> SuPeeks(o))
      BY SuFixed
    <3>2. PICK b \in Seq(Nat) : b = suBox[o] /\ suBox'[o] = Append(b, d)
      BY <1>t, <2>2
    <3>3. SuFlow(o)'
      <4>1. CASE SuZero(e)
        <5>1. d = 0 /\ SuAllEmpty(b) /\ SuAllEmpty(suOut'[o])
          BY <1>0, <3>0, <3>2, <4>1 DEF SuFlow
        <5>2. SuAllEmpty(suBox'[o])
          BY <3>2, <5>1, SuAppended DEF SuAllEmpty
        <5> QED BY <1>0, <3>1, <4>1, <5>1, <5>2 DEF SuFlow
      <4>2. CASE ~SuZero(e)
        <5>1. PICK u \in Seq(Nat), m \in Nat : u = suOut[o] /\ m = suSent[e] /\ d = m + 1 /\ suSent'[e] = m + 1
          BY <1>2, <1>t, <4>2
        <5>2. SuInOrder(u, b, m, suAt[o])
          BY <1>0, <3>0, <3>2, <4>2, <5>1 DEF SuFlow
        <5>3. SuInOrder(u, Append(b, m + 1), m + 1, suAt[o])
          BY <5>2, SuOrderSends
        <5>4. u = suOut'[o] /\ Append(b, m + 1) = suBox'[o] /\ m + 1 = suSent'[SuOther(o)] /\ suAt[o] = suAt'[o]
          BY <1>0, <3>0, <3>2, <5>1
        <5> QED BY <1>0, <3>1, <4>2, <5>3, <5>4, Zenon DEF SuFlow
      <4> QED BY <4>1, <4>2
    <3>4. suAt[o] = "oncemore" => suBox'[o] # <<>> /\ suBox'[o][1] = b[1]
      <4>1. b # <<>> => 1 \in DOMAIN b
        BY SuTaken
      <4>2. 1 \in DOMAIN b => Append(b, d)[1] = b[1]
        <5>1. 1 \in DOMAIN b => 1 \in 1 .. Len(b)
          OBVIOUS
        <5> QED BY <5>1, AppendProperties
      <4>3. Append(b, d) # <<>>
        BY SuAppended
      <4>4. suAt[o] = "oncemore" => b # <<>>
        BY <3>0, <3>2 DEF SuPeeked
      <4> QED BY <3>2, <4>1, <4>2, <4>3, <4>4
    <3>5. SuPeeked(o)'
      BY <1>0, <3>0, <3>1, <3>2, <3>4, Zenon DEF SuPeeked
    <3> QED BY <3>3, <3>5
  <2> QED BY <1>0, <1>a, <2>1, <2>2
<1>6. SuOnce'
  BY SuFixed DEF SuInv, SuOnce
<1>7. SuHeard'
  <2>1. CASE suBox' = suBox
    BY <2>1, SuFixed DEF SuInv, SuHeard
  <2>2. CASE suBox' # suBox /\ e = "c"
    <3>1. suBox'["c"] = suBox["c"] /\ SuTo("c") = "peer"
      BY <1>b, <2>2
    <3>2. suProg["c"].body = "select" /\ SuHas("c", "o") => suAddr = "peer"
      BY <3>1 DEF SuTo, SuConnected
    <3> QED BY <2>2, <3>1, <3>2, SuFixed DEF SuInv, SuHeard
  <2>3. CASE suBox' # suBox /\ e = "s"
    <3>1. suBox'["s"] = suBox["s"] /\ SuTo("s") = "peer"
      BY <1>b, <2>3
    <3>2. SuHas("s", "f")
      BY <2>3, <3>1 DEF SuTo, SuConnected
    <3> QED BY <2>3, <3>1, <3>2, SuFixed DEF SuInv, SuHeard
  <2> QED BY <2>1, <2>2, <2>3, SuSides
<1> QED BY <1>0, <1>1, <1>4, <1>5, <1>6, <1>7 DEF SuInv

\* A datagram received is shown after all earlier ones; with -Z it is shown by the peek and
\* once more when it is taken.
LEMMA SuRecvStep ==
    ASSUME SuInv, NEW e \in SuSide, SuRecv(e), suProg[e].body \in {"select", "sock"}
    PROVE  SuInv'
<1>0. PICK o \in SuSide : o = SuOther(e) /\ o # e /\ SuOther(o) = e /\ \A x \in SuSide : x \in {e, o}
  BY SuSides DEF SuOther
<1>t. /\ SuTypeOK /\ SuFlow(e) /\ SuPeeked(e) /\ suBox[e] \in Seq(Nat) /\ suOut[e] \in Seq(Nat) /\ suSent[o] \in Nat
      /\ suAt[e] \in {"sock", "oncemore"} /\ suBox[e] # <<>> /\ suSent \in [SuSide -> Nat]
  BY DEF SuInv, SuTypeOK, SuRecv
<1>p. PICK b \in Seq(Nat), u \in Seq(Nat), m \in Nat, h \in Nat :
        b = suBox[e] /\ u = suOut[e] /\ m = suSent[o] /\ h = Head(b) /\ h = b[1] /\ 1 \in DOMAIN b /\ b # <<>>
  BY <1>t, SuTaken
<1>z. SuZero(o) => h = 0 /\ SuAllEmpty(u) /\ SuAllEmpty(b) /\ suAt[e] # "oncemore"
  BY <1>0, <1>t, <1>p DEF SuFlow, SuAllEmpty, SuPeeked
<1>w. ~SuZero(o) => SuInOrder(u, b, m, suAt[e]) /\ 0 < h
  <2>1. ~SuZero(o) => SuInOrder(u, b, m, suAt[e])
    BY <1>0, <1>t, <1>p DEF SuFlow
  <2>2. SuInOrder(u, b, m, suAt[e]) => 0 < h
    BY <1>p DEF SuInOrder
  <2> QED BY <2>1, <2>2
<1>s. suAt[e] = "oncemore" => SuPeeks(e) /\ ~SuZero(o) /\ u[Len(u)] = h
  BY <1>0, <1>t, <1>p DEF SuPeeked
<1>q. SuPeeks(e) => (suAt[e] = "oncemore" <=> Len(u) % 2 = 1)
  BY <1>p, <1>t, Zenon DEF SuPeeked
<1>f. /\ (SuZero(o)' <=> SuZero(o)) /\ (SuPeeks(e)' <=> SuPeeks(e)) /\ (SuPeeks(o)' <=> SuPeeks(o))
      /\ suProg' = suProg /\ suSent' = suSent
  BY SuFixed DEF SuRecv
<1>1. CASE SuEmpty(e)
  <2>0. h = 0
    BY <1>1, <1>p DEF SuEmpty
  <2>1. suAt[e] # "oncemore"
    BY <1>s, <1>w, <2>0
  <2>2. suAt' = [suAt EXCEPT ![e] = "gone"] /\ UNCHANGED <<suProg, suSent, suAddr, suBox, suOut>>
    BY <1>1 DEF SuRecv, SuEnds, SuGo
  <2> QED BY <2>1, <2>2, SuMoves, Zenon
<1>2. CASE ~SuEmpty(e)
  <2>1. PICK n \in Seq(Nat) : n = Append(u, h) /\ n # <<>> /\ Len(n) = Len(u) + 1 /\ Len(u) \in Nat /\ n[Len(u) + 1] = h
    BY SuAppended, ZenonT(30)
  <2>3. suOut' \in [SuSide -> Seq(Nat)] /\ suOut'[e] = n /\ suOut'[o] = suOut[o]
    <3>1. suOut' = [suOut EXCEPT ![e] = n]
      BY <1>2, <1>p, <2>1, <1>t DEF SuRecv, SuTypeOK
    <3> QED BY <1>0, <1>t, <3>1 DEF SuTypeOK
  <2>4. PICK peek \in {0, 1} : (peek = 1 <=> SuPeeks(e) /\ suAt[e] = "sock")
    OBVIOUS
  <2>5. PICK c \in Seq(Nat) : c = (IF peek = 1 THEN b ELSE Tail(b))
    BY <1>p, SuTaken, Zenon
  <2>6. suBox' \in [SuSide -> Seq(Nat)] /\ suBox'[e] = c /\ suBox'[o] = suBox[o]
    <3>1. suBox' = IF peek = 1 THEN suBox ELSE [suBox EXCEPT ![e] = c]
      BY <1>2, <1>p, <1>t, <2>4, <2>5 DEF SuRecv, SuTypeOK
    <3> QED BY <1>0, <1>p, <1>t, <2>5, <3>1 DEF SuTypeOK
  <2>7. PICK to \in {"select", "sock", "oncemore"} : suAt' = [suAt EXCEPT ![e] = to] /\ (to = "oncemore" <=> peek = 1)
    <3>1. suAt' = [suAt EXCEPT ![e] = IF peek = 1 THEN "oncemore" ELSE suProg[e].body]
      BY <1>2, <2>4 DEF SuRecv, SuGo
    <3> QED BY <3>1, Zenon
  <2>8. suAt' \in [SuSide -> {"select", "stdin", "sock", "oncemore", "source", "gone"}] /\ suAt'[e] = to /\ suAt'[o] = suAt[o]
    BY <1>0, <1>t, <2>7 DEF SuTypeOK
  <2>9. suAddr' = (IF e = "c" /\ ~SuConnected(e) THEN "peer" ELSE suAddr)
    BY <1>2 DEF SuRecv
  <2>10. SuTypeOK'
    BY <1>f, <1>t, <2>3, <2>6, <2>8, <2>9 DEF SuTypeOK
  <2>11. SuFlow(o)' /\ SuPeeked(o)'
    <3>0. suSent[e] \in Nat
      BY <1>t
    <3>1. suSent[e] >= suSent[e]
      BY <3>0
    <3>2. suSent'[SuOther(o)] >= suSent[SuOther(o)] /\ suSent' \in [SuSide -> Nat]
      BY <1>0, <1>f, <1>t, <3>1
    <3> QED BY <3>2, <1>0, <1>f, <2>3, <2>6, <2>8, SuSameSide, Zenon
  <2>12. SuFlow(e)'
    <3>1. CASE SuZero(o)
      <4>1. SuAllEmpty(n)
        BY <1>z, <2>1, <3>1, SuAppended DEF SuAllEmpty
      <4>2. SuAllEmpty(c)
        <5>1. CASE peek = 1
          BY <1>z, <2>5, <3>1, <5>1
        <5>2. CASE peek = 0
          BY <1>p, <1>z, <2>5, <3>1, <5>2, SuTaken DEF SuAllEmpty
        <5> QED BY <5>1, <5>2
      <4> QED BY <1>0, <1>f, <2>3, <2>6, <3>1, <4>1, <4>2 DEF SuFlow
    <3>2. CASE ~SuZero(o)
      <4>1. SuInOrder(n, c, m, to)
        <5>1. CASE peek = 1
          <6>1. suAt[e] # "oncemore" /\ c = b /\ to = "oncemore"
            BY <2>4, <2>5, <2>7, <5>1
          <6> QED BY <1>p, <1>w, <2>1, <3>2, <6>1, SuOrderPeeks
        <5>2. CASE peek = 0
          <6>1. c = Tail(b)
            BY <2>5, <5>2
          <6> QED BY <1>p, <1>w, <2>1, <3>2, <6>1, SuOrderTakes, ZenonT(30)
        <5> QED BY <5>1, <5>2
      <4>2. n = suOut'[e] /\ c = suBox'[e] /\ m = suSent'[SuOther(e)] /\ to = suAt'[e]
        BY <1>0, <1>f, <1>p, <2>3, <2>6, <2>8
      <4> QED BY <1>0, <1>f, <3>2, <4>1, <4>2 DEF SuFlow
    <3> QED BY <3>1, <3>2
  <2>13. SuPeeked(e)'
    <3>2. SuPeeks(e) => (to = "oncemore" <=> Len(n) % 2 = 1)
      <4>2. Len(u) % 2 = 1 <=> ~(Len(n) % 2 = 1)
        BY <2>1, SuOdd, Zenon
      <4>3. to = "oncemore" <=> SuPeeks(e) /\ suAt[e] = "sock"
        BY <2>4, <2>7
      <4> QED BY <1>t, <1>q, <4>2, <4>3
    <3>3. to = "oncemore" => SuPeeks(e) /\ ~SuZero(o) /\ c = b /\ n[Len(n)] = b[1]
      <4>1. to = "oncemore" => SuPeeks(e) /\ c = b
        BY <2>4, <2>5, <2>7
      <4>2. SuPeeks(e) => h # 0
        BY <1>2, <1>p DEF SuEmpty, SuPeeks
      <4> QED BY <1>p, <1>z, <2>1, <4>1, <4>2
    <3> QED BY <1>0, <1>f, <1>p, <2>1, <2>3, <2>6, <2>8, <3>2, <3>3, Zenon DEF SuPeeked
  <2>14. SuOnce'
    <3>0. PICK w \in {0, 1} : w = 1 <=> SuPeeks(e)
      OBVIOUS
    <3>1. SuInTurn(u, w)
      BY <1>p, <3>0 DEF SuInv, SuOnce, SuInTurn
    <3>2. SuIsNext(u, h, w)
      <4>1. CASE SuZero(o)
        BY <1>z, <4>1 DEF SuAllEmpty, SuIsNext
      <4>2. CASE ~SuZero(o)
        <5>1. \A i \in DOMAIN u : u[i] < h \/ (suAt[e] = "oncemore" /\ i = Len(u))
          BY <1>p, <1>w, <4>2 DEF SuInOrder
        <5> QED BY <1>q, <1>s, <3>0, <5>1 DEF SuIsNext
      <4> QED BY <4>1, <4>2
    <3>3. SuInTurn(n, w)
      BY <2>1, <3>1, <3>2, SuShowsNext
    <3>4. \A i, j \in DOMAIN suOut[o] : i < j /\ suOut[o][i] # 0 =>
             IF SuPeeks(o) /\ j = i + 1 /\ i % 2 = 1 THEN suOut[o][i] = suOut[o][j] ELSE suOut[o][i] < suOut[o][j]
      BY DEF SuInv, SuOnce
    <3>5. \A i, j \in DOMAIN suOut'[e] : i < j /\ suOut'[e][i] # 0 =>
             IF SuPeeks(e)' /\ j = i + 1 /\ i % 2 = 1 THEN suOut'[e][i] = suOut'[e][j] ELSE suOut'[e][i] < suOut'[e][j]
      BY <1>f, <2>3, <3>0, <3>3 DEF SuInTurn
    <3>6. \A i, j \in DOMAIN suOut'[o] : i < j /\ suOut'[o][i] # 0 =>
             IF SuPeeks(o)' /\ j = i + 1 /\ i % 2 = 1 THEN suOut'[o][i] = suOut'[o][j] ELSE suOut'[o][i] < suOut'[o][j]
      BY <1>f, <2>3, <3>4
    <3>7. \A x \in SuSide : x = e \/ x = o
      BY <1>0
    <3> QED BY <3>5, <3>6, <3>7, ZenonT(30) DEF SuOnce
  <2>15. SuHeard'
    <3>1. CASE e = "c"
      <4>1. o = "s" /\ SuHas("s", "f") /\ suOut'["c"] # <<>>
        BY <1>0, <1>p, <2>1, <2>3, <3>1 DEF SuInv, SuHeard, SuSide
      <4> QED BY <1>f, <4>1, SuFixed DEF SuHeard
    <3>2. CASE e = "s"
      <4>1. o = "c" /\ suOut'["c"] = suOut["c"] /\ suBox'["c"] = suBox["c"] /\ suBox["s"] # <<>> /\ suAddr' = suAddr
        BY <1>0, <1>t, <2>3, <2>6, <2>9, <3>2 DEF SuSide
      <4> QED BY <1>f, <4>1, SuFixed DEF SuInv, SuHeard
    <3> QED BY <3>1, <3>2, SuSides
  <2> QED BY <1>0, <2>10, <2>11, <2>12, <2>13, <2>14, <2>15, Zenon DEF SuInv
<1> QED BY <1>1, <1>2

\* What SuTransmit changes, in the terms of SuSends.
LEMMA SuTransmitStep ==
    ASSUME SuInv, NEW e \in SuSide, suAt[e] \in {"stdin", "source"}, NEW d \in Nat, SuTransmit(e, d),
           d = IF SuZero(e) THEN 0 ELSE suSent[e] + 1, suSent' = [suSent EXCEPT ![e] = @ + 1],
           e = "s" => suProg[e].body = "select", UNCHANGED <<suProg, suReady, suAddr, suOut>>
    PROVE  SuInv'
<1>1. PICK to \in {"select", "sock", "source", "gone"} : suAt' = [suAt EXCEPT ![e] = to]
  BY DEF SuTransmit, SuGo, SuEnds, SuNextAt
<1>2. suBox' = suBox \/ (suBox' = [suBox EXCEPT ![SuOther(e)] = Append(@, d)] /\ SuTo(e) = "peer")
  BY DEF SuTransmit, SuArrives
<1> QED BY <1>1, <1>2, SuSends, Zenon

\* Every step of loop_udp, sink_udp and source_udp keeps the invariant.
LEMMA SuSideStep == ASSUME SuInv, NEW e \in SuSide, SuStep(e) PROVE SuInv'
<1>t. suSent \in [SuSide -> Nat] /\ suSent[e] \in Nat /\ suAt[e] \in {"select", "stdin", "sock", "oncemore", "source", "gone"}
  BY DEF SuInv, SuTypeOK
<1>1. CASE suProg[e].body = "select" /\ SuSelect(e)
  <2>1. PICK to \in {"stdin", "sock"} : suAt' = [suAt EXCEPT ![e] = to]
    BY <1>1, Zenon DEF SuSelect, SuGo
  <2>2. suAt[e] # "oncemore" /\ UNCHANGED <<suProg, suSent, suAddr, suBox, suOut>>
    BY <1>1 DEF SuSelect
  <2> QED BY <2>1, <2>2, SuMoves, Zenon
<1>2. CASE suProg[e].body = "select" /\ SuStdin(e)
  <2>1. CASE suSent[e] < SuLines
    <3>1. SuTransmit(e, suSent[e] + 1) /\ suSent' = [suSent EXCEPT ![e] = @ + 1] /\ suAt[e] = "stdin"
          /\ UNCHANGED <<suProg, suReady, suAddr, suOut>>
      BY <1>2, <2>1 DEF SuStdin
    <3>2. ~SuZero(e) /\ suSent[e] + 1 \in Nat
      <4>1. suProg["c"] \in SuClients /\ suProg["s"] \in SuServers
        BY DEF SuInv, SuTypeOK
      <4>2. \A p \in SuClients : p.body = "select" => "0" \notin p.opts
        BY DEF SuClients
      <4>3. \A p \in SuServers : p.body = "select" => "0" \notin p.opts
        BY DEF SuServers
      <4>4. "0" \notin suProg[e].opts
        BY <1>2, <4>1, <4>2, <4>3 DEF SuSide
      <4> QED BY <1>t, <4>4 DEF SuZero, SuHas
    <3>3. PICK d \in Nat : d = suSent[e] + 1 /\ SuTransmit(e, d)
      BY <3>1, <3>2
    <3> QED BY <1>2, <3>1, <3>2, <3>3, SuTransmitStep, Zenon
  <2>2. CASE ~(suSent[e] < SuLines)
    <3>1. suAt[e] # "oncemore" /\ suAt' = [suAt EXCEPT ![e] = "gone"] /\ UNCHANGED <<suProg, suSent, suAddr, suBox, suOut>>
      BY <1>2, <2>2 DEF SuStdin, SuEnds, SuGo
    <3> QED BY <3>1, SuMoves, Zenon
  <2> QED BY <2>1, <2>2
<1>3. CASE e = "c" /\ source_udp
  <2>1. CASE suSent["c"] < SuLines
    <3>1. SuTransmit(e, IF SuHas(e, "0") THEN 0 ELSE suSent[e] + 1) /\ suSent' = [suSent EXCEPT ![e] = @ + 1]
          /\ suAt[e] = "source" /\ UNCHANGED <<suProg, suReady, suAddr, suOut>>
      BY <1>3, <2>1 DEF source_udp
    <3>2. PICK d \in Nat : d = (IF SuHas(e, "0") THEN 0 ELSE suSent[e] + 1) /\ SuTransmit(e, d)
      BY <1>t, <3>1
    <3>3. SuHas(e, "0") <=> SuZero(e)
      BY DEF SuZero
    <3> QED BY <1>3, <3>1, <3>2, <3>3, SuTransmitStep, Zenon
  <2>2. CASE ~(suSent["c"] < SuLines)
    <3>1. suAt[e] # "oncemore" /\ suAt' = [suAt EXCEPT ![e] = "gone"] /\ UNCHANGED <<suProg, suSent, suAddr, suBox, suOut>>
      BY <1>3, <2>2 DEF source_udp, SuEnds, SuGo
    <3> QED BY <3>1, SuMoves
  <2> QED BY <2>1, <2>2
<1>4. CASE suProg[e].body \in {"select", "sock"} /\ SuRecvFails(e)
  <2>1. suAt[e] # "oncemore" /\ suAt' = [suAt EXCEPT ![e] = "gone"] /\ UNCHANGED <<suProg, suSent, suAddr, suBox, suOut>>
    BY <1>4, Zenon DEF SuRecvFails, SuEnds, SuGo, SuInv, SuPeeked
  <2> QED BY <2>1, SuMoves
<1>5. CASE suProg[e].body \in {"select", "sock"} /\ SuRecv(e)
  BY <1>5, SuRecvStep
<1> QED BY <1>1, <1>2, <1>3, <1>4, <1>5 DEF SuStep, loop_udp, sink_udp, SuReceives

\* The invariant depends on the variables of the two sides only.
LEMMA SuStutters == ASSUME SuInv, UNCHANGED suVars PROVE SuInv'
<1>0. UNCHANGED <<suProg, suAt, suReady, suSent, suAddr, suBox, suErr, suOut, suEnd>>
  BY DEF suVars
<1>1. SuTypeOK'
  BY <1>0 DEF SuInv, SuTypeOK
<1>2. \A d \in SuSide : SuFlow(d)' /\ SuPeeked(d)'
  BY <1>0, <1>1, SuSameSide, SuSides DEF SuTypeOK
<1>3. SuOnce' /\ SuHeard'
  BY <1>0, SuFixed DEF SuInv, SuOnce, SuHeard
<1> QED BY <1>1, <1>2, <1>3 DEF SuInv

\* The inductive invariant of loop_udp, source_udp and sink_udp, for every number of lines
\* and in every combination of options: datagrams lost or not, what is shown and what
\* waits is in the order sent.
THEOREM SuInvariant == SuSpec => []SuInv
<1>1. SuInv /\ [SuNext]_suVars => SuInv'
  BY SuSideStep, SuStutters DEF SuNext
<1> QED BY <1>1, SuInitial, PTL DEF SuSpec

\* What is known of finite sets, for the counts.
INSTANCE FiniteSetTheorems

(***************************************************************************)
(* The sock server that forks: where the terminal is, for every number of  *)
(* clients.                                                                *)
(***************************************************************************)

\* The children are numbered without gaps.
LEMMA SfCount ==
    ASSUME NEW f \in Nat, f <= SfConn, \A k \in SfKids : sfKid[k] # "none" <=> k <= f
    PROVE  SfForked = f
<1>1. {k \in SfKids : sfKid[k] # "none"} = 1 .. f
  BY SfAssumption DEF SfKids
<1>2. Cardinality(1 .. f) = f
  BY FS_Interval
<1> QED BY <1>1, <1>2, Zenon DEF SfForked

\* The server starts in the invariant.
LEMMA SfInitial == SfInit => SfInv
<1> SUFFICES ASSUME SfInit PROVE SfInv
  OBVIOUS
<1>1. \A k \in SfKids : sfKid[k] = "none"
  BY DEF SfInit
<1>2. \A k \in SfKids : sfKid[k] # "none" <=> k <= 0
  BY <1>1, SfAssumption DEF SfKids
<1>3. SfForked = 0
  BY <1>2, SfCount, SfAssumption
<1> QED BY <1>1, <1>2, <1>3, SfAssumption DEF SfInit, SfInv, SfTerminalAlone, SfWaits

\* A step that forks nobody leaves the number of children alone.
LEMMA SfSameCount ==
    ASSUME SfInv, \A k \in SfKids : sfKid'[k] # "none" <=> sfKid[k] # "none"
    PROVE  SfForked' = SfForked
<1>1. {k \in SfKids : sfKid'[k] # "none"} = {k \in SfKids : sfKid[k] # "none"}
  OBVIOUS
<1> QED BY <1>1 DEF SfForked

\* A connection goes to the listen queue.
LEMMA SfConnectStep == ASSUME SfInv, SfConnect PROVE SfInv'
<1>1. SfForked' = SfForked
  BY SfSameCount DEF SfConnect
<1> QED BY <1>1, SfAssumption DEF SfConnect, SfInv, SfTerminalAlone, SfWaits

\* The child that accept and fork start has the next number and the terminal.
LEMMA SfAcceptStep == ASSUME SfInv, SfAccept PROVE SfInv'
<1>1. CASE dofork = 0
  <2>1. SfForked' = SfForked
    BY <1>1, SfSameCount DEF SfAccept
  <2> QED BY <1>1, <2>1, SfAssumption DEF SfAccept, SfInv, SfTerminalAlone, SfWaits
<1>2. CASE dofork = 1
  <2>1. PICK f \in Nat : f = SfForked
    BY DEF SfInv
  <2>2. /\ f + 1 <= SfConn /\ f + 1 \in SfKids /\ sfBacklog \in Nat /\ sfBacklog' \in Nat
        /\ f + 1 + sfBacklog' <= sfCome
    BY <2>1, SfAssumption DEF SfAccept, SfInv, SfKids
  <2>3. sfKid' = [sfKid EXCEPT ![f + 1] = "open"] /\ sfParent' = "test" /\ sfParent = "accept"
    BY <1>2, <2>1 DEF SfAccept
  <2>4. \A k \in SfKids : sfKid[k] # "none" <=> k <= f
    BY <2>1 DEF SfInv
  <2>5. sfKid' \in [SfKids -> {"none", "open", "serving", "failed", "ended"}]
    BY <2>3, Zenon DEF SfInv
  <2>6. \A k \in SfKids : sfKid'[k] = IF k = f + 1 THEN "open" ELSE sfKid[k]
    BY <2>3 DEF SfInv
  <2>7. \A k \in SfKids : sfKid'[k] # "none" <=> k <= f + 1
    <3>1. \A k \in SfKids : k <= f + 1 <=> k <= f \/ k = f + 1
      BY SfAssumption DEF SfKids
    <3> QED BY <2>4, <2>6, <3>1
  <2>8. SfForked' = f + 1
    <3>1. {k \in SfKids : sfKid'[k] # "none"} = 1 .. f + 1
      BY <2>2, <2>7, SfAssumption DEF SfKids
    <3>2. Cardinality(1 .. f + 1) = f + 1
      BY FS_Interval
    <3> QED BY <3>1, <3>2, Zenon DEF SfForked
  <2>9. \A k \in SfKids : sfKid[k] # "open"
    BY <2>3 DEF SfInv, SfTerminalAlone
  <2>10. SfTerminalAlone'
    BY <2>3, <2>6, <2>9 DEF SfTerminalAlone
  <2>11. sfPending = "no" /\ sigflag = 0
    BY <2>3 DEF SfInv, SfWaits
  <2>12. sfMask = "open" => f >= 1
    BY <1>2, <2>1 DEF SfInv
  <2>13. UNCHANGED <<dofork, sfMask, sigflag, sfPending, sfCome>>
    BY DEF SfAccept
  <2>14. SfForked' \in Nat /\ SfForked' + sfBacklog' <= sfCome' /\ SfForked' >= 1
    BY <2>2, <2>8, <2>13
  <2>15. \A k \in SfKids : sfKid'[k] # "none" <=> k <= SfForked'
    BY <2>7, <2>8
  <2>16. sfMask' = "open" => SfForked' >= 2
    BY <2>8, <2>12, <2>13
  <2>17. sfPending' = "no" /\ sigflag' = 0 /\ dofork' = 1
    BY <1>2, <2>11, <2>13
  <2> QED BY <2>2, <2>3, <2>5, <2>10, <2>13, <2>14, <2>15, <2>16, <2>17, Zenon DEF SfInv, SfWaits
<1> QED BY <1>1, <1>2 DEF SfInv

\* A child moves on; the terminal goes with it.
LEMMA SfKidStep ==
    ASSUME SfInv, NEW k \in SfKids, SfKidTells(k) \/ SfKidFails(k) \/ SfKidEnds(k)
    PROVE  SfInv'
<1>0. PICK w \in {"serving", "failed", "ended"} :
        /\ sfKid' = [sfKid EXCEPT ![k] = w] /\ sfKid[k] \in {"open", "serving"}
        /\ (sfPending' = "yes" /\ sfKid[k] = "open") \/ sfPending' = sfPending
        /\ UNCHANGED <<dofork, sfParent, sfMask, sigflag, sfBacklog, sfCome>>
  BY DEF SfKidTells, SfKidFails, SfKidEnds
<1>1. \A j \in SfKids : sfKid'[j] = IF j = k THEN w ELSE sfKid[j]
  BY <1>0 DEF SfInv
<1>2. SfForked' = SfForked
  BY <1>0, <1>1, SfSameCount
<1>3. \A j \in SfKids : sfKid'[j] = "open" => sfKid[j] = "open" /\ j # k
  BY <1>1
<1>4. SfTerminalAlone'
  BY <1>0, <1>3 DEF SfInv, SfTerminalAlone
<1>5. sfKid[k] = "open" => \A j \in SfKids : sfKid'[j] # "open"
  BY <1>3 DEF SfInv, SfTerminalAlone
<1>6. sfKid' \in [SfKids -> {"none", "open", "serving", "failed", "ended"}]
  BY <1>0 DEF SfInv
<1>7. \A j \in SfKids : sfKid'[j] # "none" <=> j <= SfForked'
  BY <1>0, <1>1, <1>2 DEF SfInv
<1> QED BY <1>0, <1>2, <1>3, <1>4, <1>5, <1>6, <1>7 DEF SfInv, SfWaits

\* WAIT_CHILD and its handler hand the terminal back to the parent.
LEMMA SfWaitStep == ASSUME SfInv, WAIT_CHILD \/ sig_usr \/ UNCHANGED sfVars PROVE SfInv'
<1>0. sfKid' = sfKid /\ SfForked' = SfForked
  BY SfSameCount DEF WAIT_CHILD, SfTest, sigsuspend, SfReset, sig_usr, sfVars
<1>1. CASE SfTest
  BY <1>0, <1>1 DEF SfTest, SfInv, SfTerminalAlone, SfWaits
<1>2. CASE sigsuspend
  BY <1>0, <1>2 DEF sigsuspend, SfInv, SfTerminalAlone, SfWaits
<1>3. CASE SfReset
  BY <1>0, <1>3 DEF SfReset, SfInv, SfTerminalAlone, SfWaits
<1>4. CASE sig_usr
  BY <1>0, <1>4 DEF sig_usr, SfInv, SfTerminalAlone, SfWaits
<1>5. CASE UNCHANGED sfVars
  BY <1>0, <1>5 DEF sfVars, SfInv, SfTerminalAlone, SfWaits
<1> QED BY <1>1, <1>2, <1>3, <1>4, <1>5 DEF WAIT_CHILD

\* The inductive invariant of servopen with -F, for every number of clients: the terminal
\* is with one child, under way as SIGUSR2 or back in sigflag, and the parent waits for it.
THEOREM SfInvariant == SfSpec => []SfInv
<1>1. SfInv /\ [SfNext]_sfVars => SfInv'
  BY SfConnectStep, SfAcceptStep, SfKidStep, SfWaitStep DEF SfNext, SfServes
<1> QED BY <1>1, SfInitial, PTL DEF SfSpec

\* The sock program over UDP shows every datagram at most once, twice in a row with -Z, and
\* an unconnected client is heard only after the server; in servopen with -F one child at a
\* time has the terminal, and the signal of the first is never missed.
THEOREM SockModesAreSound == SuSpec /\ SfSpec => []SockModesSound
<1>1. SuInv => SuSpeaksFirst
  BY DEF SuInv, SuHeard, SuSpeaksFirst
<1>2. SfInv => SfFirstIsKept
  BY DEF SfInv, SfFirstIsKept, SfMissed
<1>3. SuInv /\ SfInv => SockModesSound
  BY <1>1, <1>2 DEF SockModesSound
<1> QED BY <1>3, SuInvariant, SfInvariant, PTL

(***************************************************************************)
(* The event loop.                                                         *)
(***************************************************************************)

\* A set of numbers that is not empty has a least element.
LEMMA Least ==
    ASSUME NEW T, T \subseteq Nat, T # {}
    PROVE  \E x \in T : \A y \in T : x <= y
<1>1. PICK x \in T : \A y \in T : ~(<<y, x>> \in OpToRel(<, Nat))
  BY WFMin, NatLessThanWellFounded, Zenon
<1>2. \A y \in T : ~(y < x)
  BY <1>1, Zenon DEF OpToRel
<1> QED BY <1>2

\* The channel at the iterator is one of the active ones.
LEMMA FirstIsActive ==
    ASSUME active # {}, active \subseteq Chan, \A c \in active : index[c] \in Nat
    PROVE  First \in active
<1> DEFINE T == {index[c] : c \in active}
<1>1. PICK x \in T : \A y \in T : x <= y
  <2> T \subseteq Nat /\ T # {}
    OBVIOUS
  <2> HIDE DEF T
  <2> QED BY Least, Zenon
<1>2. \E c \in active : \A d \in active : index[c] <= index[d]
  BY <1>1
<1> QED BY <1>2 DEF First

\* What PollInv says of a state with active channels.
LEMMA ActiveFacts ==
    ASSUME PollInv, active # {}
    PROVE  First \in active /\ First \in Chan
<1>1. active \subseteq Chan /\ \A c \in active : index[c] \in Nat
  <2>1. index \in [Chan -> 0 .. Len(pollfds)] /\ Len(pollfds) \in Nat /\ active \subseteq Chan
    BY LenProperties, Zenon DEF PollInv, PlTypeOK
  <2> QED BY <2>1
<1> QED BY <1>1, FirstIsActive

\* The callback that runs is one that is left to run.
LEMMA RunningIsLeft ==
    ASSUME PollInv, cb # {}
    PROVE  Running \in cb /\ First \in active
<1>1. cb \subseteq Event /\ active # {}
  BY DEF PollInv, PlTypeOK
<1> QED BY <1>1, ActiveFacts, Zenon DEF Event, Running

\* The loop starts with no channels.
LEMMA PollInitial == PlInit => PollInv
<1> SUFFICES ASSUME PlInit PROVE PollInv
  OBVIOUS
<1>1. pollfds = <<>> /\ Len(pollfds) = 0 /\ DOMAIN pollfds = {}
  BY DEF PlInit
<1>2. PlTypeOK
  <2>1. index \in [Chan -> 0 .. Len(pollfds)]
    BY <1>1 DEF PlInit
  <2>2. pollfds \in Seq([fd : Chan \cup {NoFd}, events : SUBSET {"read", "write"}])
    BY <1>1, EmptySeq
  <2> QED BY <2>1, <2>2, Zenon DEF PlInit, PlTypeOK, Event
<1>3. TableConsistent
  BY <1>1 DEF PlInit, TableConsistent
<1> QED BY <1>1, <1>2, <1>3 DEF PlInit, PollInv

\* enableReading and enableWriting, in user code before the loop or inside a callback: a
\* new channel gets the next place of the table.
LEMMA enableKeeps ==
    ASSUME PollInv, NEW c \in Chan, NEW e \in {"read", "write"}, enable(c, e)
    PROVE  PollInv'
<1>1. /\ UNCHANGED <<revents, quit, looping, active, cb, plPc, ready>>
      /\ events' = [events EXCEPT ![c] = @ \cup {e}]
      /\ updateChannel(c, events'[c])
  BY DEF enable
<1>2. /\ events \in [Chan -> SUBSET {"read", "write"}] /\ index \in [Chan -> 0 .. Len(pollfds)]
      /\ pollfds \in Seq([fd : Chan \cup {NoFd}, events : SUBSET {"read", "write"}])
      /\ Len(pollfds) \in Nat /\ DOMAIN pollfds = 1 .. Len(pollfds)
  BY LenProperties, Zenon DEF PollInv, PlTypeOK
<1>3. /\ events' \in [Chan -> SUBSET {"read", "write"}] /\ events'[c] # {}
      /\ \A d \in Chan : events[d] \subseteq events'[d]
  BY <1>1, <1>2
<1>4. /\ \A d \in Chan : index[d] > 0 => index[d] \in DOMAIN pollfds /\ pollfds[index[d]].fd = d
      /\ \A i \in DOMAIN pollfds : pollfds[i].fd \in Chan /\ index[pollfds[i].fd] = i
      /\ \A i \in DOMAIN pollfds : pollfds[i].events \subseteq events[pollfds[i].fd]
  BY DEF PollInv, TableConsistent
<1>5. /\ index' \in [Chan -> 0 .. Len(pollfds')] /\ TableConsistent'
      /\ pollfds' \in Seq([fd : Chan \cup {NoFd}, events : SUBSET {"read", "write"}])
      /\ \A i \in DOMAIN pollfds' : pollfds'[i].events \subseteq events'[pollfds'[i].fd]
      /\ \A d \in Chan : index[d] > 0 => index'[d] = index[d]
  <2>1. CASE index[c] # 0
    <3>1. index' = index /\ pollfds' = pollfds
      BY <1>1, <1>3, <2>1 DEF updateChannel
    <3> QED BY <1>2, <1>3, <1>4, <3>1 DEF TableConsistent
  <2>2. CASE index[c] = 0
    <3> DEFINE x == [fd |-> c, events |-> events'[c]]
    <3>1. pollfds' = Append(pollfds, x) /\ index' = [index EXCEPT ![c] = Len(pollfds) + 1]
      BY <1>1, <2>2 DEF updateChannel
    <3>2. x \in [fd : Chan \cup {NoFd}, events : SUBSET {"read", "write"}] /\ x.fd = c /\ x.events = events'[c]
      BY <1>3
    <3> HIDE DEF x
    <3>3. PICK n \in Nat : n = Len(pollfds)
      BY <1>2, Zenon
    <3>4. /\ pollfds' \in Seq([fd : Chan \cup {NoFd}, events : SUBSET {"read", "write"}])
          /\ Len(pollfds') = n + 1 /\ pollfds'[n + 1] = x
          /\ \A i \in 1 .. n : pollfds'[i] = pollfds[i]
      BY <1>2, <3>1, <3>2, <3>3, AppendProperties
    <3>5. DOMAIN pollfds' = 1 .. n + 1 /\ DOMAIN pollfds = 1 .. n
      BY <1>2, <3>3, <3>4, LenProperties
    <3>6. \A i \in 1 .. n : pollfds[i].fd # c
      BY <1>4, <2>2, <3>5
    <3>7. /\ index'[c] = n + 1 /\ \A d \in Chan : d # c => index'[d] = index[d] /\ index[d] \in 0 .. n
          /\ index' = [d \in Chan |-> index'[d]]
      BY <1>2, <3>1, <3>3, Zenon
    <3>8. ASSUME NEW d \in Chan, index'[d] > 0 PROVE index'[d] \in 1 .. n + 1 /\ pollfds'[index'[d]].fd = d
      <4>1. CASE d = c
        BY <3>2, <3>4, <3>7, <4>1
      <4>2. CASE d # c
        <5>1. index'[d] = index[d] /\ index[d] \in 1 .. n
          BY <3>7, <3>8, <4>2
        <5>2. pollfds[index[d]].fd = d
          BY <1>4, <5>1
        <5> QED BY <3>4, <5>1, <5>2
      <4> QED BY <4>1, <4>2
    <3>9. ASSUME NEW i \in 1 .. n + 1
          PROVE  /\ pollfds'[i].fd \in Chan /\ index'[pollfds'[i].fd] = i
                 /\ pollfds'[i].events \subseteq events'[pollfds'[i].fd]
      <4>1. CASE i = n + 1
        BY <3>2, <3>4, <3>7, <4>1
      <4>2. CASE i \in 1 .. n
        <5>1. pollfds'[i] = pollfds[i] /\ pollfds[i].fd # c /\ pollfds[i].fd \in Chan
          BY <1>4, <3>4, <3>5, <3>6, <4>2
        <5> QED BY <1>3, <1>4, <3>5, <3>7, <4>2, <5>1
      <4> QED BY <4>1, <4>2
    <3>10. index' \in [Chan -> 0 .. Len(pollfds')]
      <4>1. \A d \in Chan : index'[d] \in 0 .. n + 1
        BY <3>7
      <4> QED BY <3>4, <3>7, <4>1
    <3>11. \A d \in Chan : index[d] > 0 => index'[d] = index[d]
      BY <2>2, <3>7
    <3> QED BY <3>4, <3>5, <3>8, <3>9, <3>10, <3>11 DEF TableConsistent
  <2> QED BY <2>1, <2>2
<1>6. PlTypeOK'
  BY <1>1, <1>3, <1>5 DEF PollInv, PlTypeOK
<1>7. First' = First
  <2>1. \A d \in active : index'[d] = index[d]
    BY <1>5, Zenon DEF PollInv, PlTypeOK
  <2> QED BY <1>1, <2>1 DEF First
<1>8. \A d \in active : d \in Chan
  BY DEF PollInv, PlTypeOK
<1>9. \A d \in active' : /\ index'[d] > 0 /\ revents'[d] # {} /\ revents'[d] \subseteq events'[d] \cup {"err"}
                         /\ cb' = {} \/ d # First' => revents'[d] \subseteq ready'[d]
  BY <1>1, <1>3, <1>5, <1>7, <1>8 DEF PollInv
<1>10. cb' # {} => cb' \subseteq ready'[First'] \cap revents'[First']
  BY <1>1, <1>7 DEF PollInv
<1>11. (plPc' # "dispatch" => active' = {}) /\ (active' = {} => cb' = {})
  BY <1>1, ZenonT(30) DEF PollInv
<1>12. TableConsistent' /\ \A i \in DOMAIN pollfds' : pollfds'[i].events \subseteq events'[pollfds'[i].fd]
  BY <1>5
<1> QED BY <1>6, <1>9, <1>10, <1>11, <1>12 DEF PollInv

\* Every step of the loop thread keeps what poll found consistent.
LEMMA LoopKeeps ==
    ASSUME PollInv, LoopThread
    PROVE  PollInv'
<1>0. UNCHANGED <<events, index, pollfds>>
  BY DEF LoopThread, test, poll, Polled, handleEvent, callbackReturns, dispatched, chans
<1>1. TableConsistent' /\ \A i \in DOMAIN pollfds' : pollfds'[i].events \subseteq events'[pollfds'[i].fd]
  BY <1>0, Zenon DEF PollInv, TableConsistent
<1>2. CASE test
  <2>1. active = {} /\ active' = {} /\ cb' = cb /\ cb = {}
    BY <1>2 DEF test, PollInv
  <2>2. PlTypeOK'
    BY <1>0, <1>2, Zenon DEF test, PollInv, PlTypeOK, chans
  <2> QED BY <1>1, <2>1, <2>2 DEF PollInv
<1>3. CASE dispatched
  <2>1. active = {} /\ active' = {} /\ cb' = cb /\ cb = {}
    BY <1>3 DEF dispatched, PollInv
  <2>2. PlTypeOK'
    BY <1>0, <1>3 DEF dispatched, PollInv, PlTypeOK, chans
  <2> QED BY <1>1, <2>1, <2>2 DEF PollInv
<1>4. CASE handleEvent
  <2>1. First' = First /\ First \in active
    BY <1>0, <1>4, ActiveFacts DEF handleEvent, First
  <2>2. /\ plPc = "dispatch" /\ cb = {} /\ cb' = revents[First]
        /\ UNCHANGED <<revents, quit, looping, active, plPc, ready>>
    BY <1>4 DEF handleEvent, chans
  <2>3. PlTypeOK'
    BY <1>0, <2>1, <2>2 DEF PollInv, PlTypeOK
  <2> QED BY <1>0, <1>1, <2>1, <2>2, <2>3 DEF PollInv
<1>5. CASE callbackReturns
  <2>1. /\ cb # {} /\ ready' = [ready EXCEPT ![First] = @ \ {Running}] /\ cb' = cb \ {Running}
        /\ active' = IF cb' = {} THEN active \ {First} ELSE active
        /\ UNCHANGED <<revents, quit, looping, plPc>>
    BY <1>5 DEF callbackReturns, chans
  <2>2. Running \in cb /\ First \in active
    BY <2>1, RunningIsLeft
  <2>3. PlTypeOK'
    BY <1>0, <2>1, <2>2 DEF PollInv, PlTypeOK
  <2>4. /\ \A d \in Chan : d # First => ready'[d] = ready[d]
        /\ ready'[First] = ready[First] \ {Running}
        /\ plPc = "dispatch" /\ active \subseteq Chan
    BY <2>1, <2>2 DEF PollInv, PlTypeOK
  <2>5. CASE cb' = {}
    <3>1. \A d \in active' : d \in active /\ d # First /\ ready'[d] = ready[d]
      BY <2>1, <2>4, <2>5
    <3> QED BY <1>0, <1>1, <2>1, <2>3, <2>4, <2>5, <3>1 DEF PollInv
  <2>6. CASE cb' # {}
    <3>1. First' = First /\ active' = active
      BY <1>0, <2>1, <2>6 DEF First
    <3> QED BY <1>0, <1>1, <2>1, <2>2, <2>3, <2>4, <2>6, <3>1, Zenon DEF PollInv
  <2> QED BY <2>5, <2>6
<1>6. CASE poll
  <2>1. /\ plPc = "poll" /\ plPc' = "dispatch" /\ active' = fillActiveChannels
        /\ revents' = [c \in Chan |-> IF Found(c) # {} THEN Found(c) ELSE revents[c]]
        /\ UNCHANGED <<quit, looping, cb, ready>>
    BY <1>6 DEF poll, Polled
  <2>2. cb = {}
    BY <2>1 DEF PollInv
  <2>3. ASSUME NEW c \in Chan PROVE Found(c) \subseteq Event
    <3>1. ready[c] \subseteq Event
      BY DEF PollInv, PlTypeOK
    <3>2. ASSUME index[c] # 0 PROVE pollfds[index[c]].fd = c
      <4>1. index[c] \in Nat
        BY LenProperties DEF PollInv, PlTypeOK
      <4> QED BY <3>2, <4>1 DEF PollInv, TableConsistent
    <3> QED BY <3>1, <3>2 DEF Found, Revents
  <2>4. ASSUME NEW c \in fillActiveChannels
        PROVE  c \in Chan /\ index[c] > 0 /\ Found(c) # {} /\ Found(c) \subseteq (events[c] \cup {"err"}) \cap ready[c]
    <3>1. PICK i \in DOMAIN pollfds : pollfds[i].fd = c /\ Revents(pollfds[i]) # {}
      BY DEF fillActiveChannels
    <3>2. c \in Chan /\ index[c] = i /\ pollfds[i].events \subseteq events[c]
      BY <3>1 DEF fillActiveChannels, PollInv, TableConsistent
    <3>3. i > 0
      <4>1. DOMAIN pollfds = 1 .. Len(pollfds) /\ Len(pollfds) \in Nat
        BY LenProperties DEF PollInv, PlTypeOK
      <4> QED BY <4>1
    <3>4. Found(c) = Revents(pollfds[i])
      BY <3>2, <3>3 DEF Found
    <3> QED BY <3>1, <3>2, <3>3, <3>4 DEF Revents
  <2>5. revents' \in [Chan -> SUBSET Event]
    BY <2>1, <2>3 DEF PollInv, PlTypeOK
  <2>6. PlTypeOK'
    BY <1>0, <2>1, <2>4, <2>5, Zenon DEF PollInv, PlTypeOK
  <2>7. \A c \in active' : /\ index'[c] > 0 /\ revents'[c] # {} /\ revents'[c] \subseteq events'[c] \cup {"err"}
                           /\ revents'[c] \subseteq ready'[c]
    BY <1>0, <2>1, <2>4
  <2> QED BY <1>1, <2>1, <2>2, <2>6, <2>7, Zenon DEF PollInv
<1> QED BY <1>2, <1>3, <1>4, <1>5, <1>6 DEF LoopThread

\* The poller's assertions hold and no callback acts on a stale event, for every set of
\* channels and whatever the callbacks register.
THEOREM PollIsSound == PlSpec => []PollSound
<1>1. PollInv /\ [PlNext]_plVars => PollInv'
  <2> SUFFICES ASSUME PollInv, [PlNext]_plVars PROVE PollInv'
    OBVIOUS
  <2>1. ASSUME NEW c \in Chan, enableReading(c) \/ enableWriting(c) PROVE PollInv'
    BY <2>1, enableKeeps DEF enableReading, enableWriting
  <2>2. ASSUME UNCHANGED <<chans, active, cb>>, quit' \in BOOLEAN, looping' \in BOOLEAN,
               plPc' \in {"user", "test", "poll", "dispatch"}, plPc' # "dispatch" => active = {},
               ready' \in [Chan -> SUBSET Event], \A c \in Chan : ready[c] \subseteq ready'[c]
        PROVE  PollInv'
    <3>1. UNCHANGED <<events, index, revents, pollfds, active, cb>>
      BY <2>2 DEF chans
    <3>2. TableConsistent' /\ First' = First
      BY <3>1, ZenonT(30) DEF PollInv, TableConsistent, First
    <3>3. PlTypeOK' /\ active \subseteq Chan
      BY <2>2, <3>1 DEF PollInv, PlTypeOK
    <3>4. cb # {} => First \in active
      BY RunningIsLeft
    <3> QED BY <2>2, <3>1, <3>2, <3>3, <3>4 DEF PollInv
  <2>3. PlTypeOK
    BY DEF PollInv
  <2>4. CASE Quit
    BY <2>2, <2>3, <2>4 DEF Quit, PollInv, PlTypeOK
  <2>5. CASE loop
    BY <2>2, <2>3, <2>5, Zenon DEF loop, PollInv, PlTypeOK
  <2>6. ASSUME NEW c \in Chan, NEW e \in Event, Happens(c, e) PROVE PollInv'
    <3>1. ready' \in [Chan -> SUBSET Event] /\ \A d \in Chan : ready[d] \subseteq ready'[d]
      BY <2>3, <2>6 DEF Happens, PlTypeOK
    <3> QED BY <2>2, <2>3, <2>6, <3>1, Zenon DEF Happens, PollInv, PlTypeOK
  <2>7. CASE UNCHANGED plVars
    BY <2>2, <2>3, <2>7, Zenon DEF plVars, PollInv, PlTypeOK
  <2> QED BY <2>1, <2>4, <2>5, <2>6, <2>7, LoopKeeps DEF PlNext
<1>2. PollInv => PollSound
  <2> SUFFICES ASSUME PollInv PROVE CallbackIsDue
    BY DEF PollSound
  <2>1. ASSUME cb # {} PROVE Running \in ready[First] /\ Running \in events[First] \cup {"err"}
    BY <2>1, RunningIsLeft DEF PollInv
  <2> QED BY <2>1 DEF CallbackIsDue
<1> QED BY <1>1, <1>2, PollInitial, PTL DEF PlSpec
=============================================================================
