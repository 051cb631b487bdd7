------------------------ MODULE StickyPacketProofs ------------------------
(***************************************************************************)
(* Proofs about StickyPacket, for every set of connections and messages    *)
(* and every size of a byte.                                               *)
(*                                                                         *)
(* The inductive invariant is TypeOK /\ FrameInv: the frames lie one       *)
(* behind the other in the stream as far as they were written and not      *)
(* lost, and recvMsg's variables say where in which frame the server has   *)
(* read to.  One lemma per action, in FrameProofs and here; from the       *)
(* invariant follow FramesSound and, step by step, the refinement of the   *)
(* channel of messages.                                                    *)
(***************************************************************************)
EXTENDS FrameProofs

\* No frame beyond the place where the stream ends has arrived.
LEMMA NoMoreArrived ==
    ASSUME TypeOK, NEW c \in Conn, FramesInStream(c), NEW l \in Nat,
           l < Len(sent[c]) => Len(stream[c]) < End(c, l + 1)
    PROVE  \A i \in 1 .. Len(sent[c]) : Arrived(c, i) => i <= l
<1> SUFFICES ASSUME NEW i \in 1 .. Len(sent[c]), Arrived(c, i), l < i PROVE FALSE
  <2>1. Len(sent[c]) \in Nat
    BY ConnTypes
  <2> QED BY <2>1
<1>1. /\ Len(sent[c]) \in Nat /\ i \in 0 .. Len(sent[c]) /\ l + 1 \in 0 .. Len(sent[c]) /\ l < Len(sent[c])
      /\ l + 1 <= i
  BY ConnTypes
<1>2. End(c, i) \in Nat /\ End(c, l + 1) \in Nat /\ Len(stream[c]) \in Nat
  BY <1>1, ConnTypes
<1>3. End(c, l + 1) <= End(c, i)
  <2>1. CASE l + 1 = i
    BY <1>2, <2>1
  <2>2. CASE l + 1 < i
    <3>1. End(c, l + 1) < End(c, i)
      BY <1>1, <2>2, Ends
    <3> QED BY <1>2, <3>1
  <2> QED BY <1>1, <2>1, <2>2
<1>4. End(c, i) <= Len(stream[c])
  <2>1. End(c, i) = sent[c][i].at + HLen + Len(sent[c][i].msg)
    BY Ends
  <2> QED BY <2>1 DEF Arrived
<1> QED BY <1>1, <1>2, <1>3, <1>4

\* What InHeader, InBody and ReadTo(c, 0) have in common.
LEMMA NotExhausted ==
    ASSUME TypeOK, NEW c \in Conn, Handed(c), \A i \in 1 .. Len(log[c]) : Whole(log[c][i])
    PROVE  /\ Len(log[c]) \in Nat /\ Len(sent[c]) \in Nat /\ Len(log[c]) <= Len(sent[c])
           /\ End(c, Len(log[c])) \in Nat
           /\ \A i \in 1 .. Len(log[c]) : log[c][i].buf = sent[c][i].msg /\ End(c, i) <= rd[c]
<1>1. Len(log[c]) \in Nat /\ Len(sent[c]) \in Nat /\ Len(log[c]) <= Len(sent[c])
  BY ConnTypes DEF Handed
<1>2. Len(log[c]) \in 0 .. Len(sent[c])
  BY <1>1
<1>3. End(c, Len(log[c])) \in Nat
  BY <1>2, ConnTypes
<1>4. \A i \in 1 .. Len(log[c]) : log[c][i].buf = sent[c][i].msg /\ End(c, i) <= rd[c]
  BY DEF Handed
<1> QED BY <1>1, <1>3, <1>4

\* A complete header is that of the next message, and len is its length.
LEMMA header_readStep ==
    ASSUME TypeOK, NEW c \in Conn, ConnInv(c), cur = c, header_read
    PROVE  ConnInv(c)'
<1>1. /\ data' = data /\ sent' = sent /\ peer' = peer /\ stream' = stream /\ link' = link /\ log' = log
      /\ rd' = rd /\ cur' = cur /\ step' = "body" /\ len' = HeaderInt(got) /\ got' = <<>>
      /\ step = "head" /\ Len(got) = HLen
  BY DEF header_read, BodyBegins, client
<1>2. (\A i : End(c, i)' = End(c, i) /\ Arrived(c, i)' = Arrived(c, i)) /\ FramesInStream(c)'
  BY <1>1, FramesKept DEF ConnInv
<1>3. Exhausted(c)' <=> Exhausted(c)
  BY <1>1, <1>2, ZenonT(30) DEF Exhausted
<1>4. Handed(c)'
  BY <1>1, <1>2, <1>3 DEF ConnInv, Handed
<1>5. InHeader(c)
  <2>1. got # <<>>
    BY <1>1 DEF HLen
  <2> QED BY <1>1, <2>1 DEF ConnInv, ReaderPlace
<1>6. PICK l \in Nat, n \in Nat, e \in Nat :
         /\ l = Len(log[c]) /\ n = Len(sent[c]) /\ e = End(c, l) /\ l <= n /\ rd[c] = e + HLen
         /\ \A i \in 1 .. l : Whole(log[c][i])
         /\ \A k \in 1 .. HLen : got[k] = stream[c][e + k]
  <2>1. ReadTo(c, HLen) /\ \A k \in 1 .. HLen : got[k] = stream[c][End(c, Len(log[c])) + k]
    BY <1>1, <1>5 DEF InHeader
  <2>2. \A i \in 1 .. Len(log[c]) : Whole(log[c][i])
    BY <2>1 DEF ReadTo
  <2>3. /\ Len(log[c]) \in Nat /\ Len(sent[c]) \in Nat /\ Len(log[c]) <= Len(sent[c])
        /\ End(c, Len(log[c])) \in Nat /\ rd[c] = End(c, Len(log[c])) + HLen
    BY <2>1, <2>2, NotExhausted DEF ConnInv, ReadTo
  <2> QED BY <2>1, <2>2, <2>3
<1>7. rd[c] <= Len(stream[c]) /\ Len(stream[c]) \in Nat /\ e + HLen <= Len(stream[c])
  BY <1>6, ConnTypes DEF ConnInv
<1>8. l < n
  <2>1. SUFFICES ASSUME l = n PROVE FALSE
    BY <1>6
  <2>2. Len(stream[c]) <= e
    BY <1>6, <2>1 DEF ConnInv, FramesInStream, Written
  <2> QED BY <1>7, <2>2 DEF HLen
<1>9. PICK m \in Msg : m = sent[c][l + 1].msg /\ sent[c][l + 1].at = e /\ Len(m) \in Nat
  <2>1. l + 1 \in 1 .. Len(sent[c]) /\ (l + 1) - 1 = l
    BY <1>6, <1>8
  <2>2. sent[c][l + 1].msg \in Msg /\ Len(sent[c][l + 1].msg) \in Nat
    BY <2>1, ConnTypes, Zenon
  <2>3. sent[c][l + 1].at = e
    BY <1>6, <2>1 DEF ConnInv, FramesInStream, Layout
  <2> QED BY <2>2, <2>3
<1>10. \A k \in 1 .. HLen : got[k] = Frame(m)[k]
  <2> SUFFICES ASSUME NEW k \in 1 .. HLen PROVE got[k] = Frame(m)[k]
    OBVIOUS
  <2>1. l + 1 \in 1 .. Len(sent[c])
    BY <1>6, <1>8
  <2>1a. Len(m) \in Nat /\ e \in Nat
    BY <1>6, <1>9
  <2>2. k \in 1 .. HLen + Len(m) /\ e + k <= e + HLen
    BY <2>1a DEF HLen
  <2>3. e + k <= Len(stream[c])
    BY <1>7, <2>2 DEF HLen
  <2>4. stream[c][e + k] = Frame(m)[k]
    BY <1>9, <2>1, <2>2, <2>3, Zenon DEF ConnInv, FramesInStream, Written
  <2> QED BY <1>6, <2>4
<1>11. len' = Len(m)
  <2>1. got \in Seq(Digit)
    BY ConnTypes
  <2> QED BY <1>1, <1>10, <2>1, HeaderIntOf
<1>12. InBody(c)'
  <2>1. ReadTo(c, HLen + Len(got))'
    <3>1. HLen + Len(got') = HLen
      BY <1>1 DEF HLen
    <3> QED BY <1>1, <1>2, <1>6, <3>1 DEF ReadTo
  <2>2. Len(log'[c]) < Len(sent'[c]) /\ sent'[c][Len(log'[c]) + 1].msg = m /\ Len(got') = 0
    BY <1>1, <1>6, <1>8, <1>9
  <2> QED BY <1>9, <1>11, <2>1, <2>2 DEF InBody
<1>13. ReaderPlace(c)'
  BY <1>1, <1>12 DEF ReaderPlace
<1> QED BY <1>1, <1>2, <1>3, <1>4, <1>13 DEF ConnInv

\* A connection that ends inside a header has handed over every message that arrived.
LEMMA header_endsStep ==
    ASSUME TypeOK, NEW c \in Conn, ConnInv(c), cur = c, header_ends
    PROVE  ConnInv(c)'
<1>1. /\ data' = data /\ sent' = sent /\ stream' = stream /\ link' = link /\ log' = log
      /\ rd' = rd /\ cur' = cur /\ step' = "body" /\ got' = <<>>
      /\ step = "head" /\ Len(got) < HLen /\ Len(stream[c]) - rd[c] = 0 /\ peer[c] # "up"
  BY DEF header_ends, BodyBegins, client, Ended, Want, Avail
<1>2. peer'[c] = "fin"
  BY <1>1 DEF header_ends, AfterEnd, TypeOK
<1>3. (\A i : End(c, i)' = End(c, i) /\ Arrived(c, i)' = Arrived(c, i)) /\ FramesInStream(c)'
  BY <1>1, <1>2, FramesKept, ZenonT(30) DEF ConnInv
<1>4. rd[c] = Len(stream[c]) /\ rd[c] \in Nat /\ Len(stream[c]) \in Nat
  BY <1>1, ConnTypes
<1>5. \A i \in 1 .. Len(sent[c]) : Arrived(c, i) => i <= Len(log[c]) /\ Whole(log[c][i])
  <2>1. CASE Exhausted(c)
    BY <2>1 DEF Exhausted
  <2>2. CASE InHeader(c)
    <3>1. PICK l \in Nat, n \in Nat, e \in Nat, g \in Nat :
             /\ l = Len(log[c]) /\ n = Len(sent[c]) /\ e = End(c, l) /\ l <= n /\ g = Len(got)
             /\ rd[c] = e + g /\ \A i \in 1 .. l : Whole(log[c][i])
      <4>1. \A i \in 1 .. Len(log[c]) : Whole(log[c][i])
        BY <2>2 DEF InHeader, ReadTo
      <4>2. /\ Len(log[c]) \in Nat /\ Len(sent[c]) \in Nat /\ Len(log[c]) <= Len(sent[c])
            /\ End(c, Len(log[c])) \in Nat /\ Len(got) \in Nat
        BY <4>1, NotExhausted, ConnTypes DEF ConnInv
      <4>3. rd[c] = End(c, Len(log[c])) + Len(got)
        BY <2>2 DEF InHeader, ReadTo
      <4> QED BY <4>1, <4>2, <4>3
    <3>2. ASSUME l < n PROVE Len(stream[c]) < End(c, l + 1)
      <4>1. l + 1 \in 1 .. Len(sent[c]) /\ (l + 1) - 1 = l
        BY <3>1, <3>2
      <4>2. PICK b \in Nat : b = Len(sent[c][l + 1].msg)
        BY <4>1, ConnTypes, Zenon
      <4>3. End(c, l + 1) = e + HLen + b
        <5>1. sent[c][l + 1].at = e
          BY <3>1, <4>1 DEF ConnInv, FramesInStream, Layout
        <5>2. l + 1 # 0
          OBVIOUS
        <5> QED BY <4>2, <5>1, <5>2 DEF End
      <4>4. g < HLen /\ Len(stream[c]) = e + g
        BY <1>1, <1>4, <3>1
      <4> QED BY <4>3, <4>4 DEF HLen
    <3>3. \A i \in 1 .. Len(sent[c]) : Arrived(c, i) => i <= l
      BY <3>1, <3>2, NoMoreArrived DEF ConnInv
    <3> QED BY <3>1, <3>3
  <2> QED BY <1>1, <2>1, <2>2, ZenonT(30) DEF ConnInv, ReaderPlace
<1>6. Exhausted(c)'
  BY <1>1, <1>2, <1>3, <1>4, <1>5 DEF Exhausted
<1>7. Handed(c)'
  BY <1>1, <1>3, <1>6 DEF ConnInv, Handed
<1>8. ReaderPlace(c)'
  BY <1>1, <1>6 DEF ReaderPlace
<1> QED BY <1>1, <1>3, <1>4, <1>6, <1>7, <1>8, ZenonT(30) DEF ConnInv

\* What is known of the reader when recvMsg has the header and reads the text: l messages
\* are handed over, the last of them ends at e, and g bytes of the next one, m, are read.
BodyAt(c, l, e, g, m) ==
    /\ l = Len(log[c]) /\ e = End(c, l) /\ g = Len(got) /\ m = sent[c][l + 1].msg
    /\ l + 1 \in 1 .. Len(sent[c]) /\ End(c, l + 1) = e + HLen + Len(m)
    /\ rd[c] = e + (HLen + g) /\ len = Len(m) /\ Len(m) \in Nat /\ Len(m) > 0 /\ g <= Len(m)
    /\ \A k \in 1 .. g : got[k] = m[k]
    /\ \A i \in 1 .. l : Whole(log[c][i]) /\ log[c][i].buf = sent[c][i].msg /\ End(c, i) <= rd[c]

\* While recvMsg reads a text, it reads the next message.
LEMMA InBodyFacts ==
    ASSUME TypeOK, NEW c \in Conn, ConnInv(c), InBody(c)
    PROVE  \E l \in Nat, e \in Nat, g \in Nat, m \in Msg : BodyAt(c, l, e, g, m)
<1>1. \A i \in 1 .. Len(log[c]) : Whole(log[c][i])
  BY DEF InBody, ReadTo
<1>2. PICK l \in Nat, n \in Nat, e \in Nat, g \in Nat :
         /\ l = Len(log[c]) /\ n = Len(sent[c]) /\ e = End(c, l) /\ g = Len(got)
         /\ \A i \in 1 .. l : log[c][i].buf = sent[c][i].msg /\ End(c, i) <= rd[c]
  <2>1. /\ Len(log[c]) \in Nat /\ Len(sent[c]) \in Nat /\ End(c, Len(log[c])) \in Nat
        /\ \A i \in 1 .. Len(log[c]) : log[c][i].buf = sent[c][i].msg /\ End(c, i) <= rd[c]
    BY <1>1, NotExhausted DEF ConnInv
  <2>2. Len(got) \in Nat
    BY ConnTypes
  <2> QED BY <2>1, <2>2
<1>3. l < n /\ rd[c] = e + (HLen + g)
  BY <1>2 DEF InBody, ReadTo
<1>4. l + 1 \in 1 .. Len(sent[c]) /\ (l + 1) - 1 = l /\ l + 1 # 0
  BY <1>2, <1>3
<1>5. PICK m \in Msg : m = sent[c][l + 1].msg /\ Len(m) \in Nat /\ Len(m) > 0
  BY <1>4, ConnTypes, ZenonT(30)
<1>6. sent[c][l + 1].at = e
  BY <1>2, <1>4 DEF ConnInv, FramesInStream, Layout
<1>7. End(c, l + 1) = e + HLen + Len(m)
  BY <1>4, <1>5, <1>6 DEF End
<1>8. len = Len(m) /\ g <= Len(m) /\ \A k \in 1 .. g : got[k] = m[k]
  BY <1>2, <1>5 DEF InBody
<1>9. \A i \in 1 .. l : Whole(log[c][i]) /\ log[c][i].buf = sent[c][i].msg /\ End(c, i) <= rd[c]
  BY <1>1, <1>2
<1>10. /\ l = Len(log[c]) /\ e = End(c, l) /\ g = Len(got)
  BY <1>2
<1>11. BodyAt(c, l, e, g, m)
  BY <1>3, <1>4, <1>5, <1>7, <1>8, <1>9, <1>10 DEF BodyAt
<1> QED BY <1>11

\* A buffer with the bytes of a message is the message, or a part of it.
LEMMA BufferIsPrefix ==
    ASSUME NEW s \in Seq(Digit), NEW m \in Seq(Digit), Len(s) <= Len(m), \A k \in 1 .. Len(s) : s[k] = m[k]
    PROVE  s = SubSeq(m, 1, Len(s)) /\ (Len(s) = Len(m) => s = m)
<1>1. Len(s) \in Nat /\ Len(m) \in Nat
  OBVIOUS
<1>2. /\ SubSeq(m, 1, Len(s)) \in Seq(Digit)
      /\ Len(SubSeq(m, 1, Len(s))) = IF 1 <= Len(s) THEN Len(s) - 1 + 1 ELSE 0
      /\ \A i \in 1 .. Len(s) - 1 + 1 : SubSeq(m, 1, Len(s))[i] = m[1 + i - 1]
  BY <1>1, SubSeqOf
<1>3. Len(SubSeq(m, 1, Len(s))) = Len(s)
  BY <1>1, <1>2
<1>4. \A i \in 1 .. Len(s) : SubSeq(m, 1, Len(s))[i] = s[i]
  BY <1>1, <1>2
<1> QED BY <1>2, <1>3, <1>4, SeqEqual

\* A complete text is the message, and a length of zero closes an exhausted connection.
LEMMA body_readStep ==
    ASSUME TypeOK, NEW c \in Conn, ConnInv(c), cur = c, body_read
    PROVE  ConnInv(c)'
<1>1. /\ data' = data /\ sent' = sent /\ stream' = stream /\ peer' = peer /\ rd' = rd /\ cur' = None
      /\ cur' # c /\ step = "body" /\ Len(got) = len /\ Return(len)
  BY StickyAssumption DEF body_read, Return, client
<1>2. (\A i : End(c, i)' = End(c, i) /\ Arrived(c, i)' = Arrived(c, i)) /\ FramesInStream(c)'
  BY <1>1, FramesKept, ZenonT(30) DEF ConnInv
<1>3. CASE Exhausted(c) /\ got = <<>>
  <2>1. len = 0
    BY <1>1, <1>3
  <2>2. log' = log
    BY <1>1, <2>1 DEF Return
  <2>3. Exhausted(c)'
    BY <1>1, <1>2, <1>3, <2>2 DEF Exhausted
  <2>4. Handed(c)'
    BY <1>1, <1>2, <2>2, <2>3 DEF ConnInv, Handed
  <2> QED BY <1>1, <1>2, <2>3, <2>4, Zenon DEF ConnInv, ReaderPlace
<1>4. CASE InBody(c)
  <2>0. PICK l \in Nat, e \in Nat, g \in Nat, m \in Msg : BodyAt(c, l, e, g, m)
    BY <1>4, InBodyFacts
  <2>1. /\ l = Len(log[c]) /\ e = End(c, l) /\ g = Len(got) /\ m = sent[c][l + 1].msg
        /\ l + 1 \in 1 .. Len(sent[c]) /\ End(c, l + 1) = e + HLen + Len(m)
        /\ rd[c] = e + (HLen + g) /\ len = Len(m) /\ Len(m) \in Nat /\ Len(m) > 0 /\ g <= Len(m)
        /\ \A k \in 1 .. g : got[k] = m[k]
        /\ \A i \in 1 .. l : Whole(log[c][i]) /\ log[c][i].buf = sent[c][i].msg /\ End(c, i) <= rd[c]
    BY <2>0 DEF BodyAt
  <2>2. got = m
    <3>1. got \in Seq(Digit) /\ m \in Seq(Digit) /\ Len(got) = Len(m)
      BY <1>1, <2>1, ConnTypes, FrameShape, ZenonT(30)
    <3>2. Len(got) <= Len(m) /\ \A k \in 1 .. Len(got) : got[k] = m[k]
      BY <2>1, Zenon
    <3> QED BY <3>1, <3>2, BufferIsPrefix
  <2>3. End(c, l + 1) = rd[c]
    <3>1. g = Len(m)
      BY <1>1, <2>1
    <3>2. e + HLen + g = e + (HLen + g)
      BY DEF HLen
    <3> QED BY <2>1, <3>1, <3>2
  <2>4. link' = link /\ log'[c] = Append(log[c], [ret |-> len, len |-> len, buf |-> got])
    <3>0. len = Len(m) /\ Len(m) \in Nat /\ Len(m) > 0
      BY <2>1, Zenon
    <3>1. len # 0
      BY <3>0
    <3> QED BY <1>1, <3>1 DEF Return, TypeOK
  <2>5. /\ Len(log'[c]) = l + 1 /\ log'[c][l + 1] = [ret |-> len, len |-> len, buf |-> got]
        /\ \A i \in 1 .. l : log'[c][i] = log[c][i]
    <3>1. /\ log[c] \in Seq([ret : Int, len : Nat, buf : Bytes])
          /\ [ret |-> len, len |-> len, buf |-> got] \in [ret : Int, len : Nat, buf : Bytes]
      <4>1. log[c] \in Printed /\ len \in Nat /\ len \in Int /\ got \in Bytes
        BY DEF TypeOK
      <4> QED BY <4>1 DEF Printed
    <3> QED BY <2>1, <2>4, <3>1, AppendProperties
  <2>6. ASSUME NEW i \in 1 .. l + 1
        PROVE  Whole(log'[c][i]) /\ log'[c][i].buf = sent'[c][i].msg /\ End(c, i)' <= rd'[c]
    <3>1. CASE i = l + 1
      <4>1. Whole(log'[c][l + 1]) /\ log'[c][l + 1].buf = m
        BY <2>2, <2>5 DEF Whole
      <4>2. rd[c] <= rd[c]
        BY ConnTypes
      <4> QED BY <1>1, <1>2, <2>1, <2>3, <3>1, <4>1, <4>2
    <3>2. CASE i \in 1 .. l
      BY <1>1, <1>2, <2>1, <2>5, <3>2, Zenon
    <3> QED BY <3>1, <3>2
  <2>7. Handed(c)'
    <3>1. l + 1 <= Len(sent'[c])
      BY <1>1, <2>1, ConnTypes
    <3> QED BY <2>5, <2>6, <3>1, ZenonT(30) DEF Handed
  <2>8. ReadTo(c, 0)'
    <3>1. rd[c] + 0 = rd[c]
      BY ConnTypes
    <3> QED BY <1>1, <1>2, <2>3, <2>5, <2>6, <3>1, Zenon DEF ReadTo
  <2>9. ReaderPlace(c)'
    BY <1>1, <2>8 DEF ReaderPlace
  <2>10. link'[c] # "closed"
    <3>1. rd[c] = Len(stream[c]) /\ Len(stream[c]) < End(c, l + 1) => FALSE
      BY <2>3, ConnTypes
    <3>2. SUFFICES ASSUME Exhausted(c) PROVE FALSE
      BY <2>4 DEF ConnInv
    <3>3. Arrived(c, l + 1)
      <4>1. End(c, l + 1) = sent[c][l + 1].at + HLen + Len(sent[c][l + 1].msg)
        BY <2>1 DEF End
      <4>2. Len(stream[c]) <= Len(stream[c])
        BY ConnTypes
      <4>3. l + 1 <= Len(sent[c])
        BY <2>1, ConnTypes
      <4> QED BY <2>3, <3>2, <4>1, <4>2, <4>3 DEF Arrived, Exhausted
    <3> QED BY <2>1, <3>2, <3>3 DEF Exhausted
  <2> QED BY <1>1, <1>2, <2>7, <2>9, <2>10, Zenon DEF ConnInv
<1> QED BY <1>1, <1>3, <1>4, Zenon DEF ConnInv, ReaderPlace

\* A connection that ends inside a text gives the last, damaged, message or is closed.
LEMMA body_endsStep ==
    ASSUME TypeOK, NEW c \in Conn, ConnInv(c), cur = c, body_ends
    PROVE  ConnInv(c)'
<1>1. /\ data' = data /\ sent' = sent /\ stream' = stream /\ rd' = rd /\ cur' = None /\ cur' # c
      /\ step = "body" /\ Len(got) < len /\ Len(stream[c]) - rd[c] = 0 /\ peer[c] # "up"
  BY StickyAssumption DEF body_ends, Return, client, Ended, Want, Avail
<1>2. peer'[c] = "fin"
  BY <1>1 DEF body_ends, AfterEnd, TypeOK
<1>3. (\A i : End(c, i)' = End(c, i) /\ Arrived(c, i)' = Arrived(c, i)) /\ FramesInStream(c)'
  BY <1>1, <1>2, FramesKept DEF ConnInv
<1>4. rd[c] = Len(stream[c]) /\ rd[c] \in Nat /\ Len(stream[c]) \in Nat
  BY <1>1, ConnTypes
<1>5. PICK ret \in Int : /\ ret = (IF peer[c] = "rst" THEN -1 ELSE Len(got))
                       /\ Return(ret)
  BY ConnTypes DEF body_ends
<1>6. SUFFICES Exhausted(c)' /\ Handed(c)'
  BY <1>1, <1>3, <1>4, Zenon DEF ConnInv, ReaderPlace
<1>7. CASE Exhausted(c) /\ got = <<>>
  <2>1. ret = 0
    BY <1>5, <1>7 DEF Exhausted
  <2>2. log' = log
    BY <1>5, <2>1 DEF Return
  <2>3. Exhausted(c)'
    BY <1>1, <1>2, <1>3, <1>7, <2>2, ZenonT(30) DEF Exhausted
  <2>4. Handed(c)'
    BY <1>1, <1>3, <2>2, <2>3 DEF ConnInv, Handed
  <2> QED BY <2>3, <2>4
<1>8. CASE InBody(c)
  <2>0. PICK l \in Nat, e \in Nat, g \in Nat, m \in Msg : BodyAt(c, l, e, g, m)
    BY <1>8, InBodyFacts
  <2>1. /\ l = Len(log[c]) /\ e = End(c, l) /\ g = Len(got) /\ m = sent[c][l + 1].msg
        /\ l + 1 \in 1 .. Len(sent[c]) /\ End(c, l + 1) = e + HLen + Len(m)
        /\ rd[c] = e + (HLen + g) /\ len = Len(m) /\ Len(m) \in Nat /\ Len(m) > 0 /\ g <= Len(m)
        /\ \A k \in 1 .. g : got[k] = m[k]
        /\ \A i \in 1 .. l : Whole(log[c][i]) /\ log[c][i].buf = sent[c][i].msg /\ End(c, i) <= rd[c]
    BY <2>0, Zenon DEF BodyAt
  <2>2. g < Len(m) /\ Len(stream[c]) < End(c, l + 1)
    <3>1. g < Len(m) /\ Len(stream[c]) = e + (HLen + g) /\ End(c, l + 1) = e + HLen + Len(m)
      BY <1>1, <1>4, <2>1
    <3>2. PICK b \in Nat : b = Len(m)
      BY <2>1
    <3>3. e + (HLen + g) < e + HLen + b
      <4>1. g < b
        BY <3>1, <3>2
      <4> QED BY <4>1 DEF HLen
    <3> QED BY <3>1, <3>2, <3>3
  <2>3. \A i \in 1 .. Len(sent[c]) : Arrived(c, i) => i <= l
    BY <2>2, NoMoreArrived, ZenonT(30) DEF ConnInv
  <2>4. ~Arrived(c, l + 1)
    BY <2>1, <2>3
  <2>5. Len(sent[c]) \in Nat /\ Len(sent'[c]) = Len(sent[c]) /\ l + 1 <= Len(sent[c])
    BY <1>1, <2>1, ConnTypes
  <2>6. CASE ret = 0
    <3>1. log' = log
      BY <1>5, <2>6 DEF Return
    <3>2. \A i \in 1 .. Len(sent[c]) : Arrived(c, i) => i \in 1 .. l
      BY <2>3, <2>5
    <3>3. Exhausted(c)'
      BY <1>1, <1>2, <1>3, <1>4, <2>1, <2>3, <3>1, <3>2 DEF Exhausted
    <3>4. Handed(c)'
      BY <1>1, <1>3, <3>1, <3>3 DEF ConnInv, Handed
    <3> QED BY <3>3, <3>4
  <2>7. CASE ret # 0
    <3>1. log'[c] = Append(log[c], [ret |-> ret, len |-> len, buf |-> got])
      BY <1>5, <2>7 DEF Return, TypeOK
    <3>2. /\ Len(log'[c]) = l + 1 /\ log'[c][l + 1] = [ret |-> ret, len |-> len, buf |-> got]
          /\ \A i \in 1 .. l : log'[c][i] = log[c][i]
      <4>1. log[c] \in Printed /\ len \in Nat /\ ret \in Int /\ got \in Bytes
        BY DEF TypeOK
      <4>2. /\ log[c] \in Seq([ret : Int, len : Nat, buf : Bytes])
            /\ [ret |-> ret, len |-> len, buf |-> got] \in [ret : Int, len : Nat, buf : Bytes]
        BY <4>1 DEF Printed
      <4>3. PICK S, r : /\ r = [ret |-> ret, len |-> len, buf |-> got] /\ r \in S
                        /\ log[c] \in Seq(S) /\ log'[c] = Append(log[c], r)
        BY <3>1, <4>2, Zenon
      <4>4. /\ Len(log'[c]) = l + 1 /\ log'[c][l + 1] = r
            /\ \A i \in 1 .. l : log'[c][i] = log[c][i]
        <5>1. l \in Nat /\ l = Len(log[c])
          BY <2>1
        <5> QED BY <4>3, <5>1, Appended
      <4> QED BY <4>3, <4>4, Zenon
    <3>3. ~Whole(log'[c][l + 1]) /\ log'[c][l + 1].buf = SubSeq(m, 1, g)
      <4>1. ret # len
        BY <1>1, <1>5, ConnTypes
      <4>2. got \in Seq(Digit) /\ m \in Seq(Digit) /\ Len(got) <= Len(m)
            /\ \A k \in 1 .. Len(got) : got[k] = m[k]
        BY <2>1, ConnTypes, FrameShape
      <4>3. got = SubSeq(m, 1, g)
        BY <2>1, <4>2, BufferIsPrefix, ZenonT(30)
      <4> QED BY <3>2, <4>1, <4>3 DEF Whole
    <3>4. ASSUME NEW i \in 1 .. Len(sent[c]), Arrived(c, i)
          PROVE  i <= l + 1 /\ Whole(log'[c][i])
      <4>1. i \in 1 .. l /\ i <= l + 1
        BY <2>3, <2>5, <3>4
      <4> QED BY <2>1, <3>2, <4>1
    <3>5. Exhausted(c)'
      BY <1>1, <1>2, <1>3, <1>4, <3>2, <3>4 DEF Exhausted
    <3>6. ASSUME NEW i \in 1 .. l + 1
          PROVE \/ Whole(log'[c][i]) /\ log'[c][i].buf = sent'[c][i].msg /\ End(c, i)' <= rd'[c]
                \/ /\ ~Whole(log'[c][i]) /\ i = Len(log'[c]) /\ ~Arrived(c, i)'
                   /\ \E n \in 0 .. Len(sent'[c][i].msg) - 1 :
                         log'[c][i].buf = SubSeq(sent'[c][i].msg, 1, n)
      <4>1. CASE i \in 1 .. l
        <5>1. /\ log'[c][i] = log[c][i] /\ Whole(log[c][i])
              /\ log[c][i].buf = sent[c][i].msg /\ End(c, i) <= rd[c]
          BY <2>1, <3>2, <4>1, Zenon
        <5>2. sent' = sent /\ rd' = rd /\ End(c, i)' = End(c, i)
          BY <1>1, <1>3, Zenon
        <5> QED BY <5>1, <5>2, Zenon
      <4>2. CASE i = l + 1
        <5>1. sent'[c][l + 1].msg = m /\ Len(m) \in Nat
          BY <1>1, <2>1, Zenon
        <5>2. g \in 0 .. Len(m) - 1
          BY <2>2, <5>1, Below, Zenon
        <5> QED BY <1>3, <2>4, <3>2, <3>3, <4>2, <5>1, <5>2, Zenon
      <4>3. i \in 1 .. l \/ i = l + 1
        OBVIOUS
      <4> QED BY <4>1, <4>2, <4>3, Zenon
    <3>7. Handed(c)'
      <4>1. Len(log'[c]) <= Len(sent'[c])
        BY <2>5, <3>2
      <4> QED BY <3>2, <3>5, <3>6, <4>1 DEF Handed
    <3> QED BY <3>5, <3>7
  <2> QED BY <2>6, <2>7
<1> QED BY <1>1, <1>7, <1>8 DEF ConnInv, ReaderPlace

(***************************************************************************)
(* The theorems.                                                           *)
(***************************************************************************)

\* The invariant holds at the start.
LEMMA InvInit == Init => FrameInv
<1> SUFFICES ASSUME Init, NEW c \in Conn PROVE ConnInv(c)
  BY StickyAssumption DEF Init, FrameInv
<1>1. /\ data[c] = <<>> /\ sent[c] = <<>> /\ stream[c] = <<>> /\ log[c] = <<>> /\ rd[c] = 0
      /\ link[c] = "idle" /\ cur # c
  BY StickyAssumption DEF Init
<1>2. Layout(c)
  BY <1>1 DEF Layout
<1>3. Written(c)
  BY <1>1 DEF Written, End
<1>4. Unwritten(c)
  BY <1>1 DEF Unwritten, End
<1>5. Handed(c)
  BY <1>1 DEF Handed
<1>6. ReaderPlace(c)
  BY <1>1 DEF ReaderPlace, ReadTo, End
<1> QED BY <1>1, <1>2, <1>3, <1>4, <1>5, <1>6 DEF ConnInv, FramesInStream

\* A step of the server with its connection cur leaves the other connections alone.
LEMMA OthersKept ==
    ASSUME TypeOK, NEW c \in Conn, ConnInv(c), cur # c,
           readn_data \/ header_read \/ header_ends \/ body_read \/ body_ends
    PROVE  ConnInv(c)'
<1>1. data' = data /\ sent' = sent /\ stream' = stream /\ cur' # c
  BY StickyAssumption
  DEF readn_data, header_read, header_ends, body_read, body_ends, BodyBegins, Return, client
<1>2. rd'[c] = rd[c] /\ peer'[c] = peer[c] /\ log'[c] = log[c] /\ link'[c] = link[c]
  <2>1. CASE readn_data
    BY <2>1 DEF readn_data, TypeOK
  <2>2. CASE header_read
    BY <2>2 DEF header_read, BodyBegins
  <2>3. CASE header_ends
    BY <2>3 DEF header_ends, BodyBegins, AfterEnd, TypeOK
  <2>4. CASE body_read
    BY <2>4 DEF body_read, Return, TypeOK
  <2>5. CASE body_ends
    BY <2>5 DEF body_ends, Return, AfterEnd, TypeOK
  <2> QED BY <2>1, <2>2, <2>3, <2>4, <2>5, Zenon
<1> QED BY <1>1, <1>2, Unaffected

\* A step of client d leaves the other connections alone.
LEMMA OtherClient ==
    ASSUME TypeOK, NEW c \in Conn, ConnInv(c), NEW d \in Conn, c # d,
           (\E m \in Msg : sendMsg(d, m)) \/ writen(d) \/ sendMsg_fails(d) \/ Exit(d) \/ Reset(d)
    PROVE  ConnInv(c)'
<1>1. /\ rd' = rd /\ link' = link /\ log' = log /\ UNCHANGED reader
  BY ZenonT(30) DEF sendMsg, writen, sendMsg_fails, Exit, Reset
<1>2. data'[c] = data[c] /\ sent'[c] = sent[c] /\ peer'[c] = peer[c] /\ stream'[c] = stream[c]
  <2>1. ASSUME NEW m \in Msg, sendMsg(d, m)
        PROVE  data'[c] = data[c] /\ sent'[c] = sent[c] /\ peer'[c] = peer[c] /\ stream'[c] = stream[c]
    BY <2>1 DEF sendMsg, TypeOK
  <2>2. CASE writen(d)
    BY <2>2 DEF writen, TypeOK
  <2>3. CASE sendMsg_fails(d)
    BY <2>3 DEF sendMsg_fails, TypeOK
  <2>4. CASE Exit(d)
    BY <2>4 DEF Exit, TypeOK
  <2>5. CASE Reset(d)
    BY <2>5 DEF Reset, TypeOK, client
  <2> QED BY <2>1, <2>2, <2>3, <2>4, <2>5, Zenon
<1> QED BY <1>1, <1>2, Unaffected, ZenonT(30)

\* Every step keeps the invariant of every connection.
LEMMA ConnStep ==
    ASSUME TypeOK, FrameInv, [Next]_vars, NEW c \in Conn
    PROVE  ConnInv(c)'
<1>0. ConnInv(c)
  BY DEF FrameInv
<1>1. ASSUME NEW d \in Conn, connectToHost(d) PROVE ConnInv(c)'
  <2>1. /\ data' = data /\ sent' = sent /\ peer' = peer /\ stream' = stream /\ rd' = rd /\ log' = log
        /\ UNCHANGED reader /\ (link'[c] = "closed" => link[c] = "closed")
    BY <1>1 DEF connectToHost, client, TypeOK
  <2> QED BY <1>0, <2>1, Unaffected
<1>2. ASSUME NEW d \in Conn, NEW m \in Msg, sendMsg(d, m) PROVE ConnInv(c)'
  BY <1>0, <1>2, sendMsgStep, OtherClient
<1>3. ASSUME NEW d \in Conn, writen(d) PROVE ConnInv(c)'
  BY <1>0, <1>3, writenStep, OtherClient
<1>4. ASSUME NEW d \in Conn, sendMsg_fails(d) PROVE ConnInv(c)'
  BY <1>0, <1>4, sendMsg_failsStep, OtherClient
<1>5. ASSUME NEW d \in Conn, Exit(d) PROVE ConnInv(c)'
  BY <1>0, <1>5, ExitStep, OtherClient
<1>6. ASSUME NEW d \in Conn, Reset(d) PROVE ConnInv(c)'
  BY <1>0, <1>6, ResetStep, OtherClient
<1>7. CASE EpollWait
  <2>1. /\ data' = data /\ sent' = sent /\ peer' = peer /\ stream' = stream /\ rd' = rd /\ log' = log
        /\ UNCHANGED reader /\ link' = link
    BY <1>7 DEF EpollWait, client
  <2> QED BY <1>0, <2>1, Unaffected
<1>8. CASE acceptConn
  <2>1. /\ data' = data /\ sent' = sent /\ peer' = peer /\ stream' = stream /\ rd' = rd /\ log' = log
        /\ UNCHANGED reader /\ (link'[c] = "closed" => link[c] = "closed")
    BY <1>8 DEF acceptConn, client, TypeOK
  <2> QED BY <1>0, <2>1, Unaffected
<1>9. ASSUME NEW d \in Conn, recvMsg(d) PROVE ConnInv(c)'
  <2>1. CASE d = c
    BY <1>0, <1>9, <2>1, recvMsgStep
  <2>2. CASE d # c
    <3>1. /\ data' = data /\ sent' = sent /\ peer' = peer /\ stream' = stream /\ rd' = rd /\ log' = log
          /\ link' = link /\ cur # c /\ cur' # c
      BY <1>9, <2>2, StickyAssumption DEF recvMsg, client
    <3> QED BY <1>0, <3>1, Unaffected
  <2> QED BY <2>1, <2>2
<1>10. ASSUME readn_data \/ header_read \/ header_ends \/ body_read \/ body_ends PROVE ConnInv(c)'
  <2>1. CASE cur # c
    BY <1>0, <1>10, <2>1, OthersKept
  <2>2. CASE cur = c
    BY <1>0, <1>10, <2>2, readn_dataStep, header_readStep, header_endsStep, body_readStep, body_endsStep
  <2> QED BY <2>1, <2>2
<1>11. CASE UNCHANGED vars
  <2>1. /\ data' = data /\ sent' = sent /\ peer' = peer /\ stream' = stream /\ rd' = rd /\ log' = log
        /\ UNCHANGED reader /\ link' = link
    BY <1>11 DEF vars
  <2> QED BY <1>0, <2>1, Unaffected
<1>12. ASSUME NEW d \in Conn, Client(d) PROVE ConnInv(c)'
  BY <1>1, <1>2, <1>3, <1>4, <1>5, <1>6, <1>12 DEF Client
<1>13. ASSUME Server PROVE ConnInv(c)'
  BY <1>7, <1>8, <1>9, <1>10, <1>13 DEF Server
<1> QED BY <1>11, <1>12, <1>13 DEF Next

\* The listener is reported only while a connection waits, and only acceptConn takes one.
LEMMA ListenerStep ==
    ASSUME TypeOK, Listener \in batch => queue # <<>>, [Next]_vars
    PROVE  (Listener \in batch => queue # <<>>)'
<1>1. ASSUME NEW c \in Conn, connectToHost(c) PROVE (Listener \in batch => queue # <<>>)'
  <2>1. queue' = Append(queue, c) /\ queue \in Seq(Conn)
    BY <1>1 DEF connectToHost, TypeOK
  <2>2. queue' # <<>>
    BY <2>1
  <2> QED BY <2>2
<1>2. CASE EpollWait
  BY <1>2, StickyAssumption DEF EpollWait, Ready
<1>3. CASE acceptConn
  BY <1>3 DEF acceptConn
<1>4. ASSUME NEW c \in Conn, recvMsg(c) PROVE (Listener \in batch => queue # <<>>)'
  BY <1>4 DEF recvMsg
<1>5. CASE UNCHANGED <<queue, batch>>
  BY <1>5
<1>6. CASE UNCHANGED vars
  BY <1>5, <1>6 DEF vars
<1>7. ASSUME Server PROVE (Listener \in batch => queue # <<>>)'
  BY <1>2, <1>3, <1>4, <1>5, <1>7
  DEF Server, readn_data, header_read, header_ends, body_read, body_ends, BodyBegins, Return
<1>8. ASSUME NEW c \in Conn, Client(c) PROVE (Listener \in batch => queue # <<>>)'
  BY <1>1, <1>5, <1>8, Zenon DEF Client, sendMsg, writen, sendMsg_fails, Exit, Reset
<1> QED BY <1>6, <1>7, <1>8 DEF Next

\* recvMsg never loses its place in the frames: whatever cuts TCP makes, whenever clients
\* end, FrameInv holds, and with it every variable keeps its type.
THEOREM FrameInvariant == Spec => [](TypeOK /\ FrameInv)
<1>1. Init => TypeOK /\ FrameInv
  BY TypeInit, InvInit
<1>2. TypeOK /\ FrameInv /\ [Next]_vars => (TypeOK /\ FrameInv)'
  <2> SUFFICES ASSUME TypeOK, FrameInv, [Next]_vars PROVE (TypeOK /\ FrameInv)'
    OBVIOUS
  <2>1. Listener \in batch => queue # <<>>
    BY DEF FrameInv
  <2>2. TypeOK' /\ (Listener \in batch => queue # <<>>)'
    BY <2>1, TypeStep, ListenerStep
  <2>3. \A c \in Conn : ConnInv(c)'
    BY ConnStep
  <2> QED BY <2>2, <2>3 DEF FrameInv
<1> QED BY <1>1, <1>2, PTL DEF Spec

\* What the place in the frames says about what was handed over.
LEMMA InvSuffices ==
    ASSUME TypeOK, FrameInv
    PROVE  FramesIntact /\ DamagedLast /\ ClosedAfterAll
<1> SUFFICES ASSUME NEW c \in Conn
             PROVE  /\ \A i \in 1 .. Len(log[c]) : Whole(log[c][i]) =>
                          i <= Len(sent[c]) /\ log[c][i].buf = sent[c][i].msg
                    /\ \A i \in 1 .. Len(log[c]) : ~Whole(log[c][i]) =>
                          /\ i = Len(log[c]) /\ i <= Len(sent[c])
                          /\ peer[c] # "up" /\ ~Arrived(c, i)
                          /\ log[c][i].buf = SubSeq(sent[c][i].msg, 1, Len(log[c][i].buf))
                    /\ link[c] = "closed" =>
                          /\ peer[c] # "up"
                          /\ \A i \in 1 .. Len(sent[c]) : Arrived(c, i) => i <= Len(log[c]) /\ Whole(log[c][i])
  BY DEF FramesIntact, DamagedLast, ClosedAfterAll
<1>0. ConnInv(c) /\ Len(log[c]) \in Nat /\ Len(sent[c]) \in Nat
  BY ConnTypes DEF FrameInv
<1>1. ASSUME NEW i \in 1 .. Len(log[c]) PROVE i <= Len(sent[c])
  <2>1. Len(log[c]) <= Len(sent[c])
    BY <1>0 DEF ConnInv, Handed
  <2> QED BY <1>0, <2>1
<1>2. ASSUME NEW i \in 1 .. Len(log[c]), Whole(log[c][i]) PROVE log[c][i].buf = sent[c][i].msg
  BY <1>0, <1>2 DEF ConnInv, Handed
<1>3. ASSUME NEW i \in 1 .. Len(log[c]), ~Whole(log[c][i])
      PROVE  /\ i = Len(log[c]) /\ peer[c] # "up" /\ ~Arrived(c, i)
             /\ log[c][i].buf = SubSeq(sent[c][i].msg, 1, Len(log[c][i].buf))
  <2>1. /\ i = Len(log[c]) /\ Exhausted(c) /\ ~Arrived(c, i)
        /\ \E n \in 0 .. Len(sent[c][i].msg) - 1 : log[c][i].buf = SubSeq(sent[c][i].msg, 1, n)
    BY <1>0, <1>3 DEF ConnInv, Handed
  <2>2. PICK m \in Seq(Digit) : m = sent[c][i].msg
    <3>1. i \in 1 .. Len(sent[c])
      BY <1>0, <1>1
    <3>2. sent[c][i].msg \in Msg
      BY <3>1, ConnTypes, Zenon
    <3> QED BY <3>2, StickyAssumption
  <2>3. PICK n \in 0 .. Len(m) - 1 : log[c][i].buf = SubSeq(m, 1, n)
    BY <2>1, <2>2
  <2>4. Len(SubSeq(m, 1, n)) = n
    <3>1. n \in Nat /\ n <= Len(m)
      BY <2>3
    <3>2. Len(SubSeq(m, 1, n)) = IF 1 <= n THEN n - 1 + 1 ELSE 0
      BY <3>1, SubSeqOf
    <3> QED BY <3>1, <3>2
  <2> QED BY <2>1, <2>2, <2>3, <2>4 DEF Exhausted
<1>4. link[c] = "closed" => Exhausted(c)
  BY <1>0 DEF ConnInv
<1> QED BY <1>1, <1>2, <1>3, <1>4, Zenon DEF Exhausted

\* For every number of connections, every set of messages and every cut of the stream:
\* the messages recvMsg completes are the messages of sendMsg in order, a cut one is the
\* last, and the server closes a connection only after all that arrived was handed over.
THEOREM FramesAreSound == Spec => []FramesSound
<1>1. TypeOK /\ FrameInv => FramesSound
  BY InvSuffices DEF FramesSound
<1> QED BY <1>1, FrameInvariant, PTL

(***************************************************************************)
(* The refinement of the channel of messages.                              *)
(***************************************************************************)

\* A sequence written as a function.
LEMMA SeqOf ==
    ASSUME NEW S, NEW n \in Nat, NEW f, f \in [1 .. n -> S]
    PROVE  f \in Seq(S) /\ Len(f) = n
OBVIOUS

\* What is in flight to the server, and what it received, are sequences.
LEMMA ChannelTypes ==
    ASSUME TypeOK, NEW c \in Conn, Len(log[c]) <= Len(sent[c])
    PROVE  /\ InFlight[c] \in Seq(Msg) /\ Len(InFlight[c]) = Len(sent[c]) - Len(log[c])
           /\ \A i \in 1 .. Len(sent[c]) - Len(log[c]) : InFlight[c][i] = sent[c][Len(log[c]) + i].msg
           /\ Received[c] \in Seq([whole : BOOLEAN, buf : Bytes]) /\ Len(Received[c]) = Len(log[c])
           /\ \A i \in 1 .. Len(log[c]) :
                 Received[c][i] = [whole |-> Whole(log[c][i]), buf |-> log[c][i].buf]
<1>1. PICK l \in Nat, n \in Nat : l = Len(log[c]) /\ n = Len(sent[c]) /\ l <= n
  BY ConnTypes
<1>2. InFlight[c] = [i \in 1 .. n - l |-> sent[c][l + i].msg]
  BY <1>1 DEF InFlight
<1>3. \A i \in 1 .. n - l : sent[c][l + i].msg \in Msg
  <2> SUFFICES ASSUME NEW i \in 1 .. n - l PROVE sent[c][l + i].msg \in Msg
    OBVIOUS
  <2>1. l + i \in 1 .. n
    BY <1>1
  <2> QED BY <1>1, <2>1, ConnTypes, Zenon
<1>4. InFlight[c] \in [1 .. n - l -> Msg] /\ n - l \in Nat
  <2>1. n - l \in Nat
    BY <1>1
  <2>2. InFlight[c] \in [1 .. n - l -> Msg]
    BY <1>2, <1>3, Zenon
  <2> QED BY <2>1, <2>2
<1>5. Received[c] = [i \in 1 .. l |-> [whole |-> Whole(log[c][i]), buf |-> log[c][i].buf]]
  BY <1>1 DEF Received
<1>6. \A i \in 1 .. l : [whole |-> Whole(log[c][i]), buf |-> log[c][i].buf] \in [whole : BOOLEAN, buf : Bytes]
  <2> SUFFICES ASSUME NEW i \in 1 .. l PROVE log[c][i].buf \in Bytes
    BY DEF Whole
  <2>1. log[c] \in Seq([ret : Int, len : Nat, buf : Bytes])
    BY Zenon DEF TypeOK, Printed
  <2>2. log[c][i] \in [ret : Int, len : Nat, buf : Bytes]
    BY <1>1, <2>1, LenProperties, Zenon
  <2> QED BY <2>2
<1>7. Received[c] \in [1 .. l -> [whole : BOOLEAN, buf : Bytes]]
  BY <1>5, <1>6
<1>8. InFlight[c] \in Seq(Msg) /\ Len(InFlight[c]) = n - l
  BY <1>4, SeqOf
<1>9. Received[c] \in Seq([whole : BOOLEAN, buf : Bytes]) /\ Len(Received[c]) = l
  BY <1>7, SeqOf, Zenon
<1> QED BY <1>1, <1>2, <1>5, <1>8, <1>9

\* Steps that send nothing, hand nothing over and end no client do not show.
LEMMA Stutters ==
    ASSUME sent' = sent, log' = log, \A c \in Conn : (peer'[c] # "up") = (peer[c] # "up")
    PROVE  UNCHANGED Channel!chvars
<1>1. InFlight' = InFlight /\ Received' = Received
  BY DEF InFlight, Received
<1>2. [c \in Conn |-> peer'[c] # "up"] = [c \in Conn |-> peer[c] # "up"]
  OBVIOUS
<1> QED BY <1>1, <1>2 DEF Channel!chvars

\* The call of sendMsg puts the message into the channel.
LEMMA sendMsgPuts ==
    ASSUME TypeOK, TypeOK', FrameInv, FrameInv', NEW c \in Conn, NEW m \in Msg, sendMsg(c, m)
    PROVE  Channel!Put(c, m)
<1>1. peer[c] = "up" /\ peer' = peer /\ log' = log
      /\ sent' = [sent EXCEPT ![c] = Append(@, [at |-> Len(stream[c]), msg |-> m])]
  BY DEF sendMsg
<1>2. Received' = Received /\ [d \in Conn |-> peer'[d] # "up"] = [d \in Conn |-> peer[d] # "up"]
  BY <1>1 DEF Received
<1>3. PICK l \in Nat, n \in Nat : l = Len(log[c]) /\ n = Len(sent[c]) /\ l <= n
  BY ConnTypes, ZenonT(30) DEF FrameInv, ConnInv, Handed
<1>4. /\ Len(sent'[c]) = n + 1 /\ sent'[c][n + 1].msg = m
      /\ \A i \in 1 .. n : sent'[c][i] = sent[c][i]
  <2>1. sent'[c] = Append(sent[c], [at |-> Len(stream[c]), msg |-> m])
    BY <1>1 DEF TypeOK
  <2>2. sent[c] \in Seq([at : Nat, msg : Msg]) /\ [at |-> Len(stream[c]), msg |-> m] \in [at : Nat, msg : Msg]
    BY ConnTypes, ZenonT(30) DEF TypeOK, Calls
  <2>3. /\ Len(sent'[c]) = n + 1 /\ sent'[c][n + 1] = [at |-> Len(stream[c]), msg |-> m]
        /\ \A i \in 1 .. n : sent'[c][i] = sent[c][i]
    <3>1. PICK S, r : /\ r = [at |-> Len(stream[c]), msg |-> m] /\ r \in S
                      /\ sent[c] \in Seq(S) /\ sent'[c] = Append(sent[c], r)
      BY <2>1, <2>2, Zenon
    <3>2. /\ Len(sent'[c]) = n + 1 /\ sent'[c][n + 1] = r
          /\ \A i \in 1 .. n : sent'[c][i] = sent[c][i]
      <4>1. n \in Nat /\ n = Len(sent[c])
        BY <1>3
      <4> QED BY <3>1, <4>1, Appended
    <3> QED BY <3>1, <3>2, Zenon
  <2>4. [at |-> Len(stream[c]), msg |-> m].msg = m
    OBVIOUS
  <2> QED BY <2>3, <2>4, Zenon
<1>5. InFlight[c] \in Seq(Msg) /\ Len(InFlight[c]) = n - l
      /\ \A i \in 1 .. n - l : InFlight[c][i] = sent[c][l + i].msg
  BY <1>3, ChannelTypes, ZenonT(30)
<1>6. InFlight'[c] \in Seq(Msg) /\ Len(InFlight'[c]) = (n + 1) - l
      /\ \A i \in 1 .. (n + 1) - l : InFlight'[c][i] = sent'[c][l + i].msg
  <2>1. \A i \in 1 .. (n + 1) - l : sent'[c][l + i].msg \in Msg
    <3> SUFFICES ASSUME NEW i \in 1 .. (n + 1) - l PROVE sent'[c][l + i].msg \in Msg
      OBVIOUS
    <3>1. CASE l + i = n + 1
      BY <1>4, <3>1
    <3>2. CASE l + i # n + 1
      <4>1. l + i \in 1 .. n
        BY <1>3, <3>2
      <4> QED BY <1>3, <1>4, <4>1, ConnTypes, Zenon
    <3> QED BY <3>1, <3>2
  <2>2. InFlight'[c] = [i \in 1 .. (n + 1) - l |-> sent'[c][l + i].msg]
    <3>1. Len(sent'[c]) - Len(log'[c]) = (n + 1) - l /\ Len(log'[c]) = l
      BY <1>1, <1>3, <1>4
    <3>2. InFlight'[c] = [i \in 1 .. Len(sent'[c]) - Len(log'[c]) |-> sent'[c][Len(log'[c]) + i].msg]
      BY DEF InFlight
    <3> QED BY <3>1, <3>2, Zenon
  <2>3. InFlight'[c] \in [1 .. (n + 1) - l -> Msg] /\ (n + 1) - l \in Nat
    <3>1. (n + 1) - l \in Nat
      BY <1>3
    <3>2. InFlight'[c] \in [1 .. (n + 1) - l -> Msg]
      BY <2>1, <2>2, Zenon
    <3> QED BY <3>1, <3>2
  <2> QED BY <2>2, <2>3, SeqOf
<1>7. InFlight'[c] = Append(InFlight[c], m)
  <2>1. /\ Append(InFlight[c], m) \in Seq(Msg) /\ Len(Append(InFlight[c], m)) = (n - l) + 1
        /\ Append(InFlight[c], m)[(n - l) + 1] = m
        /\ \A i \in 1 .. n - l : Append(InFlight[c], m)[i] = InFlight[c][i]
    BY <1>5, AppendProperties
  <2>2. ASSUME NEW i \in 1 .. (n + 1) - l PROVE InFlight'[c][i] = Append(InFlight[c], m)[i]
    <3>1. CASE i = (n - l) + 1
      <4>1. l + i = n + 1
        BY <1>3, <3>1
      <4> QED BY <1>4, <1>6, <2>1, <3>1, <4>1
    <3>2. CASE i # (n - l) + 1
      <4>1. i \in 1 .. n - l /\ l + i \in 1 .. n
        BY <1>3, <3>2
      <4> QED BY <1>4, <1>5, <1>6, <2>1, <4>1, ZenonT(30)
    <3> QED BY <3>1, <3>2, Zenon
  <2>3. (n - l) + 1 = (n + 1) - l
    BY <1>3
  <2> QED BY <1>6, <2>1, <2>2, <2>3, SeqEqual, ZenonT(30)
<1>8. \A d \in Conn : d # c => InFlight'[d] = InFlight[d]
  BY <1>1 DEF InFlight, TypeOK
<1>9. InFlight' = [InFlight EXCEPT ![c] = Append(@, m)]
  <2>1. InFlight = [d \in Conn |-> InFlight[d]] /\ InFlight' = [d \in Conn |-> InFlight'[d]]
    BY DEF InFlight
  <2> QED BY <1>7, <1>8, <2>1
<1> QED BY <1>1, <1>2, <1>9, ZenonT(30) DEF Channel!Put

\* recvMsg returning a message takes the first message in flight out of the channel, whole
\* or cut short.
LEMMA HandsOver ==
    ASSUME TypeOK, TypeOK', FrameInv, FrameInv', NEW c \in Conn, sent' = sent,
           NEW r \in [ret : Int, len : Nat, buf : Bytes], log' = [log EXCEPT ![c] = Append(@, r)],
           \A d \in Conn : (peer'[d] # "up") = (peer[d] # "up")
    PROVE  Channel!Get(c) \/ Channel!GetDamaged(c)
<1>1. PICK l \in Nat, n \in Nat, k \in Nat :
         l = Len(log[c]) /\ n = Len(sent[c]) /\ l < n /\ n - l = k + 1 /\ n - (l + 1) = k
  <2>1. Len(log[c]) \in Nat /\ Len(sent[c]) \in Nat
    BY ConnTypes
  <2>2. Len(log'[c]) = Len(log[c]) + 1 /\ Len(log'[c]) <= Len(sent'[c])
    <3>1. log'[c] = Append(log[c], r) /\ log[c] \in Seq([ret : Int, len : Nat, buf : Bytes])
      BY DEF TypeOK, Printed
    <3>2. Len(log'[c]) = Len(log[c]) + 1
      BY <2>1, <3>1, Appended
    <3>3. Len(log'[c]) <= Len(sent'[c])
      BY Zenon DEF FrameInv, ConnInv, Handed
    <3> QED BY <3>2, <3>3
  <2>3. Len(log[c]) < Len(sent[c])
    BY <2>1, <2>2
  <2>4. Len(sent[c]) - (Len(log[c]) + 1) \in Nat
        /\ Len(sent[c]) - Len(log[c]) = (Len(sent[c]) - (Len(log[c]) + 1)) + 1
    BY <2>1, <2>3
  <2> QED BY <2>1, <2>3, <2>4
<1>2. /\ Len(log'[c]) = l + 1 /\ log'[c][l + 1] = r
      /\ \A i \in 1 .. l : log'[c][i] = log[c][i]
  <2>1. log'[c] = Append(log[c], r) /\ log[c] \in Seq([ret : Int, len : Nat, buf : Bytes])
    BY DEF TypeOK, Printed
  <2> QED BY <1>1, <2>1, Appended
<1>3. /\ InFlight[c] \in Seq(Msg) /\ Len(InFlight[c]) = k + 1
      /\ \A i \in 1 .. k + 1 : InFlight[c][i] = sent[c][l + i].msg
      /\ Received[c] \in Seq([whole : BOOLEAN, buf : Bytes]) /\ Len(Received[c]) = l
      /\ \A i \in 1 .. l : Received[c][i] = [whole |-> Whole(log[c][i]), buf |-> log[c][i].buf]
  <2>1. Len(log[c]) <= Len(sent[c])
    BY <1>1
  <2>2. Len(sent[c]) - Len(log[c]) = k + 1 /\ Len(log[c]) = l
    BY <1>1, Zenon
  <2>3. /\ InFlight[c] \in Seq(Msg) /\ Len(InFlight[c]) = Len(sent[c]) - Len(log[c])
        /\ \A i \in 1 .. Len(sent[c]) - Len(log[c]) : InFlight[c][i] = sent[c][Len(log[c]) + i].msg
        /\ Received[c] \in Seq([whole : BOOLEAN, buf : Bytes]) /\ Len(Received[c]) = Len(log[c])
        /\ \A i \in 1 .. Len(log[c]) :
              Received[c][i] = [whole |-> Whole(log[c][i]), buf |-> log[c][i].buf]
    BY <2>1, ChannelTypes, Zenon
  <2> QED BY <2>2, <2>3, Zenon
<1>4. /\ InFlight[c] # <<>> /\ Head(InFlight[c]) = sent[c][l + 1].msg /\ InFlight[c][1] = sent[c][l + 1].msg
      /\ Tail(InFlight[c]) \in Seq(Msg) /\ Len(Tail(InFlight[c])) = k
      /\ \A i \in 1 .. k : Tail(InFlight[c])[i] = InFlight[c][i + 1]
  <2>1. InFlight[c] # <<>> /\ 1 \in 1 .. k + 1
    BY <1>3
  <2>2. /\ Head(InFlight[c]) \in Msg /\ Tail(InFlight[c]) \in Seq(Msg)
        /\ Len(Tail(InFlight[c])) = (k + 1) - 1
        /\ \A i \in 1 .. (k + 1) - 1 : Tail(InFlight[c])[i] = InFlight[c][i + 1]
    BY <1>3, <2>1, HeadTailProperties
  <2>3. (k + 1) - 1 = k /\ Head(InFlight[c]) = InFlight[c][1]
    BY <1>3, <2>1
  <2> QED BY <1>3, <2>1, <2>2, <2>3, Zenon
<1>5. InFlight' = [InFlight EXCEPT ![c] = Tail(@)]
  <2>1. InFlight'[c] = [i \in 1 .. k |-> sent[c][(l + 1) + i].msg]
    <3>1. Len(sent'[c]) - Len(log'[c]) = k /\ Len(log'[c]) = l + 1
      BY <1>1, <1>2, Zenon
    <3>2. InFlight'[c] = [i \in 1 .. Len(sent'[c]) - Len(log'[c]) |-> sent'[c][Len(log'[c]) + i].msg]
      BY DEF InFlight
    <3> QED BY <3>1, <3>2, Zenon
  <2>2. \A i \in 1 .. k : sent[c][(l + 1) + i].msg \in Msg
    <3> SUFFICES ASSUME NEW i \in 1 .. k PROVE sent[c][(l + 1) + i].msg \in Msg
      BY Zenon
    <3>0. n - (l + 1) = k
      BY <1>1, Zenon
    <3>1. (l + 1) + i \in 1 .. n
      BY <3>0
    <3> QED BY <1>1, <3>1, ConnTypes, Zenon
  <2>3. InFlight'[c] \in [1 .. k -> Msg]
    BY <2>1, <2>2, Zenon
  <2>4. InFlight'[c] \in Seq(Msg) /\ Len(InFlight'[c]) = k
    BY <2>3, SeqOf
  <2>5. ASSUME NEW i \in 1 .. k PROVE InFlight'[c][i] = Tail(InFlight[c])[i]
    <3>1. i + 1 \in 1 .. k + 1 /\ l + (i + 1) = (l + 1) + i
      OBVIOUS
    <3>2. Tail(InFlight[c])[i] = InFlight[c][i + 1]
      BY <1>4
    <3>3. InFlight[c][i + 1] = sent[c][l + (i + 1)].msg
      BY <1>3, <3>1
    <3>4. InFlight'[c][i] = sent[c][(l + 1) + i].msg
      BY <2>1
    <3> QED BY <3>1, <3>2, <3>3, <3>4, Zenon
  <2>6. InFlight'[c] = Tail(InFlight[c])
    BY <1>4, <2>4, <2>5, SeqEqual, Zenon
  <2>7. \A d \in Conn : d # c => InFlight'[d] = InFlight[d]
    BY DEF InFlight, TypeOK
  <2>8. InFlight = [d \in Conn |-> InFlight[d]] /\ InFlight' = [d \in Conn |-> InFlight'[d]]
    BY DEF InFlight
  <2> QED BY <2>6, <2>7, <2>8
<1>6. ASSUME NEW v \in [whole : BOOLEAN, buf : Bytes], v = [whole |-> Whole(r), buf |-> r.buf]
      PROVE  Received' = [Received EXCEPT ![c] = Append(@, v)]
  <2>1. Received'[c] = [i \in 1 .. l + 1 |-> [whole |-> Whole(log'[c][i]), buf |-> log'[c][i].buf]]
    BY <1>2, Zenon DEF Received
  <2>2. /\ Append(Received[c], v) \in Seq([whole : BOOLEAN, buf : Bytes]) /\ Len(Append(Received[c], v)) = l + 1
        /\ Append(Received[c], v)[l + 1] = v
        /\ \A i \in 1 .. l : Append(Received[c], v)[i] = Received[c][i]
    BY <1>3, AppendProperties
  <2>3. ASSUME NEW i \in 1 .. l + 1
        PROVE  [whole |-> Whole(log'[c][i]), buf |-> log'[c][i].buf] = Append(Received[c], v)[i]
    <3>1. CASE i = l + 1
      BY <1>2, <1>6, <2>2, <3>1, Zenon
    <3>2. CASE i \in 1 .. l
      <4>1. log'[c][i] = log[c][i]
        BY <1>2, <3>2
      <4>2. Append(Received[c], v)[i] = Received[c][i]
        BY <2>2, <3>2
      <4>3. Received[c][i] = [whole |-> Whole(log[c][i]), buf |-> log[c][i].buf]
        BY <1>3, <3>2
      <4> QED BY <4>1, <4>2, <4>3, Zenon
    <3>3. i = l + 1 \/ i \in 1 .. l
      OBVIOUS
    <3> QED BY <3>1, <3>2, <3>3, Zenon
  <2>4. Append(Received[c], v) = [i \in 1 .. l + 1 |-> Append(Received[c], v)[i]]
    BY <2>2
  <2>5. Received'[c] = Append(Received[c], v)
    BY <2>1, <2>3, <2>4, Zenon
  <2>6. \A d \in Conn : d # c => Received'[d] = Received[d]
    BY DEF Received, TypeOK
  <2>7. Received = [d \in Conn |-> Received[d]] /\ Received' = [d \in Conn |-> Received'[d]]
    BY DEF Received
  <2> QED BY <2>5, <2>6, <2>7
<1>7. [d \in Conn |-> peer'[d] # "up"] = [d \in Conn |-> peer[d] # "up"]
  OBVIOUS
<1>8. Handed(c)'
  BY DEF FrameInv, ConnInv
<1>9. ~Channel!Damaged(c)
  <2> SUFFICES ASSUME Received[c] # <<>>, ~Received[c][Len(Received[c])].whole PROVE FALSE
    BY DEF Channel!Damaged
  <2>1. l \in 1 .. l
    <3>1. l # 0
      BY <1>3
    <3> QED BY <3>1
  <2>2. ~Whole(log[c][l])
    <3>1. Received[c][l] = [whole |-> Whole(log[c][l]), buf |-> log[c][l].buf]
      BY <1>3, <2>1
    <3>2. [whole |-> Whole(log[c][l]), buf |-> log[c][l].buf].whole = Whole(log[c][l])
      BY DEF Whole
    <3>3. ~Received[c][l].whole
      BY <1>3
    <3> QED BY <3>1, <3>2, <3>3, Zenon
  <2>3. ~Whole(log'[c][l]) /\ l \in 1 .. Len(log'[c]) /\ l # Len(log'[c])
    BY <1>2, <2>1, <2>2
  <2> QED BY <1>8, <2>3, ZenonT(30) DEF Handed
<1>10. l + 1 \in 1 .. Len(log'[c])
  BY <1>2
<1>11. CASE Whole(r)
  <2>1. r.buf = sent[c][l + 1].msg
    BY <1>2, <1>8, <1>10, <1>11, ZenonT(30) DEF Handed
  <2>2. [whole |-> TRUE, buf |-> Head(InFlight[c])] = [whole |-> Whole(r), buf |-> r.buf]
    BY <1>4, <1>11, <2>1, Zenon
  <2>3. [whole |-> TRUE, buf |-> Head(InFlight[c])] \in [whole : BOOLEAN, buf : Bytes]
    BY <1>4, <2>1
  <2>4. Received' = [Received EXCEPT ![c] = Append(@, [whole |-> TRUE, buf |-> Head(InFlight[c])])]
    BY <1>6, <2>2, <2>3, Zenon
  <2> QED BY <1>4, <1>5, <1>7, <1>9, <2>4 DEF Channel!Get
<1>12. CASE ~Whole(r)
  <2>1. Exhausted(c)' /\ \E j \in 0 .. Len(sent'[c][l + 1].msg) - 1 : r.buf = SubSeq(sent'[c][l + 1].msg, 1, j)
    BY <1>2, <1>8, <1>10, <1>12 DEF Handed
  <2>2. peer[c] # "up"
    <3>1. peer'[c] # "up"
      BY <2>1, Zenon DEF Exhausted
    <3> QED BY <3>1
  <2>3. PICK j \in 0 .. Len(InFlight[c][1]) - 1 : r.buf = SubSeq(InFlight[c][1], 1, j)
    BY <1>4, <2>1
  <2>4. [whole |-> FALSE, buf |-> SubSeq(InFlight[c][1], 1, j)] = [whole |-> Whole(r), buf |-> r.buf]
    <3>1. Whole(r) = FALSE
      BY <1>12 DEF Whole
    <3> QED BY <2>3, <3>1, Zenon
  <2>5. [whole |-> FALSE, buf |-> SubSeq(InFlight[c][1], 1, j)] \in [whole : BOOLEAN, buf : Bytes]
    BY <2>3, Zenon
  <2>6. Received' = [Received EXCEPT ![c] = Append(@, [whole |-> FALSE, buf |-> SubSeq(InFlight[c][1], 1, j)])]
    BY <1>6, <2>4, <2>5, Zenon
  <2> QED BY <1>4, <1>5, <1>7, <1>9, <2>2, <2>3, <2>6, Zenon DEF Channel!GetDamaged
<1> QED BY <1>11, <1>12, Zenon

\* Every step of the clients and of the server is a step of the channel, or does not show.
LEMMA ChannelStep ==
    ASSUME TypeOK, TypeOK', FrameInv, FrameInv', [Next]_vars
    PROVE  [Channel!ChNext]_(Channel!chvars)
<1>1. ASSUME sent' = sent, log' = log, peer' = peer PROVE [Channel!ChNext]_(Channel!chvars)
  BY <1>1, Stutters
<1>2. ASSUME NEW c \in Conn, NEW m \in Msg, sendMsg(c, m) PROVE Channel!ChNext
  BY <1>2, sendMsgPuts DEF Channel!ChNext
<1>3. ASSUME NEW c \in Conn, Exit(c) \/ Reset(c) PROVE Channel!ChNext
  <2>1. sent' = sent /\ log' = log
    BY <1>3 DEF Exit, Reset, client
  <2>2. InFlight' = InFlight /\ Received' = Received
    BY <2>1 DEF InFlight, Received
  <2>3. peer'[c] # "up" /\ \A d \in Conn : d # c => peer'[d] = peer[d]
    BY <1>3 DEF Exit, Reset, TypeOK
  <2>4. [d \in Conn |-> peer'[d] # "up"] = [[d \in Conn |-> peer[d] # "up"] EXCEPT ![c] = TRUE]
    BY <2>3, Zenon
  <2>5. Channel!Cut(c)
    BY <2>2, <2>4 DEF Channel!Cut
  <2> QED BY <2>5 DEF Channel!ChNext
<1>4. ASSUME AfterEnd, cur # None PROVE \A d \in Conn : (peer'[d] # "up") = (peer[d] # "up")
  BY <1>4 DEF AfterEnd, TypeOK
<1>5. CASE header_ends
  <2>1. sent' = sent /\ log' = log
    BY <1>5 DEF header_ends, BodyBegins, client
  <2> QED BY <1>4, <1>5, <2>1, Stutters DEF header_ends, Ended
<1>6. ASSUME NEW ret \in Int, Return(ret), cur # None,
             \A d \in Conn : (peer'[d] # "up") = (peer[d] # "up")
      PROVE  [Channel!ChNext]_(Channel!chvars)
  <2>1. sent' = sent /\ cur \in Conn
    BY <1>6 DEF Return, client, TypeOK
  <2>2. CASE ret = 0
    <3>1. log' = log
      BY <1>6, <2>2 DEF Return
    <3> QED BY <1>6, <2>1, <3>1, Stutters
  <2>3. CASE ret # 0
    <3>1. log' = [log EXCEPT ![cur] = Append(@, [ret |-> ret, len |-> len, buf |-> got])]
      BY <1>6, <2>3 DEF Return
    <3>2. [ret |-> ret, len |-> len, buf |-> got] \in [ret : Int, len : Nat, buf : Bytes]
      BY DEF TypeOK
    <3>3. Channel!Get(cur) \/ Channel!GetDamaged(cur)
      BY <1>6, <2>1, <3>1, <3>2, HandsOver, ZenonT(30)
    <3> QED BY <2>1, <3>3 DEF Channel!ChNext
  <2> QED BY <2>2, <2>3
<1>7. CASE body_read
  BY <1>6, <1>7 DEF body_read, TypeOK
<1>8. CASE body_ends
  <2>1. (IF peer[cur] = "rst" THEN -1 ELSE Len(got)) \in Int
    BY DEF TypeOK, Bytes
  <2> QED BY <1>4, <1>6, <1>8, <2>1 DEF body_ends, Ended
<1>9. CASE UNCHANGED vars
  BY <1>1, <1>9 DEF vars
<1>10. ASSUME NEW c \in Conn, connectToHost(c) \/ writen(c) \/ sendMsg_fails(c)
       PROVE  [Channel!ChNext]_(Channel!chvars)
  BY <1>1, <1>10 DEF connectToHost, writen, sendMsg_fails, client
<1>11. ASSUME EpollWait \/ acceptConn \/ (\E c \in Conn : recvMsg(c)) \/ readn_data \/ header_read
       PROVE  [Channel!ChNext]_(Channel!chvars)
  BY <1>1, <1>11 DEF EpollWait, acceptConn, recvMsg, readn_data, header_read, BodyBegins, client
<1>12. ASSUME NEW c \in Conn, Client(c) PROVE [Channel!ChNext]_(Channel!chvars)
  BY <1>2, <1>3, <1>10, <1>12 DEF Client
<1> QED BY <1>5, <1>7, <1>8, <1>9, <1>11, <1>12 DEF Next, Server

\* sendMsg, TCP, recvMsg and the loop of main together implement the channel of whole
\* messages, first in first out, with at most one damaged message, the last.
THEOREM ChannelIsImplemented == Spec => ImplementsChannel
<1>1. Init => Channel!ChInit
  <2> SUFFICES ASSUME Init PROVE Channel!ChInit
    OBVIOUS
  <2>1. \A c \in Conn : InFlight[c] = <<>> /\ Received[c] = <<>>
    BY DEF Init, InFlight, Received
  <2>2. InFlight = [c \in Conn |-> <<>>] /\ Received = [c \in Conn |-> <<>>]
    BY <2>1, Zenon DEF InFlight, Received
  <2>3. [c \in Conn |-> peer[c] # "up"] = [c \in Conn |-> FALSE]
    BY Zenon DEF Init
  <2> QED BY <2>2, <2>3, Zenon DEF Channel!ChInit
<1>2. (TypeOK /\ FrameInv) /\ (TypeOK /\ FrameInv)' /\ [Next]_vars => [Channel!ChNext]_(Channel!chvars)
  BY ChannelStep
<1> QED BY <1>1, <1>2, FrameInvariant, PTL DEF Spec, ImplementsChannel, Channel!ChSpec
=============================================================================
