---------------------------- MODULE FrameProofs -----------------------------
(***************************************************************************)
(* Lemmas about StickyPacket that StickyPacketProofs rests on: what the    *)
(* header holds, types, where the frames lie, and the steps that write     *)
(* into the stream, cut it off, or read bytes out of it.                   *)
(***************************************************************************)
EXTENDS StickyPacket, SequenceTheorems, TLAPS

\* Quotient and remainder of a number.
LEMMA DivMod ==
    ASSUME NEW n \in Nat, NEW b \in Nat, b > 0
    PROVE  /\ n \div b \in Nat /\ n % b \in 0 .. b - 1
           /\ n = b * (n \div b) + (n % b)
  OBVIOUS

\* A positive factor on both sides of < can be dropped.
LEMMA Cancel ==
    ASSUME NEW x \in Nat, NEW y \in Nat, NEW b \in Nat, b * x < b * y
    PROVE  x < y
<1>1. SUFFICES ASSUME y <= x PROVE b * y <= b * x
  OBVIOUS
<1>2. PICK d \in Nat : x = y + d
  <2>1. x - y \in Nat /\ x = y + (x - y)
    BY <1>1
  <2> QED BY <2>1
<1>3. b * x = b * y + b * d /\ b * d \in Nat
  BY <1>2
<1> QED BY <1>3

\* A quotient is below what the number is below, divided.
LEMMA Small ==
    ASSUME NEW n \in Nat, NEW b \in Nat, NEW y \in Nat, b > 0, n < b * y
    PROVE  n \div b < y
<1>1. b * (n \div b) <= n /\ n \div b \in Nat
  BY DivMod
<1>2. b * (n \div b) < b * y
  BY <1>1
<1> QED BY <1>1, <1>2, Cancel

\* htonl gives digits, and ntohl takes them back to the number.
LEMMA HeaderRoundTrip ==
    ASSUME NEW n \in Nat, n < Base * Base * Base * Base
    PROVE  /\ htonl(n) \in Seq(Digit) /\ Len(htonl(n)) = HLen
           /\ ntohl(htonl(n)) = n
<1> DEFINE q1 == n \div Base
           q2 == q1 \div Base
           q3 == q2 \div Base
<1>0. Base \in Nat /\ Base > 0
  BY StickyAssumption
<1>1. q1 \in Nat /\ n = Base * q1 + (n % Base) /\ n % Base \in Digit
  BY <1>0, DivMod DEF Digit
<1>2. q2 \in Nat /\ q1 = Base * q2 + (q1 % Base) /\ q1 % Base \in Digit
  BY <1>0, <1>1, DivMod DEF Digit
<1>3. q3 \in Nat /\ q2 = Base * q3 + (q2 % Base) /\ q2 % Base \in Digit
  BY <1>0, <1>2, DivMod DEF Digit
<1>4. q3 < Base
  <2>1. Base * Base * Base \in Nat /\ Base * Base \in Nat
    BY <1>0
  <2>2. n < Base * (Base * Base * Base)
    BY <1>0
  <2>3. q1 < Base * (Base * Base)
    <3>1. q1 < Base * Base * Base
      BY <1>0, <2>1, <2>2, Small
    <3> QED BY <1>0, <3>1
  <2>4. q2 < Base * Base
    BY <1>0, <1>1, <2>1, <2>3, Small
  <2> QED BY <1>0, <1>2, <2>4, Small
<1>5. q3 % Base = q3 /\ q3 \in Digit
  BY <1>0, <1>3, <1>4 DEF Digit
<1>6. htonl(n) = <<q3, q2 % Base, q1 % Base, n % Base>>
  BY <1>5 DEF htonl
<1> HIDE DEF q1, q2, q3
<1>7. htonl(n) \in Seq(Digit) /\ Len(htonl(n)) = HLen
  BY <1>1, <1>2, <1>3, <1>5, <1>6 DEF HLen
<1>8. ntohl(htonl(n)) = ((q3 * Base + (q2 % Base)) * Base + (q1 % Base)) * Base + (n % Base)
  BY <1>6 DEF ntohl
<1>9. Base * q3 = q3 * Base /\ Base * q2 = q2 * Base /\ Base * q1 = q1 * Base
  BY <1>0, <1>1, <1>2, <1>3
<1>10. q2 = q3 * Base + (q2 % Base) /\ q1 = q2 * Base + (q1 % Base) /\ n = q1 * Base + (n % Base)
  BY <1>1, <1>2, <1>3, <1>9
<1> QED BY <1>7, <1>8, <1>10

\* A frame is a header of four bytes and the message; messages are not empty.
LEMMA FrameShape ==
    ASSUME NEW m \in Msg
    PROVE  /\ Len(m) \in Nat /\ Len(m) > 0 /\ m \in Seq(Digit)
           /\ Frame(m) \in Seq(Digit) /\ Len(Frame(m)) = HLen + Len(m)
           /\ \A k \in 1 .. HLen : Frame(m)[k] = htonl(Len(m))[k]
           /\ \A k \in 1 .. Len(m) : Frame(m)[HLen + k] = m[k]
<1>1. Len(m) \in Nat /\ Len(m) > 0 /\ m \in Seq(Digit)
  BY StickyAssumption
<1>2. htonl(Len(m)) \in Seq(Digit) /\ Len(htonl(Len(m))) = HLen
  BY <1>1, HeaderRoundTrip, StickyAssumption
<1> DEFINE h == htonl(Len(m))
<1>3. Frame(m) = h \o m
  BY DEF Frame
<1> HIDE DEF h
<1>4. h \in Seq(Digit) /\ Len(h) = HLen
  BY <1>2 DEF h
<1>5. /\ Frame(m) \in Seq(Digit) /\ Len(Frame(m)) = HLen + Len(m)
      /\ \A i \in 1 .. HLen + Len(m) : Frame(m)[i] = IF i <= HLen THEN h[i] ELSE m[i - HLen]
  <2>1. /\ h \o m \in Seq(Digit) /\ Len(h \o m) = Len(h) + Len(m)
        /\ \A i \in 1 .. Len(h) + Len(m) : (h \o m)[i] = IF i <= Len(h) THEN h[i] ELSE m[i - Len(h)]
    BY <1>1, <1>4, ConcatProperties, Zenon
  <2> QED BY <2>1, <1>3, <1>4, Zenon
<1>6. \A k \in 1 .. HLen : Frame(m)[k] = h[k]
  BY <1>1, <1>5 DEF HLen
<1>7. \A k \in 1 .. Len(m) : Frame(m)[HLen + k] = m[k]
  BY <1>1, <1>5 DEF HLen
<1> QED BY <1>1, <1>5, <1>6, <1>7 DEF h

\* The bytes of a header, read as recvMsg reads them, are the length of the message.
LEMMA HeaderIntOf ==
    ASSUME NEW h \in Seq(Digit), NEW m \in Msg, Len(h) = HLen,
           \A k \in 1 .. HLen : h[k] = Frame(m)[k]
    PROVE  HeaderInt(h) = Len(m)
<1> DEFINE g == [k \in 1 .. HLen |-> IF k <= Len(h) THEN h[k] ELSE 0]
<1>1. /\ g[1] = htonl(Len(m))[1] /\ g[2] = htonl(Len(m))[2]
      /\ g[3] = htonl(Len(m))[3] /\ g[4] = htonl(Len(m))[4]
  BY FrameShape DEF HLen
<1>2. ntohl(g) = ntohl(htonl(Len(m)))
  BY <1>1 DEF ntohl
<1>3. ntohl(htonl(Len(m))) = Len(m)
  BY FrameShape, HeaderRoundTrip, StickyAssumption
<1> QED BY <1>2, <1>3 DEF HeaderInt

\* The number that four digits stand for is a natural number.
LEMMA HornerNat ==
    ASSUME NEW x \in Nat, NEW b \in Nat, NEW y \in Nat
    PROVE  x * b + y \in Nat
  OBVIOUS

\* Whatever part of a header readn got, len is a natural number.
LEMMA HeaderIntType ==
    ASSUME NEW h \in Seq(Digit)
    PROVE  HeaderInt(h) \in Nat
<1> DEFINE g == [k \in 1 .. HLen |-> IF k <= Len(h) THEN h[k] ELSE 0]
<1>0. Base \in Nat
  BY StickyAssumption
<1>1. \A k \in 1 .. HLen : g[k] \in Nat
  <2> SUFFICES ASSUME NEW k \in 1 .. HLen PROVE g[k] \in Nat
    OBVIOUS
  <2>1. k <= Len(h) => h[k] \in Digit
    BY DEF HLen
  <2>2. Digit \subseteq Nat
    BY <1>0 DEF Digit
  <2> QED BY <2>1, <2>2, Zenon
<1> HIDE DEF g
<1>2. g[1] \in Nat /\ g[2] \in Nat /\ g[3] \in Nat /\ g[4] \in Nat
  BY <1>1 DEF HLen
<1>3. g[1] * Base + g[2] \in Nat
  BY <1>0, <1>2, HornerNat, Zenon
<1>4. (g[1] * Base + g[2]) * Base + g[3] \in Nat
  BY <1>0, <1>2, <1>3, HornerNat
<1>5. ntohl(g) \in Nat
  BY <1>0, <1>2, <1>4, HornerNat, Zenon DEF ntohl
<1> QED BY <1>5 DEF HeaderInt, g

\* A sequence and one element more.
LEMMA Appended ==
    ASSUME NEW S, NEW s \in Seq(S), NEW x \in S, NEW t, t = Append(s, x), NEW n \in Nat, n = Len(s)
    PROVE  t \in Seq(S) /\ Len(t) = n + 1 /\ t[n + 1] = x /\ \A i \in 1 .. n : t[i] = s[i]
BY AppendProperties

LEMMA Below == ASSUME NEW a \in Nat, NEW b \in Nat, a < b PROVE a \in 0 .. b - 1
OBVIOUS

\* A part of a sequence of bytes.
LEMMA SubSeqOf ==
    ASSUME NEW S, NEW s \in Seq(S), NEW a \in Nat, NEW b \in Nat, 1 <= a, b <= Len(s)
    PROVE  /\ SubSeq(s, a, b) \in Seq(S)
           /\ Len(SubSeq(s, a, b)) = IF a <= b THEN b - a + 1 ELSE 0
           /\ \A i \in 1 .. b - a + 1 : SubSeq(s, a, b)[i] = s[a + i - 1]
<1>1. \A i \in a .. b : s[i] \in S
  BY LenProperties
<1> QED BY <1>1, SubSeqProperties

\* A recv with data takes bytes the stream has and readn still wants.
LEMMA ReadnTakes ==
    ASSUME TypeOK, readn_data
    PROVE  \E n \in Nat :
              /\ cur \in Conn /\ n > 0 /\ rd[cur] + n <= Len(stream[cur]) /\ Len(got) + n <= Want
              /\ got' = got \o SubSeq(stream[cur], rd[cur] + 1, rd[cur] + n)
              /\ rd' = [rd EXCEPT ![cur] = @ + n]
<1> DEFINE count == Want - Len(got)
           n == IF Avail(cur) < count THEN Avail(cur) ELSE count
<1>1. /\ cur \in Conn /\ Len(got) < Want /\ Avail(cur) > 0
      /\ got' = got \o SubSeq(stream[cur], rd[cur] + 1, rd[cur] + n)
      /\ rd' = [rd EXCEPT ![cur] = @ + n]
  BY DEF readn_data, TypeOK
<1>2. Want \in Nat
  BY DEF Want, HLen, TypeOK
<1>3. Len(got) \in Nat /\ Len(stream[cur]) \in Nat /\ rd[cur] \in Nat
  BY <1>1 DEF TypeOK, Bytes
<1>4. n \in Nat /\ n > 0 /\ rd[cur] + n <= Len(stream[cur]) /\ Len(got) + n <= Want
  <2>0. Avail(cur) \in Nat
    BY <1>1, <1>3 DEF Avail
  <2>1. PICK w \in Nat, g \in Nat, a \in Nat : w = Want /\ g = Len(got) /\ a = Avail(cur)
    BY <1>2, <1>3, <2>0, Zenon
  <2>2. a = Len(stream[cur]) - rd[cur] /\ g < w /\ a > 0
    BY <1>1, <2>1 DEF Avail
  <2>3. n = IF a < w - g THEN a ELSE w - g
    BY <2>1
  <2> QED BY <1>3, <2>1, <2>2, <2>3
<1> QED BY <1>1, <1>4, Zenon

\* The empty sequence has each of the types.
LEMMA Empty == <<>> \in Bytes /\ <<>> \in Calls /\ <<>> \in Printed
  BY DEF Bytes, Calls, Printed

\* Every variable starts with its type.
LEMMA TypeInit == Init => TypeOK
  BY Empty DEF Init, TypeOK

\* Every step keeps the types, one action after the other.
LEMMA TypeStep ==
    ASSUME TypeOK, Listener \in batch => queue # <<>>, [Next]_vars
    PROVE  TypeOK'
<1> USE DEF TypeOK
<1>1. ASSUME NEW c \in Conn, connectToHost(c) PROVE TypeOK'
  BY <1>1 DEF connectToHost, client, reader
<1>2. ASSUME NEW c \in Conn, NEW m \in Msg, sendMsg(c, m) PROVE TypeOK'
  <2>1. Frame(m) \in Bytes
    BY FrameShape DEF Bytes
  <2>2. Append(sent[c], [at |-> Len(stream[c]), msg |-> m]) \in Calls
    <3>1. [at |-> Len(stream[c]), msg |-> m] \in [at : Nat, msg : Msg]
      BY DEF Bytes
    <3> QED BY <3>1, AppendProperties, Zenon DEF Calls
  <2>3. sent' \in [Conn -> Calls]
    BY <1>2, <2>2 DEF sendMsg
  <2> QED BY <1>2, <2>1, <2>3 DEF sendMsg, client, reader
<1>3. ASSUME NEW c \in Conn, writen(c) PROVE TypeOK'
  <2>1. PICK n \in 1 .. Len(data[c]) :
          /\ stream' = [stream EXCEPT ![c] = @ \o SubSeq(data[c], 1, n)]
          /\ data' = [data EXCEPT ![c] = SubSeq(@, n + 1, Len(@))]
    BY <1>3, Zenon DEF writen
  <2>2. data[c] \in Seq(Digit) /\ stream[c] \in Seq(Digit)
    BY DEF Bytes
  <2>3. SubSeq(data[c], 1, n) \in Bytes /\ SubSeq(data[c], n + 1, Len(data[c])) \in Bytes
    <3>1. Len(data[c]) \in Nat /\ n \in 1 .. Len(data[c])
      BY <2>1, <2>2
    <3>2. /\ 1 \in Nat /\ n \in Nat /\ n + 1 \in Nat /\ 1 <= 1 /\ 1 <= n + 1
          /\ n <= Len(data[c]) /\ Len(data[c]) <= Len(data[c])
      BY <3>1
    <3> QED BY <2>2, <3>1, <3>2, SubSeqOf, Zenon DEF Bytes
  <2>4. stream[c] \o SubSeq(data[c], 1, n) \in Bytes
    BY <2>2, <2>3, ConcatProperties DEF Bytes
  <2> QED BY <1>3, <2>1, <2>3, <2>4 DEF writen, client, reader
<1>4. ASSUME NEW c \in Conn, sendMsg_fails(c) PROVE TypeOK'
  BY <1>4, Empty DEF sendMsg_fails, client, reader
<1>5. ASSUME NEW c \in Conn, Exit(c) PROVE TypeOK'
  BY <1>5, Empty DEF Exit, client, reader
<1>6. ASSUME NEW c \in Conn, Reset(c) PROVE TypeOK'
  <2>1. PICK n \in rd[c] .. Len(stream[c]) : stream' = [stream EXCEPT ![c] = SubSeq(@, 1, n)]
    BY <1>6, Zenon DEF Reset
  <2>2. SubSeq(stream[c], 1, n) \in Bytes
    BY <2>1, SubSeqOf DEF Bytes
  <2> QED BY <1>6, <2>1, <2>2 DEF Reset, client, reader
<1>7. CASE EpollWait
  BY <1>7 DEF EpollWait, client, reader, Ready
<1>8. CASE acceptConn
  BY <1>8 DEF acceptConn, client, reader
<1>9. ASSUME NEW c \in Conn, recvMsg(c) PROVE TypeOK'
  BY <1>9, Empty DEF recvMsg, client, reader
<1>10. CASE readn_data
  <2>1. PICK n \in Nat : /\ cur \in Conn /\ rd[cur] + n <= Len(stream[cur])
                         /\ got' = got \o SubSeq(stream[cur], rd[cur] + 1, rd[cur] + n)
                         /\ rd' = [rd EXCEPT ![cur] = @ + n]
    BY <1>10, ReadnTakes, Zenon
  <2>2. stream[cur] \in Seq(Digit) /\ got \in Seq(Digit) /\ rd[cur] \in Nat
    BY <2>1 DEF Bytes
  <2>3. SubSeq(stream[cur], rd[cur] + 1, rd[cur] + n) \in Seq(Digit)
    BY <2>1, <2>2, SubSeqOf
  <2>4. got' \in Bytes
    BY <2>1, <2>2, <2>3, ConcatProperties DEF Bytes
  <2>5. rd' \in [Conn -> Nat]
    BY <2>1
  <2> QED BY <1>10, <2>4, <2>5 DEF readn_data, client, reader
<1>11. ASSUME BodyBegins, peer' \in [Conn -> {"up", "fin", "rst"}] PROVE TypeOK'
  <2>1. len' \in Nat
    BY <1>11, HeaderIntType DEF BodyBegins, Bytes
  <2> QED BY <1>11, <2>1, Empty DEF BodyBegins, client
<1>12. ASSUME AfterEnd PROVE peer' \in [Conn -> {"up", "fin", "rst"}]
  BY <1>12, Zenon DEF AfterEnd
<1>13. ASSUME NEW r \in Int, Return(r), peer' \in [Conn -> {"up", "fin", "rst"}], cur # None
       PROVE  TypeOK'
  <2>1. Append(log[cur], [ret |-> r, len |-> len, buf |-> got]) \in Printed
    <3>1. [ret |-> r, len |-> len, buf |-> got] \in [ret : Int, len : Nat, buf : Bytes] /\ cur \in Conn
      BY <1>13
    <3> QED BY <3>1, AppendProperties, Zenon DEF Printed
  <2>2. log' \in [Conn -> Printed]
    BY <1>13, <2>1, Zenon DEF Return
  <2>3. link' \in [Conn -> {"idle", "queued", "open", "closed"}]
    BY <1>13, Zenon DEF Return
  <2> QED BY <1>13, <2>2, <2>3 DEF Return, client
<1>14. CASE header_read
  BY <1>11, <1>14 DEF header_read
<1>15. CASE header_ends
  BY <1>11, <1>12, <1>15 DEF header_ends
<1>16. CASE body_read
  BY <1>13, <1>16 DEF body_read
<1>17. CASE body_ends
  <2>1. (IF peer[cur] = "rst" THEN -1 ELSE Len(got)) \in Int
    BY DEF Bytes
  <2> QED BY <1>12, <1>13, <1>17, <2>1 DEF body_ends, Ended
<1>18. CASE UNCHANGED vars
  BY <1>18 DEF vars, reader
<1> QED
  BY <1>1, <1>2, <1>3, <1>4, <1>5, <1>6, <1>7, <1>8, <1>9, <1>10, <1>14, <1>15, <1>16, <1>17, <1>18
  DEF Next, Server, Client

\* The types of what belongs to one connection.
LEMMA ConnTypes ==
    ASSUME TypeOK, NEW c \in Conn
    PROVE  /\ data[c] \in Seq(Digit) /\ stream[c] \in Seq(Digit) /\ got \in Seq(Digit)
           /\ Len(data[c]) \in Nat /\ Len(stream[c]) \in Nat /\ Len(got) \in Nat
           /\ rd[c] \in Nat /\ len \in Nat /\ Len(sent[c]) \in Nat /\ Len(log[c]) \in Nat
           /\ \A i \in 1 .. Len(sent[c]) :
                 /\ sent[c][i].at \in Nat /\ sent[c][i].msg \in Msg
                 /\ Len(sent[c][i].msg) \in Nat /\ Len(sent[c][i].msg) > 0
           /\ \A i \in 0 .. Len(sent[c]) : End(c, i) \in Nat
<1>1. /\ data[c] \in Seq(Digit) /\ stream[c] \in Seq(Digit) /\ got \in Seq(Digit)
      /\ rd[c] \in Nat /\ len \in Nat /\ sent[c] \in Calls /\ log[c] \in Printed
  BY DEF TypeOK, Bytes
<1>2. Len(sent[c]) \in Nat /\ \A i \in 1 .. Len(sent[c]) : sent[c][i] \in [at : Nat, msg : Msg]
  <2>1. sent[c] \in Seq([at : Nat, msg : Msg])
    BY <1>1 DEF Calls
  <2> QED BY <2>1, LenProperties, Zenon
<1>3. \A i \in 1 .. Len(sent[c]) : sent[c][i].at \in Nat /\ sent[c][i].msg \in Msg
  BY <1>2
<1>4. \A i \in 1 .. Len(sent[c]) : Len(sent[c][i].msg) \in Nat /\ Len(sent[c][i].msg) > 0
  BY <1>3, FrameShape
<1>5. \A i \in 0 .. Len(sent[c]) : End(c, i) \in Nat
  <2> SUFFICES ASSUME NEW i \in 0 .. Len(sent[c]) PROVE End(c, i) \in Nat
    OBVIOUS
  <2>1. CASE i = 0
    BY <2>1 DEF End
  <2>2. CASE i \in 1 .. Len(sent[c])
    <3>1. sent[c][i].at \in Nat /\ Len(sent[c][i].msg) \in Nat
      BY <1>3, <1>4, <2>2, Zenon
    <3>2. i # 0
      BY <2>2
    <3>3. End(c, i) = sent[c][i].at + HLen + Len(sent[c][i].msg)
      BY <3>2, Zenon DEF End
    <3>4. \A a, b \in Nat : a + HLen + b \in Nat
      BY DEF HLen
    <3> QED BY <3>1, <3>3, <3>4, Zenon
  <2> QED BY <2>1, <2>2, <1>2
<1>6. Len(log[c]) \in Nat
  BY <1>1 DEF Printed
<1> QED BY <1>1, <1>2, <1>3, <1>4, <1>5, <1>6

\* Frames end one behind the other.
LEMMA Ends ==
    ASSUME TypeOK, NEW c \in Conn, FramesInStream(c)
    PROVE  /\ \A i \in 1 .. Len(sent[c]) : End(c, i) = sent[c][i].at + HLen + Len(sent[c][i].msg)
           /\ \A i \in 0 .. Len(sent[c]) - 1 : sent[c][i + 1].at = End(c, i)
           /\ \A i, j \in 0 .. Len(sent[c]) : i < j => End(c, i) < End(c, j)
<1>1. \A i \in 1 .. Len(sent[c]) : End(c, i) = sent[c][i].at + HLen + Len(sent[c][i].msg)
  BY DEF End
<1>2. \A i \in 0 .. Len(sent[c]) - 1 : sent[c][i + 1].at = End(c, i)
  <2> SUFFICES ASSUME NEW i \in 0 .. Len(sent[c]) - 1 PROVE sent[c][i + 1].at = End(c, i)
    OBVIOUS
  <2>1. i + 1 \in 1 .. Len(sent[c]) /\ (i + 1) - 1 = i
    BY ConnTypes
  <2> QED BY <2>1 DEF FramesInStream, Layout
<1>3. ASSUME NEW i \in 0 .. Len(sent[c]), NEW j \in 0 .. Len(sent[c]), i < j PROVE End(c, i) < End(c, j)
  <2>0. Len(sent[c]) \in Nat
    BY ConnTypes
  <2>1. j \in 1 .. Len(sent[c]) /\ sent[c][j].at \in Nat /\ Len(sent[c][j].msg) \in Nat /\ Len(sent[c][j].msg) > 0
    <3>1. j \in 1 .. Len(sent[c])
      BY <1>3, <2>0
    <3> QED BY <3>1, ConnTypes, Zenon
  <2>2. End(c, i) <= sent[c][j].at
    <3>1. CASE i = 0
      BY <2>1, <3>1 DEF End
    <3>2. CASE i # 0
      <4>1. i \in 1 .. Len(sent[c])
        BY <1>3, <3>2, ConnTypes
      <4> QED BY <1>3, <2>1, <4>1 DEF FramesInStream, Layout
    <3> QED BY <3>1, <3>2
  <2>3. End(c, i) \in Nat /\ End(c, j) = sent[c][j].at + HLen + Len(sent[c][j].msg)
    BY <1>1, <2>1, ConnTypes
  <2>  QED BY <2>1, <2>2, <2>3 DEF HLen
<1> QED BY <1>1, <1>2, <1>3

\* The frames in the stream only depend on what was sent and written.
LEMMA FramesKept ==
    ASSUME NEW c \in Conn, sent'[c] = sent[c], stream'[c] = stream[c],
           peer'[c] = "up" => peer[c] = "up" /\ data'[c] = data[c]
    PROVE  /\ \A i : End(c, i)' = End(c, i) /\ Arrived(c, i)' = Arrived(c, i)
           /\ FramesInStream(c) => FramesInStream(c)'
<1>1. \A i : End(c, i)' = End(c, i) /\ Arrived(c, i)' = Arrived(c, i)
  BY DEF End, Arrived
<1>2. Layout(c)' <=> Layout(c)
  BY <1>1 DEF Layout
<1>3. Written(c)' <=> Written(c)
  BY <1>1 DEF Written
<1>4. data'[c] = data[c] => (Unwritten(c)' <=> Unwritten(c))
  BY <1>1, Zenon DEF Unwritten
<1> QED BY <1>1, <1>2, <1>3, <1>4 DEF FramesInStream

\* A connection is not affected by a step of the server with another one, nor by a step
\* of another client.
LEMMA Unaffected ==
    ASSUME NEW c \in Conn, ConnInv(c),
           data'[c] = data[c], sent'[c] = sent[c], peer'[c] = peer[c], stream'[c] = stream[c],
           rd'[c] = rd[c], log'[c] = log[c], link'[c] = "closed" => link[c] = "closed",
           (cur # c /\ cur' # c) \/ UNCHANGED reader
    PROVE  ConnInv(c)'
<1>1. \A i : End(c, i)' = End(c, i) /\ Arrived(c, i)' = Arrived(c, i)
  BY FramesKept
<1>2. FramesInStream(c)'
  BY FramesKept DEF ConnInv
<1>3. Exhausted(c)' <=> Exhausted(c)
  BY <1>1 DEF Exhausted
<1>4. Handed(c)'
  BY <1>1, <1>3 DEF ConnInv, Handed
<1>5. \A n : ReadTo(c, n)' <=> ReadTo(c, n)
  BY <1>1 DEF ReadTo
<1>6. ReaderPlace(c)'
  <2>1. CASE cur # c /\ cur' # c
    BY <1>3, <1>5, <2>1 DEF ConnInv, ReaderPlace
  <2>2. CASE UNCHANGED reader
    <3>1. cur' = cur /\ step' = step /\ got' = got /\ len' = len
      BY <2>2 DEF reader
    <3>2. InHeader(c)' <=> InHeader(c)
      BY <1>1, <1>5, <3>1 DEF InHeader
    <3>3. InBody(c)' <=> InBody(c)
      BY <1>1, <1>5, <3>1 DEF InBody
    <3> QED BY <1>3, <1>5, <3>1, <3>2, <3>3 DEF ConnInv, ReaderPlace
  <2> QED BY <2>1, <2>2
<1> QED BY <1>2, <1>3, <1>4, <1>6 DEF ConnInv

\* While the client is up and the server does nothing, the reader's place is kept: more
\* calls of sendMsg and more or fewer bytes behind what was read do not matter.
LEMMA ReaderKept ==
    ASSUME TypeOK, NEW c \in Conn, ConnInv(c), peer[c] = "up",
           rd'[c] = rd[c], log'[c] = log[c], UNCHANGED reader, rd[c] <= Len(stream'[c]),
           link'[c] = "closed" => link[c] = "closed",
           Len(sent'[c]) \in Nat, Len(sent[c]) <= Len(sent'[c]),
           \A i \in 1 .. Len(sent[c]) : sent'[c][i] = sent[c][i],
           \A k \in 1 .. rd[c] : stream'[c][k] = stream[c][k]
    PROVE  /\ rd'[c] <= Len(stream'[c]) /\ Handed(c)' /\ ReaderPlace(c)'
           /\ link'[c] = "closed" => Exhausted(c)'
<1>0. /\ Len(sent[c]) \in Nat /\ Len(log[c]) \in Nat /\ rd[c] \in Nat /\ Len(got) \in Nat
      /\ \A i \in 0 .. Len(sent[c]) : End(c, i) \in Nat
  BY ConnTypes
<1>1. ~Exhausted(c) /\ link[c] # "closed"
  BY DEF ConnInv, Exhausted
<1>2. \A i \in 0 .. Len(sent[c]) : End(c, i)' = End(c, i)
  BY <1>0 DEF End
<1>3. Len(log[c]) <= Len(sent[c]) /\ \A i \in 1 .. Len(log[c]) :
         Whole(log[c][i]) /\ log[c][i].buf = sent[c][i].msg /\ End(c, i) <= rd[c]
  BY <1>1 DEF ConnInv, Handed
<1>4. Handed(c)'
  <2>1. ASSUME NEW i \in 1 .. Len(log[c])
        PROVE  Whole(log'[c][i]) /\ log'[c][i].buf = sent'[c][i].msg /\ End(c, i)' <= rd'[c]
    <3>1. i \in 1 .. Len(sent[c]) /\ i \in 0 .. Len(sent[c])
      BY <1>0, <1>3
    <3> QED BY <1>2, <1>3, <3>1
  <2>2. Len(log'[c]) <= Len(sent'[c])
    BY <1>0, <1>3
  <2> QED BY <2>1, <2>2 DEF Handed
<1>5. End(c, Len(log[c]))' = End(c, Len(log[c])) /\ \A n : ReadTo(c, n)' <=> ReadTo(c, n)
  <2>1. Len(log[c]) \in 0 .. Len(sent[c])
    BY <1>0, <1>3
  <2> QED BY <1>2, <2>1 DEF ReadTo
<1>6. cur' = cur /\ step' = step /\ got' = got /\ len' = len
  BY DEF reader
<1>7. InHeader(c) => InHeader(c)'
  <2> SUFFICES ASSUME InHeader(c) PROVE InHeader(c)'
    OBVIOUS
  <2>1. Len(log[c]) \in 0 .. Len(sent[c])
    BY <1>0, <1>3
  <2>2. End(c, Len(log[c])) \in Nat
    BY <1>0, <2>1
  <2>3. \A k \in 1 .. Len(got) : End(c, Len(log[c])) + k \in 1 .. rd[c]
    BY <1>0, <2>2 DEF InHeader, ReadTo
  <2> QED BY <1>5, <1>6, <2>3 DEF InHeader
<1>8. InBody(c) => InBody(c)'
  <2> SUFFICES ASSUME InBody(c) PROVE InBody(c)'
    OBVIOUS
  <2>1. Len(log[c]) + 1 \in 1 .. Len(sent[c]) /\ Len(log'[c]) < Len(sent'[c])
    BY <1>0 DEF InBody
  <2>2. sent'[c][Len(log'[c]) + 1] = sent[c][Len(log[c]) + 1]
    BY <2>1
  <2> QED BY <1>5, <1>6, <2>1, <2>2 DEF InBody
<1>9. ReaderPlace(c)'
  BY <1>1, <1>5, <1>6, <1>7, <1>8 DEF ConnInv, ReaderPlace
<1> QED BY <1>1, <1>4, <1>9 DEF ConnInv

\* sendMsg adds a frame behind the others and hands all of it to writen.
LEMMA sendMsgStep ==
    ASSUME TypeOK, NEW c \in Conn, NEW m \in Msg, ConnInv(c), sendMsg(c, m)
    PROVE  ConnInv(c)'
<1>0. PICK n \in Nat, L \in Nat : n = Len(sent[c]) /\ L = Len(stream[c])
  BY ConnTypes
<1>1. /\ n \in Nat /\ L \in Nat /\ rd[c] \in Nat
      /\ \A i \in 0 .. n : End(c, i) \in Nat
  BY <1>0, ConnTypes
<1>2. /\ peer[c] = "up" /\ data[c] = <<>> /\ data'[c] = Frame(m)
      /\ sent'[c] = Append(sent[c], [at |-> L, msg |-> m])
      /\ peer' = peer /\ stream' = stream /\ rd' = rd /\ link' = link /\ log' = log
      /\ UNCHANGED reader
  BY <1>0 DEF sendMsg, TypeOK
<1>3. /\ Len(sent'[c]) = n + 1 /\ sent'[c][n + 1] = [at |-> L, msg |-> m]
      /\ \A i \in 1 .. n : sent'[c][i] = sent[c][i]
  <2>1. sent[c] \in Seq([at : Nat, msg : Msg]) /\ [at |-> L, msg |-> m] \in [at : Nat, msg : Msg]
    BY <1>1, Zenon DEF TypeOK, Calls
  <2> QED BY <1>0, <1>2, <2>1, AppendProperties
<1>4. Len(m) \in Nat /\ Len(Frame(m)) = HLen + Len(m)
  BY FrameShape
<1>5. L = End(c, n) /\ Layout(c) /\ Written(c)
  <2>1. L + 0 = End(c, n)
    BY <1>0, <1>2 DEF ConnInv, FramesInStream, Unwritten
  <2> QED BY <1>1, <2>1 DEF ConnInv, FramesInStream
<1>6. /\ \A i \in 0 .. n : End(c, i)' = End(c, i)
      /\ End(c, n + 1)' = L + HLen + Len(m)
  <2>1. ASSUME NEW i \in 0 .. n PROVE End(c, i)' = End(c, i)
    <3>1. i = 0 \/ i \in 1 .. n
      BY <1>1
    <3> QED BY <1>3, <3>1 DEF End
  <2>2. n + 1 # 0
    BY <1>1
  <2>3. End(c, n + 1)' = sent'[c][n + 1].at + HLen + Len(sent'[c][n + 1].msg)
    BY <2>2 DEF End
  <2>4. sent'[c][n + 1].at = L /\ sent'[c][n + 1].msg = m
    BY <1>3
  <2> QED BY <2>1, <2>3, <2>4
<1>7. Layout(c)'
  <2>1. ASSUME NEW i \in 1 .. n + 1 PROVE sent'[c][i].at = End(c, i - 1)'
    <3>1. CASE i = n + 1
      BY <1>1, <1>3, <1>5, <1>6, <3>1
    <3>2. CASE i \in 1 .. n
      <4>1. i - 1 \in 0 .. n
        BY <1>1, <3>2
      <4>2. sent[c][i].at = End(c, i - 1)
        BY <1>0, <1>5, <3>2 DEF Layout
      <4> QED BY <1>3, <1>6, <3>2, <4>1, <4>2
    <3> QED BY <1>1, <3>1, <3>2
  <2>2. ASSUME NEW i \in 1 .. n + 1, NEW j \in 1 .. n + 1, i < j PROVE End(c, i)' <= sent'[c][j].at
    <3>0. i \in 1 .. n /\ i \in 0 .. n
      BY <1>1, <2>2
    <3>1. CASE j = n + 1
      <4>1. End(c, i) <= End(c, n)
        <5>1. i < n => End(c, i) < End(c, n)
          <6>1. i \in 0 .. Len(sent[c]) /\ n \in 0 .. Len(sent[c]) /\ n = Len(sent[c])
            BY <1>0, <1>1, <3>0
          <6> QED BY <6>1, Ends DEF ConnInv
        <5>2. End(c, i) \in Nat /\ End(c, n) \in Nat
          BY <1>1, <3>0
        <5> QED BY <1>1, <3>0, <5>1, <5>2
      <4> QED BY <1>3, <1>5, <1>6, <3>0, <3>1, <4>1
    <3>2. CASE j \in 1 .. n
      BY <1>3, <1>5, <1>6, <2>2, <3>0, <3>2, <1>0 DEF Layout
    <3> QED BY <1>1, <3>1, <3>2
  <2> QED BY <1>3, <2>1, <2>2, Zenon DEF Layout
<1>8. Written(c)'
  <2>1. L <= End(c, n + 1)'
    BY <1>1, <1>4, <1>6 DEF HLen
  <2>2. ASSUME NEW i \in 1 .. n + 1, NEW k \in 1 .. HLen + Len(sent'[c][i].msg), sent'[c][i].at + k <= L
        PROVE  stream[c][sent'[c][i].at + k] = Frame(sent'[c][i].msg)[k]
    <3>1. CASE i = n + 1
      <4>1. L + k <= L /\ k \in 1 .. HLen + Len(m)
        BY <1>3, <2>2, <3>1
      <4>2. k \in Nat /\ k > 0
        BY <1>4, <4>1 DEF HLen
      <4> QED BY <4>1, <4>2
    <3>2. CASE i \in 1 .. n
      <4>1. sent'[c][i] = sent[c][i]
        BY <1>3, <3>2
      <4>2. k \in 1 .. HLen + Len(sent[c][i].msg) /\ sent[c][i].at + k <= Len(stream[c])
        BY <1>0, <2>2, <4>1, Zenon
      <4>3. stream[c][sent[c][i].at + k] = Frame(sent[c][i].msg)[k]
        BY <1>0, <1>5, <3>2, <4>2 DEF Written
      <4> QED BY <4>1, <4>3, Zenon
    <3> QED BY <1>1, <3>1, <3>2
  <2>3. Len(stream'[c]) = L /\ Len(sent'[c]) = n + 1 /\ stream'[c] = stream[c]
    BY <1>0, <1>2, <1>3
  <2>4. \A i \in 1 .. n + 1 : \A k \in 1 .. HLen + Len(sent'[c][i].msg) : sent'[c][i].at + k <= L =>
           stream[c][sent'[c][i].at + k] = Frame(sent'[c][i].msg)[k]
    BY <2>2
  <2> QED BY <2>1, <2>3, <2>4, Zenon DEF Written
<1>9. Unwritten(c)'
  <2>1. \A k \in 1 .. HLen + Len(m) : (HLen + Len(m)) - (HLen + Len(m)) + k = k
    BY <1>4 DEF HLen
  <2>2. sent'[c][n + 1].msg = m
    BY <1>3
  <2>3. L + Len(Frame(m)) = End(c, n + 1)'
    BY <1>1, <1>4, <1>6 DEF HLen
  <2>4. Len(stream'[c]) = L /\ Len(sent'[c]) = n + 1 /\ data'[c] = Frame(m)
    BY <1>0, <1>2, <1>3
  <2>5. HLen + Len(m) <= HLen + Len(m)
    BY <1>4 DEF HLen
  <2>6. \A k \in 1 .. HLen + Len(m) : Frame(m)[k] = Frame(m)[(HLen + Len(m)) - (HLen + Len(m)) + k]
    BY <2>1
  <2>7. Len(data'[c]) = HLen + Len(m)
    BY <1>4, <2>4
  <2>8. Len(stream'[c]) + Len(data'[c]) = End(c, n + 1)'
    BY <2>3, <2>4
  <2>9. \A k \in 1 .. Len(data'[c]) : data'[c][k] =
          Frame(sent'[c][n + 1].msg)[(HLen + Len(sent'[c][n + 1].msg)) - Len(data'[c]) + k]
    BY <2>2, <2>4, <2>6, <2>7, Zenon
  <2>10. Len(data'[c]) <= HLen + Len(sent'[c][n + 1].msg)
    BY <2>2, <2>5, <2>7
  <2> QED BY <2>4, <2>8, <2>9, <2>10, Zenon DEF Unwritten
<1>10. /\ rd'[c] <= Len(stream'[c]) /\ Handed(c)' /\ ReaderPlace(c)'
       /\ link'[c] = "closed" => Exhausted(c)'
  <2>1. rd[c] <= Len(stream'[c]) /\ Len(sent'[c]) \in Nat /\ Len(sent[c]) <= Len(sent'[c])
    BY <1>0, <1>1, <1>2, <1>3 DEF ConnInv
  <2> QED BY <1>0, <1>2, <1>3, <2>1, ReaderKept
<1> QED BY <1>7, <1>8, <1>9, <1>10 DEF ConnInv, FramesInStream

\* One round of writen moves a part of the last frame into the stream.
LEMMA writenStep ==
    ASSUME TypeOK, NEW c \in Conn, ConnInv(c), writen(c)
    PROVE  ConnInv(c)'
<1>0. PICK n \in Nat, L \in Nat, D \in Nat, m \in {sent[c][Len(sent[c])].msg} :
        n = Len(sent[c]) /\ L = Len(stream[c]) /\ D = Len(data[c]) /\ m = sent[c][n].msg
  BY ConnTypes, Zenon
<1>1. PICK w \in 1 .. D : /\ stream' = [stream EXCEPT ![c] = @ \o SubSeq(data[c], 1, w)]
                          /\ data' = [data EXCEPT ![c] = SubSeq(@, w + 1, Len(@))]
  BY <1>0, Zenon DEF writen
<1>2. /\ peer[c] = "up" /\ sent' = sent /\ peer' = peer /\ rd' = rd /\ link' = link /\ log' = log
      /\ UNCHANGED reader
  BY DEF writen
<1>3. rd[c] \in Nat /\ w \in Nat /\ w > 0 /\ w <= D
  BY ConnTypes
<1>3a. \A i \in 1 .. n : sent[c][i].at \in Nat /\ Len(sent[c][i].msg) \in Nat
  BY <1>0, ConnTypes, Zenon
<1>4. /\ Len(stream'[c]) = L + w
      /\ \A k \in 1 .. L : stream'[c][k] = stream[c][k]
      /\ \A k \in 1 .. w : stream'[c][L + k] = data[c][k]
  <2>1. data[c] \in Seq(Digit) /\ stream[c] \in Seq(Digit)
    BY ConnTypes
  <2> DEFINE s == SubSeq(data[c], 1, w)
  <2>2. s \in Seq(Digit) /\ Len(s) = w /\ \A k \in 1 .. w : s[k] = data[c][k]
    <3>1. /\ s \in Seq(Digit) /\ Len(s) = IF 1 <= w THEN w - 1 + 1 ELSE 0
          /\ \A i \in 1 .. w - 1 + 1 : s[i] = data[c][1 + i - 1]
      BY <1>0, <1>3, <2>1, SubSeqOf
    <3> QED BY <1>3, <3>1
  <2>3. stream'[c] = stream[c] \o s
    BY <1>1 DEF TypeOK
  <2> HIDE DEF s
  <2>4. /\ Len(stream[c] \o s) = L + Len(s)
        /\ \A i \in 1 .. L + Len(s) : (stream[c] \o s)[i] = IF i <= L THEN stream[c][i] ELSE s[i - L]
    BY <1>0, <2>1, <2>2, ConcatProperties, Zenon
  <2>5. \A i \in 1 .. L + w : stream'[c][i] = IF i <= L THEN stream[c][i] ELSE s[i - L]
    BY <2>2, <2>3, <2>4
  <2>6. ASSUME NEW k \in 1 .. w PROVE stream'[c][L + k] = data[c][k]
    <3>1. L + k \in 1 .. L + w /\ ~(L + k <= L) /\ (L + k) - L = k
      BY <1>3
    <3> QED BY <2>2, <2>5, <3>1
  <2>7. ASSUME NEW k \in 1 .. L PROVE stream'[c][k] = stream[c][k]
    <3>1. k \in 1 .. L + w /\ k <= L
      BY <1>3
    <3> QED BY <2>5, <3>1
  <2> QED BY <2>2, <2>3, <2>4, <2>6, <2>7, Zenon
<1>5. /\ Len(data'[c]) = D - w
      /\ \A k \in 1 .. D - w : data'[c][k] = data[c][w + k]
  <2>1. data[c] \in Seq(Digit) /\ data'[c] = SubSeq(data[c], w + 1, D)
    BY <1>0, <1>1, ConnTypes DEF TypeOK
  <2>2. /\ Len(data'[c]) = IF w + 1 <= D THEN D - (w + 1) + 1 ELSE 0
        /\ \A i \in 1 .. D - (w + 1) + 1 : data'[c][i] = data[c][(w + 1) + i - 1]
    BY <1>0, <1>3, <2>1, SubSeqOf
  <2> QED BY <1>3, <2>2
<1>6. L + D = End(c, n) /\ (n > 0 => D <= HLen + Len(m)) /\ End(c, n) \in Nat
  <2>1. n \in 0 .. n
    BY <1>3
  <2> QED BY <1>0, <1>2, <2>1, ConnTypes, Zenon DEF ConnInv, FramesInStream, Unwritten
<1>6a. /\ \A k \in 1 .. D : data[c][k] = Frame(m)[(HLen + Len(m)) - D + k]
      /\ Layout(c) /\ Written(c)
  BY <1>0, <1>2 DEF ConnInv, FramesInStream, Unwritten
<1>7. \A i : End(c, i)' = End(c, i)
  BY <1>2 DEF End
<1>8. n > 0 /\ sent[c][n].at \in Nat /\ Len(m) \in Nat /\ End(c, n) = sent[c][n].at + HLen + Len(m)
  <2>1. n > 0
    <3>1. SUFFICES ASSUME n = 0 PROVE FALSE
      BY <1>3
    <3>2. End(c, n) = 0
      BY <3>1 DEF End
    <3> QED BY <1>3, <1>6, <3>2
  <2>2. n \in 1 .. n
    BY <1>3, <2>1
  <2> QED BY <1>0, <1>3a, <2>1, <2>2 DEF End
<1>9. L = sent[c][n].at + ((HLen + Len(m)) - D)
  <2>1. PICK a \in Nat, b \in Nat : a = sent[c][n].at /\ b = Len(m)
    BY <1>8
  <2>2. L + D = a + HLen + b
    BY <1>6, <1>8, <2>1, Zenon
  <2>3. L = a + ((HLen + b) - D)
    BY <2>2 DEF HLen
  <2>4. L = sent[c][n].at + ((HLen + Len(m)) - D)
    BY <2>1, <2>3
  <2> QED BY <2>4
<1>10. Layout(c)'
  BY <1>2, <1>6a, <1>7 DEF Layout
<1>11. Written(c)'
  <2>1. L + w <= End(c, n)
    BY <1>3, <1>6
  <2>2. ASSUME NEW i \in 1 .. n, NEW k \in 1 .. HLen + Len(sent[c][i].msg), sent[c][i].at + k <= L + w
        PROVE  stream'[c][sent[c][i].at + k] = Frame(sent[c][i].msg)[k]
    <3>0. k \in Nat /\ k > 0 /\ sent[c][i].at \in Nat /\ Len(sent[c][i].msg) \in Nat
      BY <1>3a DEF HLen
    <3>1. CASE sent[c][i].at + k <= L
      <4>1. sent[c][i].at + k \in 1 .. L
        BY <3>0, <3>1
      <4> QED BY <1>4, <1>6a, <2>2, <3>1, <4>1, <1>0, ZenonT(30) DEF Written
    <3>2. CASE L < sent[c][i].at + k
      <4>1. i = n
        <5>1. SUFFICES ASSUME i < n PROVE FALSE
          BY <1>3
        <5>2. End(c, i) <= sent[c][n].at
          BY <1>3, <1>6a, <1>8, <5>1, <1>0 DEF Layout
        <5>3. End(c, i) = sent[c][i].at + HLen + Len(sent[c][i].msg)
          BY DEF End
        <5>4. sent[c][n].at <= L
          <6>1. PICK a \in Nat : a = sent[c][n].at
            BY <1>8
          <6> QED BY <1>3, <1>6, <1>8, <1>9, <6>1 DEF HLen
        <5>5. PICK a \in Nat, b \in Nat, e \in Nat :
                 a = sent[c][i].at /\ b = Len(sent[c][i].msg) /\ e = sent[c][n].at
          BY <1>8, <3>0, Zenon
        <5>6. a + HLen + b <= e /\ e <= L /\ L < a + k /\ k <= HLen + b
          BY <3>2, <5>2, <5>3, <5>4, <5>5
        <5> QED BY <1>3, <3>0, <5>6 DEF HLen
      <4>2. PICK d \in 1 .. w : sent[c][i].at + k = L + d
        <5>1. PICK a \in Nat : a = sent[c][i].at
          BY <3>0
        <5>2. a + k - L \in 1 .. w /\ a + k = L + (a + k - L)
          <6>1. a + k <= L + w /\ L < a + k
            BY <2>2, <3>2, <5>1
          <6> QED BY <1>3, <3>0, <6>1
        <5> QED BY <5>1, <5>2, Zenon
      <4>3. stream'[c][L + d] = Frame(m)[(HLen + Len(m)) - D + d]
        <5>1. d \in 1 .. D
          BY <1>3
        <5> QED BY <1>4, <1>6a, <5>1
      <4>4. (HLen + Len(m)) - D + d = k
        <5>1. PICK a \in Nat, b \in Nat : a = sent[c][n].at /\ b = Len(m)
          BY <1>8
        <5>2. L = a + ((HLen + b) - D) /\ a + k = L + d
          BY <1>9, <4>1, <4>2, <5>1, Zenon
        <5>3. (HLen + b) - D + d = k
          BY <3>0, <5>2 DEF HLen
        <5> QED BY <5>1, <5>3
      <4> QED BY <1>0, <4>1, <4>2, <4>3, <4>4
    <3> QED BY <3>0, <3>1, <3>2, <1>3
  <2> QED BY <1>0, <1>2, <1>4, <1>7, <2>1, <2>2, ZenonT(30) DEF Written
<1>12. Unwritten(c)'
  <2>1. (L + w) + (D - w) = End(c, n) /\ D - w <= HLen + Len(m)
    BY <1>3, <1>6, <1>8 DEF HLen
  <2>2. ASSUME NEW k \in 1 .. D - w PROVE data'[c][k] = Frame(m)[(HLen + Len(m)) - (D - w) + k]
    <3>1. w + k \in 1 .. D /\ (HLen + Len(m)) - D + (w + k) = (HLen + Len(m)) - (D - w) + k
      BY <1>3, <1>8 DEF HLen
    <3> QED BY <1>5, <1>6a, <3>1
  <2> QED BY <1>2, <1>4, <1>5, <1>7, <2>1, <2>2, <1>0, Zenon DEF Unwritten
<1>13. /\ rd'[c] <= Len(stream'[c]) /\ Handed(c)' /\ ReaderPlace(c)'
       /\ link'[c] = "closed" => Exhausted(c)'
  <2>1. rd[c] <= L
    BY <1>0 DEF ConnInv
  <2>2. rd[c] <= Len(stream'[c]) /\ \A k \in 1 .. rd[c] : stream'[c][k] = stream[c][k]
    BY <1>3, <1>4, <2>1
  <2> QED BY <1>0, <1>2, <1>3, <2>2, ReaderKept
<1> QED BY <1>10, <1>11, <1>12, <1>13, ZenonT(30) DEF ConnInv, FramesInStream

\* The end of a client leaves the reader at its place.
LEMMA ExitStep ==
    ASSUME TypeOK, NEW c \in Conn, ConnInv(c), Exit(c)
    PROVE  ConnInv(c)'
<1>1. /\ peer[c] = "up" /\ peer'[c] = "fin" /\ sent' = sent /\ stream' = stream
      /\ rd' = rd /\ link' = link /\ log' = log /\ UNCHANGED reader
  BY DEF Exit, TypeOK
<1>3. FramesInStream(c)'
  BY <1>1, FramesKept DEF ConnInv
<1>4. rd[c] <= Len(stream'[c]) /\ Len(sent'[c]) \in Nat /\ Len(sent[c]) <= Len(sent'[c])
  BY <1>1, ConnTypes DEF ConnInv
<1>5. /\ rd'[c] <= Len(stream'[c]) /\ Handed(c)' /\ ReaderPlace(c)'
      /\ link'[c] = "closed" => Exhausted(c)'
  BY <1>1, <1>4, ReaderKept
<1> QED BY <1>3, <1>5 DEF ConnInv

\* A reset cuts the stream behind what the server has read.
LEMMA ResetStep ==
    ASSUME TypeOK, NEW c \in Conn, ConnInv(c), Reset(c)
    PROVE  ConnInv(c)'
<1>1. /\ peer[c] = "up" /\ peer'[c] = "rst" /\ sent' = sent
      /\ rd' = rd /\ link' = link /\ log' = log /\ UNCHANGED reader
  BY DEF Reset, TypeOK, client
<1>2. PICK n \in rd[c] .. Len(stream[c]) : stream'[c] = SubSeq(stream[c], 1, n)
  BY DEF Reset, TypeOK
<1>3. /\ rd[c] \in Nat /\ Len(stream[c]) \in Nat /\ stream[c] \in Seq(Digit)
      /\ n \in Nat /\ rd[c] <= n /\ n <= Len(stream[c])
  <2>1. rd[c] \in Nat /\ Len(stream[c]) \in Nat /\ stream[c] \in Seq(Digit)
    BY ConnTypes
  <2> QED BY <2>1
<1>4. Len(stream'[c]) = n /\ \A k \in 1 .. n : stream'[c][k] = stream[c][k]
  <2>1. /\ Len(SubSeq(stream[c], 1, n)) = IF 1 <= n THEN n - 1 + 1 ELSE 0
        /\ \A i \in 1 .. n - 1 + 1 : SubSeq(stream[c], 1, n)[i] = stream[c][1 + i - 1]
    BY <1>3, SubSeqOf
  <2> QED BY <1>2, <1>3, <2>1
<1>5. \A i : End(c, i)' = End(c, i)
  BY <1>1 DEF End
<1>6. Layout(c)'
  BY <1>1, <1>5 DEF ConnInv, FramesInStream, Layout
<1>7. Written(c)'
  <2>1. Written(c)
    BY DEF ConnInv, FramesInStream
  <2>2. n <= End(c, Len(sent[c]))
    <3>1. Len(sent[c]) \in 0 .. Len(sent[c])
      BY ConnTypes
    <3>2. End(c, Len(sent[c])) \in Nat
      BY <3>1, ConnTypes
    <3> QED BY <1>3, <2>1, <3>2 DEF Written
  <2>3. ASSUME NEW i \in 1 .. Len(sent[c]), NEW k \in 1 .. HLen + Len(sent[c][i].msg), sent[c][i].at + k <= n
        PROVE  stream'[c][sent[c][i].at + k] = Frame(sent[c][i].msg)[k]
    <3>1. sent[c][i].at \in Nat /\ Len(sent[c][i].msg) \in Nat
      BY ConnTypes, Zenon
    <3>2. sent[c][i].at + k \in 1 .. n /\ sent[c][i].at + k <= Len(stream[c])
      BY <1>3, <2>3, <3>1 DEF HLen
    <3> QED BY <1>4, <2>1, <3>2, Zenon DEF Written
  <2> QED BY <1>1, <1>4, <1>5, <2>2, <2>3 DEF Written
<1>8. /\ rd'[c] <= Len(stream'[c]) /\ Handed(c)' /\ ReaderPlace(c)'
      /\ link'[c] = "closed" => Exhausted(c)'
  <2>1. rd[c] <= Len(stream'[c]) /\ \A k \in 1 .. rd[c] : stream'[c][k] = stream[c][k]
    BY <1>3, <1>4
  <2>2. Len(sent'[c]) \in Nat /\ Len(sent[c]) <= Len(sent'[c])
    BY <1>1, ConnTypes
  <2> QED BY <1>1, <2>1, <2>2, ReaderKept
<1> QED BY <1>1, <1>6, <1>7, <1>8, Zenon DEF ConnInv, FramesInStream

\* A sendMsg that fails on an ended connection changes nothing the reader depends on.
LEMMA sendMsg_failsStep ==
    ASSUME NEW c \in Conn, ConnInv(c), sendMsg_fails(c)
    PROVE  ConnInv(c)'
<1>1. /\ peer[c] # "up" /\ peer' = peer /\ sent' = sent /\ stream' = stream /\ rd' = rd
      /\ link' = link /\ log' = log /\ cur' = cur /\ step' = step /\ got' = got /\ len' = len
  BY DEF sendMsg_fails, reader
<1>2. \A i : End(c, i)' = End(c, i) /\ Arrived(c, i)' = Arrived(c, i)
  BY <1>1, FramesKept
<1>3. FramesInStream(c)'
  BY <1>1, FramesKept DEF ConnInv
<1>4. Exhausted(c)' <=> Exhausted(c)
  BY <1>1, <1>2 DEF Exhausted
<1>5. Handed(c)'
  BY <1>1, <1>2, <1>4 DEF ConnInv, Handed
<1>6. \A n : ReadTo(c, n)' <=> ReadTo(c, n)
  BY <1>1, <1>2, Zenon DEF ReadTo
<1>7. InHeader(c)' <=> InHeader(c)
  BY <1>1, <1>2, <1>6 DEF InHeader
<1>8. InBody(c)' <=> InBody(c)
  BY <1>1, <1>2, <1>6 DEF InBody
<1>9. ReaderPlace(c)'
  BY <1>1, <1>4, <1>6, <1>7, <1>8 DEF ConnInv, ReaderPlace
<1> QED BY <1>1, <1>3, <1>4, <1>5, <1>9 DEF ConnInv

\* recvMsg starts to read behind the last message handed over.
LEMMA recvMsgStep ==
    ASSUME TypeOK, NEW c \in Conn, ConnInv(c), recvMsg(c)
    PROVE  ConnInv(c)'
<1>1. /\ cur # c /\ cur' = c /\ step' = "head" /\ got' = <<>> /\ peer' = peer /\ data' = data
      /\ sent' = sent /\ stream' = stream /\ rd' = rd /\ link' = link /\ log' = log
  BY StickyAssumption DEF recvMsg, client
<1>2. \A i : End(c, i)' = End(c, i) /\ Arrived(c, i)' = Arrived(c, i)
  BY <1>1, FramesKept
<1>3. FramesInStream(c)'
  BY <1>1, FramesKept DEF ConnInv
<1>4. Exhausted(c)' <=> Exhausted(c)
  BY <1>1, <1>2 DEF Exhausted
<1>5. Handed(c)'
  BY <1>1, <1>2, <1>4 DEF ConnInv, Handed
<1>6. ReadTo(c, 0) => InHeader(c)'
  <2>1. ReadTo(c, 0)' <=> ReadTo(c, 0)
    BY <1>1, <1>2 DEF ReadTo
  <2>2. Len(got') = 0
    BY <1>1
  <2> QED BY <2>1, <2>2 DEF InHeader, HLen, ReadTo
<1>7. ReaderPlace(c)'
  BY <1>1, <1>4, <1>6 DEF ConnInv, ReaderPlace
<1> QED BY <1>1, <1>3, <1>4, <1>5, <1>7 DEF ConnInv

\* A recv with data moves the reader forward inside the header or inside the text.
LEMMA readn_dataStep ==
    ASSUME TypeOK, NEW c \in Conn, ConnInv(c), cur = c, readn_data
    PROVE  ConnInv(c)'
<1>1. /\ data' = data /\ sent' = sent /\ peer' = peer /\ stream' = stream /\ link' = link /\ log' = log
      /\ cur' = cur /\ step' = step /\ len' = len
  BY DEF readn_data, client
<1>2. PICK n \in Nat, r \in Nat, g \in Nat :
         /\ n > 0 /\ r + n <= Len(stream[c]) /\ g + n <= Want
         /\ r = rd[c] /\ g = Len(got) /\ rd'[c] = r + n
         /\ got' = got \o SubSeq(stream[c], r + 1, r + n)
  <2>1. PICK n \in Nat :
           /\ n > 0 /\ rd[cur] + n <= Len(stream[cur]) /\ Len(got) + n <= Want
           /\ got' = got \o SubSeq(stream[cur], rd[cur] + 1, rd[cur] + n)
           /\ rd' = [rd EXCEPT ![cur] = @ + n]
    BY ReadnTakes, Zenon
  <2>2. rd'[c] = rd[c] + n
    BY <2>1 DEF TypeOK
  <2>3. rd[c] \in Nat /\ Len(got) \in Nat
    BY ConnTypes
  <2> QED BY <2>1, <2>2, <2>3, Zenon
<1>3. /\ Len(got') = g + n
      /\ \A k \in 1 .. g : got'[k] = got[k]
      /\ \A k \in 1 .. n : got'[g + k] = stream[c][r + k]
  <2> DEFINE t == SubSeq(stream[c], r + 1, r + n)
  <2>1. stream[c] \in Seq(Digit) /\ got \in Seq(Digit) /\ Len(stream[c]) \in Nat
    BY ConnTypes
  <2>2. t \in Seq(Digit) /\ Len(t) = n /\ \A k \in 1 .. n : t[k] = stream[c][r + k]
    <3>1. PICK a \in Nat, b \in Nat : a = r + 1 /\ b = r + n
      OBVIOUS
    <3>0. n > 0
      BY <1>2
    <3>2. 1 <= a /\ a <= b /\ b - a + 1 = n
      BY <3>0, <3>1
    <3> HIDE DEF t
    <3>3. t = SubSeq(stream[c], a, b) /\ b <= Len(stream[c])
      BY <1>2, <3>1, Zenon DEF t
    <3>4. /\ t \in Seq(Digit) /\ Len(t) = IF a <= b THEN b - a + 1 ELSE 0
          /\ \A i \in 1 .. b - a + 1 : t[i] = stream[c][a + i - 1]
      <4>1. /\ SubSeq(stream[c], a, b) \in Seq(Digit)
            /\ Len(SubSeq(stream[c], a, b)) = IF a <= b THEN b - a + 1 ELSE 0
            /\ \A i \in 1 .. b - a + 1 : SubSeq(stream[c], a, b)[i] = stream[c][a + i - 1]
        <5>1. stream[c] \in Seq(Digit) /\ 1 <= a /\ b <= Len(stream[c])
          BY <2>1, <3>2, <3>3
        <5> QED BY <5>1, SubSeqOf
      <4> QED BY <3>3, <4>1, Zenon
    <3>5. \A i \in 1 .. n : a + i - 1 = r + i
      BY <3>1
    <3> QED BY <3>2, <3>4, <3>5, Zenon
  <2> HIDE DEF t
  <2>3. /\ Len(got \o t) = Len(got) + Len(t)
        /\ \A i \in 1 .. Len(got) + Len(t) : (got \o t)[i] = IF i <= Len(got) THEN got[i] ELSE t[i - Len(got)]
    BY <2>1, <2>2, ConcatProperties, Zenon
  <2>4. got' = got \o t
    BY <1>2 DEF t
  <2>5. Len(got') = g + n /\ \A i \in 1 .. g + n : got'[i] = IF i <= g THEN got[i] ELSE t[i - g]
    BY <1>2, <2>2, <2>3, <2>4, Zenon
  <2>6. ASSUME NEW k \in 1 .. g PROVE got'[k] = got[k]
    <3>1. k \in 1 .. g + n /\ k <= g
      BY <1>2
    <3> QED BY <2>5, <3>1
  <2>7. ASSUME NEW k \in 1 .. n PROVE got'[g + k] = stream[c][r + k]
    <3>1. g + k \in 1 .. g + n /\ ~(g + k <= g) /\ (g + k) - g = k
      OBVIOUS
    <3> QED BY <2>2, <2>5, <3>1
  <2> QED BY <2>5, <2>6, <2>7
<1>4. (\A i : End(c, i)' = End(c, i)) /\ FramesInStream(c)'
  BY <1>1, FramesKept DEF ConnInv
<1>5. ~Exhausted(c) /\ link[c] # "closed"
  <2>1. rd[c] # Len(stream[c])
    BY <1>2, ConnTypes
  <2> QED BY <2>1 DEF ConnInv, Exhausted
<1>6. /\ Len(log[c]) <= Len(sent[c]) /\ Len(log[c]) \in Nat /\ Len(sent[c]) \in Nat
      /\ \A i \in 1 .. Len(log[c]) :
            Whole(log[c][i]) /\ log[c][i].buf = sent[c][i].msg /\ End(c, i) <= rd[c]
  BY <1>5, ConnTypes, Zenon DEF ConnInv, Handed
<1>7. Handed(c)'
  <2>1. ASSUME NEW i \in 1 .. Len(log[c]) PROVE End(c, i) <= rd'[c]
    <3>1. i \in 0 .. Len(sent[c])
      BY <1>6
    <3>2. End(c, i) \in Nat
      BY <3>1, ConnTypes
    <3>3. End(c, i) <= r
      BY <1>2, <1>6
    <3> QED BY <1>2, <3>2, <3>3
  <2> QED BY <1>1, <1>4, <1>6, <2>1, ZenonT(30) DEF Handed
<1>8. PICK e \in Nat : e = End(c, Len(log[c]))
  <2>1. Len(log[c]) \in 0 .. Len(sent[c])
    BY <1>6
  <2> QED BY <2>1, ConnTypes
<1>9. End(c, Len(log[c]))' = e
  BY <1>1, <1>4, <1>8
<1>10. ASSUME step = "head" PROVE ReaderPlace(c)'
  <2>1. InHeader(c)
    BY <1>5, <1>10 DEF ConnInv, ReaderPlace
  <2>2. r = e + g /\ g + n <= HLen
    BY <1>2, <1>8, <1>10, <2>1 DEF InHeader, ReadTo, Want
  <2>3. r + n = e + (g + n)
    BY <2>2
  <2>4. ReadTo(c, Len(got))'
    BY <1>1, <1>2, <1>3, <1>6, <1>9, <2>3, Zenon DEF ReadTo
  <2>5. ASSUME NEW k \in 1 .. g + n PROVE got'[k] = stream[c][e + k]
    <3>1. CASE k \in 1 .. g
      BY <1>2, <1>3, <1>8, <2>1, <3>1, Zenon DEF InHeader
    <3>2. CASE ~(k \in 1 .. g)
      <4>1. k - g \in 1 .. n /\ g + (k - g) = k /\ r + (k - g) = e + k
        BY <2>2, <3>2
      <4>2. got'[g + (k - g)] = stream[c][r + (k - g)]
        BY <1>3, <4>1, Zenon
      <4> QED BY <4>1, <4>2
    <3> QED BY <3>1, <3>2
  <2>6. InHeader(c)'
    BY <1>1, <1>3, <1>9, <2>2, <2>4, <2>5 DEF InHeader
  <2> QED BY <1>1, <1>10, <2>6 DEF ReaderPlace
<1>11. ASSUME step = "body" PROVE ReaderPlace(c)'
  <2>1. InBody(c)
    BY <1>5, <1>11 DEF ConnInv, ReaderPlace
  <2> DEFINE i == Len(log[c]) + 1
  <2>2. PICK m : m = sent[c][i].msg
    OBVIOUS
  <2>3. /\ Len(log[c]) < Len(sent[c]) /\ len = Len(m) /\ g + n <= len
        /\ r = e + (HLen + g) /\ \A k \in 1 .. g : got[k] = m[k]
    BY <1>2, <1>8, <1>11, <2>1, <2>2, Zenon DEF InBody, ReadTo, Want
  <2>4. i \in 1 .. Len(sent[c]) /\ m \in Msg /\ Len(m) \in Nat /\ sent[c][i].at = e
    <3>1. i \in 1 .. Len(sent[c]) /\ i - 1 = Len(log[c])
      BY <1>6, <2>3
    <3> QED BY <1>8, <2>2, <3>1, ConnTypes, Zenon DEF ConnInv, FramesInStream, Layout
  <2>5. r + n = e + (HLen + (g + n))
    BY <2>3 DEF HLen
  <2>6. ReadTo(c, HLen + Len(got))'
    BY <1>1, <1>2, <1>3, <1>6, <1>9, <2>5, Zenon DEF ReadTo
  <2>7. ASSUME NEW k \in 1 .. g + n PROVE got'[k] = m[k]
    <3>1. CASE k \in 1 .. g
      BY <1>3, <2>3, <3>1
    <3>2. CASE ~(k \in 1 .. g)
      <4>1. k - g \in 1 .. n /\ g + (k - g) = k /\ r + (k - g) = e + (HLen + k)
        BY <2>3, <3>2 DEF HLen
      <4>2. got'[g + (k - g)] = stream[c][r + (k - g)]
        BY <1>3, <4>1
      <4>3. HLen + k \in 1 .. HLen + Len(m) /\ k \in 1 .. Len(m)
        BY <2>3, <2>4 DEF HLen
      <4>4. e + (HLen + k) <= Len(stream[c])
        <5>1. Len(stream[c]) \in Nat /\ e + (HLen + k) <= r + n
          BY <2>5, ConnTypes DEF HLen
        <5> QED BY <1>2, <5>1 DEF HLen
      <4>5. stream[c][e + (HLen + k)] = Frame(m)[HLen + k]
        BY <2>2, <2>4, <4>3, <4>4, Zenon DEF ConnInv, FramesInStream, Written
      <4>6. Frame(m)[HLen + k] = m[k]
        BY <2>4, <4>3, FrameShape
      <4> QED BY <4>1, <4>2, <4>5, <4>6
    <3> QED BY <3>1, <3>2
  <2>8. InBody(c)'
    BY <1>1, <1>3, <2>2, <2>3, <2>6, <2>7 DEF InBody
  <2> QED BY <1>1, <1>11, <2>8 DEF ReaderPlace
<1>12. ReaderPlace(c)'
  BY <1>10, <1>11 DEF TypeOK
<1>13. rd'[c] <= Len(stream'[c])
  BY <1>1, <1>2
<1> QED BY <1>1, <1>4, <1>5, <1>7, <1>12, <1>13 DEF ConnInv
=============================================================================
