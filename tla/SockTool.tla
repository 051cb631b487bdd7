----------------------------- MODULE SockTool -----------------------------
(***************************************************************************)
(* The sock program of src/unpv13e/sock over TCP: a client "c" and a       *)
(* server "s", each copying its input and the connection (loop_tcp), or    *)
(* the client only writing (source_tcp) and the server only reading        *)
(* (sink_tcp), with the options that change what is sent or when the       *)
(* connection is closed: -h, -k, -Z, -c, -W.                               *)
(*                                                                         *)
(* A byte is "x", "n" (newline) or "r" (return).  What a socket has        *)
(* received holds at most SkCap bytes: a write waits for room.             *)
(***************************************************************************)
EXTENDS Integers, SequencesExt

CONSTANTS
    SkReadLen, SkWriteLen,      \* readlen, writelen
    SkMaxIov,                   \* UIO_MAXIOV
    SkNbuf,                     \* nbuf
    SkCap,                      \* bound: bytes a connection holds in one direction
    SkTyped                     \* the input of each side

VARIABLES
    skProg,             \* what each side runs, and its option
    skAt,               \* where it is
    skIn,               \* the input it has not read
    skReady,            \* what select has found
    skStdineof,         \* the end of its input has been seen (with -h)
    skPend,             \* the pieces dowrite has still to write
    skLeft,             \* the buffers source_tcp has still to write
    skNet,              \* what its socket has received and not handed out
    skFin, skRst,       \* the other side's FIN, or a reset, has come
    skOut,              \* what it has written to its output (the sink: received)
    skPeeked,           \* with -Z: what the peek of this turn has written already
    skEnd               \* why it closes

skIo == <<skIn, skReady, skStdineof, skPend, skLeft>>
skConn == <<skNet, skFin, skRst>>
skShown == <<skOut, skPeeked>>
skVars == <<skProg, skAt, skIo, skConn, skShown, skEnd>>

SkSide == {"c", "s"}
SkOther(e) == IF e = "c" THEN "s" ELSE "c"

\* main's dispatch: where the body of a program starts; -i makes the client a source
\* and the server a sink.
SkClients == [body : {"select"}, opt : {"none", "h", "k", "Z", "c"}]
             \cup [body : {"source"}, opt : {"none", "W"}]
SkServers == [body : {"select"}, opt : {"none", "h", "c"}] \cup [body : {"recv"}, opt : {"none", "Z"}]

SkInit ==
    /\ skProg \in [c : SkClients, s : SkServers]
    /\ skAt = [e \in SkSide |-> skProg[e].body] /\ skIn = SkTyped
    /\ skReady = [e \in SkSide |-> {}] /\ skStdineof = [e \in SkSide |-> 0]
    /\ skPend = [e \in SkSide |-> <<>>] /\ skLeft = [e \in SkSide |-> SkNbuf]
    /\ skNet = [e \in SkSide |-> <<>>]
    /\ skFin = [e \in SkSide |-> "no"] /\ skRst = [e \in SkSide |-> "no"]
    /\ skOut = [e \in SkSide |-> <<>>] /\ skPeeked = [e \in SkSide |-> <<>>] /\ skEnd = [e \in SkSide |-> "runs"]

SkHas(e, o) == skProg[e].opt = o
SkGo(e, from, to) == skAt[e] = from /\ skAt' = [skAt EXCEPT ![e] = to]

\* The side goes to close its socket, because of why.
SkLeaves(e, from, why) == SkGo(e, from, "close") /\ skEnd' = [skEnd EXCEPT ![e] = why]

(***************************************************************************)
(* crlf.c and write.c: what is written for what was read.                  *)
(***************************************************************************)
SkAdded(s) == FlattenSeq([i \in DOMAIN s |-> IF s[i] = "n" THEN <<"r", "n">> ELSE <<s[i]>>])
SkStripped(s) == SelectSeq(s, LAMBDA b : b # "r")

\* The test that the destination is big enough also fails when it is just big enough,
\* if there was a newline; "quit" stands for err_quit.
crlf_add(e, s) ==
    IF ~SkHas(e, "c") THEN s
    ELSE IF Len(s) > SkWriteLen \/ (Contains(s, "n") /\ Len(SkAdded(s)) >= SkWriteLen) THEN <<"quit">>
    ELSE SkAdded(s)

crlf_strip(e, s) ==
    IF ~SkHas(e, "c") THEN s
    ELSE IF SkStripped(s) # <<>> /\ Len(SkStripped(s)) >= SkWriteLen THEN <<"quit">>
    ELSE SkStripped(s)

SkChunk(n) ==
    IF n \div SkMaxIov <= 0 THEN 1
    ELSE IF n % SkMaxIov # 0 THEN n \div SkMaxIov + 1 ELSE n \div SkMaxIov

\* The pieces of SkChunk(n) bytes that -k writes one by one; err_quit if UIO_MAXIOV are
\* not enough.
dowrite(e, s) ==
    LET c == SkChunk(Len(s))
        count == (Len(s) + c - 1) \div c
    IN  IF ~SkHas(e, "k") THEN <<s>>
        ELSE IF count > SkMaxIov THEN <<<<"quit">>>>
        ELSE [i \in 1 .. count |-> SubSeq(s, (i - 1) * c + 1, IF i = count THEN Len(s) ELSE i * c)]

(***************************************************************************)
(* loop_tcp.                                                               *)
(***************************************************************************)
SkReadable(e) == skNet[e] # <<>> \/ skFin[e] = "yes" \/ skRst[e] # "no"

\* select: input may come at any time, until it has ended and been seen to.
SkSelect(e) ==
    /\ \E input \in BOOLEAN :
        /\ input => skStdineof[e] = 0
        /\ input \/ SkReadable(e)
        /\ skReady' = [skReady EXCEPT ![e] = (IF input THEN {"in"} ELSE {})
                                             \cup (IF SkReadable(e) THEN {"sock"} ELSE {})]
    /\ SkGo(e, "select", "stdin")
    /\ UNCHANGED <<skProg, skIn, skStdineof, skPend, skLeft, skConn, skShown, skEnd>>

\* Input: what dowrite will write, or the end of input.
SkStdin(e) ==
    LET n == IF Len(skIn[e]) < SkReadLen THEN Len(skIn[e]) ELSE SkReadLen
        written == dowrite(e, crlf_add(e, SubSeq(skIn[e], 1, n)))
    IN  /\ n > 0 /\ "in" \in skReady[e]
        /\ skIn' = [skIn EXCEPT ![e] = SubSeq(@, n + 1, Len(@))]
        /\ IF written = <<<<"quit">>>> THEN SkLeaves(e, "stdin", "quit") /\ UNCHANGED skPend
           ELSE /\ SkGo(e, "stdin", "write") /\ skPend' = [skPend EXCEPT ![e] = written]
                /\ UNCHANGED skEnd
        /\ UNCHANGED <<skProg, skReady, skStdineof, skLeft, skConn, skShown>>

\* End of input: with -h the connection is closed for writing only.
SkInputEnds(e) ==
    /\ skIn[e] = <<>> /\ "in" \in skReady[e]
    /\ IF SkHas(e, "h")
       THEN /\ SkGo(e, "stdin", "select") /\ skStdineof' = [skStdineof EXCEPT ![e] = 1]
            /\ skFin' = [skFin EXCEPT ![SkOther(e)] = "yes"] /\ UNCHANGED skEnd
       ELSE SkLeaves(e, "stdin", "input") /\ UNCHANGED <<skStdineof, skFin>>
    /\ UNCHANGED <<skProg, skIn, skReady, skPend, skLeft, skNet, skRst, skShown>>

SkNoInput(e) ==
    /\ "in" \notin skReady[e] /\ SkGo(e, "stdin", IF "sock" \in skReady[e] THEN "recv" ELSE "select")
    /\ UNCHANGED <<skProg, skIo, skConn, skShown, skEnd>>

(***************************************************************************)
(* write(2): as much as there is room for at a time.  The side that has    *)
(* gone answers with a reset, sooner or later.                             *)
(***************************************************************************)
SkGone(e) == skAt[e] = "gone"

SkPut(e, bytes) ==
    LET o == SkOther(e)
    IN  IF SkGone(o) THEN /\ \E r \in {"no", "reset"} : skRst' = [skRst EXCEPT ![e] = r]
                          /\ UNCHANGED skNet
                     ELSE skNet' = [skNet EXCEPT ![o] = @ \o bytes] /\ UNCHANGED skRst

SkRoom(e) == IF SkGone(SkOther(e)) THEN 1 ELSE SkCap - Len(skNet[SkOther(e)])

SkAfter(e, n) ==
    LET piece == Head(skPend[e])
    IN  IF n < Len(piece) THEN <<SubSeq(piece, n + 1, Len(piece))>> \o Tail(skPend[e])
                          ELSE Tail(skPend[e])

SkWrite(e) ==
    LET piece == Head(skPend[e])
        n == IF SkRoom(e) < Len(piece) THEN SkRoom(e) ELSE Len(piece)
    IN  /\ skRst[e] = "no" /\ skPend[e] # <<>> /\ n > 0
        /\ SkPut(e, SubSeq(piece, 1, n))
        /\ skPend' = [skPend EXCEPT ![e] = SkAfter(e, n)]
        /\ SkGo(e, "write", IF skPend'[e] # <<>> THEN "write"
                            ELSE IF "sock" \in skReady[e] THEN "recv" ELSE skProg[e].body)
        /\ UNCHANGED <<skProg, skIn, skReady, skStdineof, skLeft, skFin, skShown, skEnd>>

\* The write fails after a reset: err_sys, or SIGPIPE.
SkWriteFails(e) ==
    /\ skRst[e] # "no" /\ SkLeaves(e, "write", "dead")
    /\ ~(skProg[e].body = "source" /\ SkHas(e, "W"))
    /\ UNCHANGED <<skProg, skIo, skConn, skShown>>

(***************************************************************************)
(* The socket: loop_tcp and sink_tcp; recv hands out all there is, up to   *)
(* readlen.  With -Z it is written to the output without being taken, then *)
(* recv is called again and the result written again.                      *)
(***************************************************************************)
SkTake(e) == IF Len(skNet[e]) < SkReadLen THEN Len(skNet[e]) ELSE SkReadLen

\* What a turn writes for n bytes; the sink writes nothing and only counts them.
SkShow(e, n) ==
    IF skProg[e].body = "recv" THEN SubSeq(skNet[e], 1, n) ELSE crlf_strip(e, SubSeq(skNet[e], 1, n))

SkRecv(e) ==
    LET n == SkTake(e)
    IN  /\ n > 0 /\ skAt[e] \in {"recv", "oncemore"}
        /\ IF SkHas(e, "Z") /\ skAt[e] = "recv"
           THEN /\ SkGo(e, "recv", "oncemore") /\ skPeeked' = [skPeeked EXCEPT ![e] = SkShow(e, n)]
                /\ UNCHANGED <<skNet, skOut, skEnd>>
           ELSE /\ skNet' = [skNet EXCEPT ![e] = SubSeq(@, n + 1, Len(@))]
                /\ skPeeked' = [skPeeked EXCEPT ![e] = <<>>]
                /\ IF SkShow(e, n) = <<"quit">> THEN SkLeaves(e, skAt[e], "quit") /\ UNCHANGED skOut
                   ELSE /\ SkGo(e, skAt[e], skProg[e].body) /\ UNCHANGED skEnd
                        /\ skOut' = [skOut EXCEPT ![e] = @ \o SkShow(e, n)]
        /\ UNCHANGED <<skProg, skIo, skFin, skRst>>

\* Mutant: the end is taken before the data.
SkRecvEnds_early(e) ==
    /\ skAt[e] \in {"recv", "oncemore"}
    /\ \/ skFin[e] = "yes" /\ skRst[e] = "no" /\ SkLeaves(e, skAt[e], "eof")
       \/ skRst[e] # "no" /\ SkLeaves(e, skAt[e], "dead")
    /\ UNCHANGED <<skProg, skIo, skConn, skShown>>

\* recv returns 0, or fails after a reset.
SkRecvEnds(e) ==
    /\ SkTake(e) = 0 /\ skAt[e] \in {"recv", "oncemore"}
    /\ \/ skFin[e] = "yes" /\ skRst[e] = "no" /\ SkLeaves(e, skAt[e], "eof")
       \/ skRst[e] # "no" /\ SkLeaves(e, skAt[e], "dead")
    /\ UNCHANGED <<skProg, skIo, skConn, skShown>>

(***************************************************************************)
(* source_tcp: nbuf buffers; with -W a failed write is reported, the error *)
(* cleared, and the next write raises SIGPIPE.                             *)
(***************************************************************************)
SkFillBuffer(e) ==
    /\ IF skLeft[e] = 0
       THEN SkLeaves(e, "source", "source") /\ UNCHANGED <<skPend, skLeft>>
       ELSE /\ SkGo(e, "source", "write") /\ UNCHANGED skEnd
            /\ skPend' = [skPend EXCEPT ![e] = <<[i \in 1 .. SkWriteLen |-> "x"]>>]
            /\ skLeft' = [skLeft EXCEPT ![e] = @ - 1]
    /\ UNCHANGED <<skProg, skIn, skReady, skStdineof, skConn, skShown>>

ignorewerr(e) ==
    /\ skProg[e].body = "source" /\ SkHas(e, "W") /\ skRst[e] # "no"
    /\ \/ /\ skRst[e] = "reset" /\ skRst' = [skRst EXCEPT ![e] = "broken"]
          /\ SkGo(e, "write", "source") /\ skPend' = [skPend EXCEPT ![e] = <<>>] /\ UNCHANGED skEnd
       \/ SkLeaves(e, "write", "dead") /\ UNCHANGED <<skRst, skPend>>
    /\ UNCHANGED <<skProg, skIn, skReady, skStdineof, skLeft, skNet, skFin, skShown>>

(***************************************************************************)
(* close, also by exit: a reset if something was not read, which may       *)
(* overtake what the other side has not received yet; a FIN otherwise.     *)
(***************************************************************************)
SkClose(e) ==
    LET o == SkOther(e)
    IN  /\ SkGo(e, "close", "gone")
        /\ IF SkGone(o) THEN UNCHANGED <<skNet, skFin, skRst>>
           ELSE IF skNet[e] # <<>>
           THEN /\ skRst' = [skRst EXCEPT ![o] = IF @ = "broken" THEN @ ELSE "reset"]
                /\ \E n \in 0 .. Len(skNet[o]) : skNet' = [skNet EXCEPT ![o] = SubSeq(@, 1, n)]
                /\ UNCHANGED skFin
           ELSE skFin' = [skFin EXCEPT ![o] = "yes"] /\ UNCHANGED <<skNet, skRst>>
        /\ UNCHANGED <<skProg, skIo, skShown, skEnd>>

SkReceives(e) == SkRecv(e) \/ SkRecvEnds(e)

loop_tcp(e) ==
    /\ skProg[e].body = "select"
    /\ \/ SkSelect(e) \/ SkStdin(e) \/ SkInputEnds(e) \/ SkNoInput(e)
       \/ SkWrite(e) \/ SkWriteFails(e) \/ SkReceives(e)

sink_tcp(e) == skProg[e].body = "recv" /\ SkReceives(e)

source_tcp(e) ==
    /\ skProg[e].body = "source"
    /\ SkFillBuffer(e) \/ SkWrite(e) \/ SkWriteFails(e) \/ ignorewerr(e)

SkStep(e) == loop_tcp(e) \/ sink_tcp(e) \/ source_tcp(e) \/ SkClose(e)

SkNext == \E e \in SkSide : SkStep(e)

SkSpec == SkInit /\ [][SkNext]_skVars

(***************************************************************************)
(* Properties.                                                             *)
(***************************************************************************)

\* What side e has sent if all it has read has been written: its input, or its buffers.
SkSource(e) ==
    IF skProg[e].body = "source"
    THEN [i \in 1 .. SkWriteLen * (SkNbuf - skLeft[e]) |-> "x"]
    ELSE LET s == SubSeq(SkTyped[e], 1, Len(SkTyped[e]) - Len(skIn[e]))
         IN  IF SkHas(e, "c") THEN SkAdded(s) ELSE s

SkShows(e) ==
    LET s == SkSource(SkOther(e))
    IN  IF SkHas(e, "c") /\ skProg[e].body # "recv" THEN SkStripped(s) ELSE s

\* However reads, pieces and partial writes cut the stream, each side writes a prefix of
\* what the other has sent, once each and in order; -c on both sides gives the input
\* back without its returns.  What -Z writes ahead is what comes next.
SkInOrder == \A e \in SkSide : IsPrefix(skOut[e] \o skPeeked[e], SkShows(e))

\* A side that ends because recv returned 0 has shown everything, if the other did not
\* die with something unwritten: -h and the order of the tests in the loop see to it.
SkEofMeansAll ==
    \A e \in SkSide :
        skEnd[e] = "eof" /\ skEnd[SkOther(e)] \notin {"dead", "quit"} => skOut[e] = SkShows(e)

\* If each side has -h or only reads, both end because recv returned 0.
SkHalfClosed ==
    (\A e \in SkSide : SkHas(e, "h") \/ skProg[e].body = "recv")
        => \A e \in SkSide : skEnd[e] \in {"runs", "eof"}

\* dowrite's err_quit is never met, and crlf.c's only with -c.
SkQuitsOnlyForSize == \A e \in SkSide : skEnd[e] = "quit" => SkHas(e, "c")

\* Both sides wait in write for room that only the other's reading could make.
SkBothWrite == \A e \in SkSide : skAt[e] = "write" /\ skRst[e] = "no" /\ SkRoom(e) = 0

\* Both programs end once their input has, except when each waits for the other to read.
SkFinishes == <>((\A e \in SkSide : SkGone(e)) \/ SkBothWrite)

\* What the two sides show, and why they end: SkInOrder, SkEofMeansAll, SkHalfClosed and
\* SkQuitsOnlyForSize.
SkSound == SkInOrder /\ SkEofMeansAll /\ SkHalfClosed /\ SkQuitsOnlyForSize
=============================================================================
