------------------------------- MODULE LineIO -------------------------------
(***************************************************************************)
(* The functions that turn read and write into calls with a definite       *)
(* result: readline (eight of them), readn and writen.  read returns any   *)
(* number of the bytes that are there, may be interrupted and may fail.    *)
(*                                                                         *)
(* The bytes of a stream are numbered; lioNl says which are newlines.  One *)
(* thread calls the function until it returns 0; the readline of threads/  *)
(* is called by two, each on a descriptor of its own.                      *)
(***************************************************************************)
EXTENDS Integers, Sequences, SequencesExt

CONSTANTS
    LioBytes,   \* how many bytes each peer sends before it closes
    LioMaxline, \* maxlen, the size of the caller's buffer
    LioBuf,     \* the size of read_buf
    LioFaults   \* bound: interrupted reads and writes

ASSUME LioAssumption ==
    /\ LioBytes \in Nat /\ LioFaults \in Nat
    /\ LioMaxline \in Nat \ {0, 1} /\ LioBuf \in Nat \ {0}

VARIABLES
    lio,        \* the readline that is called
    lioNl,      \* which bytes are newlines
    lioGot,     \* per thread: bytes that read has returned
    lioCache,   \* per thread: read_buf from read_ptr on, read_cnt bytes
    lioLine,    \* per thread: what has been stored in the caller's buffer
    lioCalls,   \* per thread: the calls that have returned: [stored, ret]
    lioAt,      \* per thread: "out", "in" (readline), "done", "quit"
    lioKey,     \* rl_key, 0 before readline_once
    lioSpec,    \* per thread: the key under which its Rline is stored, 0 for none
    lioFaults

lioVars == <<lio, lioNl, lioGot, lioCache, lioLine, lioCalls, lioAt, lioKey, lioSpec, lioFaults>>

(***************************************************************************)
(* The versions: how much a read asks for, what an interrupted read does,  *)
(* whether end-of-file after part of a line returns the bytes stored (0)   *)
(* or one more (1), and whether the buffer belongs to the thread.          *)
(***************************************************************************)
lib_readline == [name |-> "lib", cap |-> LioBuf, eintr |-> "again", eof |-> 0, tsd |-> FALSE]
threads_readline == [name |-> "threads", cap |-> LioBuf, eintr |-> "again", eof |-> 0, tsd |-> TRUE]
server_readline == [name |-> "server", cap |-> 1, eintr |-> "fail", eof |-> 1, tsd |-> FALSE]
server_readline_r == [name |-> "server_r", cap |-> LioBuf, eintr |-> "again", eof |-> 1, tsd |-> FALSE]
readline1 == [name |-> "1", cap |-> 1, eintr |-> "again", eof |-> 0, tsd |-> FALSE]
readline2 == [name |-> "2", cap |-> LioBuf, eintr |-> "quit", eof |-> 0, tsd |-> FALSE]
readline3 == [name |-> "3", cap |-> LioBuf, eintr |-> "again", eof |-> 0, tsd |-> FALSE]
HEAD_Readline == [name |-> "HEAD", cap |-> 1, eintr |-> "again", eof |-> 0, tsd |-> FALSE]

LioVersions == {lib_readline, threads_readline, server_readline, server_readline_r,
                readline1, readline2, readline3, HEAD_Readline}

LioThread == {1, 2}

LioInit ==
    /\ lio \in LioVersions /\ lioNl \in SUBSET (1 .. LioBytes)
    /\ lioGot = [t \in LioThread |-> 0]
    /\ lioCache = [t \in LioThread |-> <<>>]
    /\ lioLine = [t \in LioThread |-> <<>>]
    /\ lioCalls = [t \in LioThread |-> <<>>]
    /\ lioAt = [t \in LioThread |-> IF t = 1 \/ lio.tsd THEN "out" ELSE "done"]
    /\ lioKey = 0 /\ lioSpec = [t \in LioThread |-> 0] /\ lioFaults = 0

\* Pthread_once and readline_once; Mutant: every call creates a key.
LioOnce_each(t) == lioKey + 1
LioOnce(t) == IF lioKey = 0 THEN 1 ELSE lioKey

\* readline is called; a thread without an Rline under rl_key gets an empty one.
LioCall(t) ==
    /\ lioAt[t] = "out"
    /\ lioAt' = [lioAt EXCEPT ![t] = "in"]
    /\ lioKey' = IF lio.tsd THEN LioOnce(t) ELSE 0
    /\ lioSpec' = [lioSpec EXCEPT ![t] = lioKey']
    /\ lioCache' = [lioCache EXCEPT ![t] = IF lioSpec[t] = lioKey' THEN @ ELSE <<>>]
    /\ UNCHANGED <<lio, lioNl, lioGot, lioLine, lioCalls, lioFaults>>

\* The call returns ret; Readline ends the process if it is negative.
LioReturn(t, stored, ret) ==
    /\ lioCalls' = [lioCalls EXCEPT ![t] = Append(@, [stored |-> stored, ret |-> ret])]
    /\ lioLine' = [lioLine EXCEPT ![t] = <<>>]
    /\ lioAt' = [lioAt EXCEPT ![t] = CASE ret = 0 -> "done" [] ret < 0 -> "quit" [] OTHER -> "out"]

LioIn(t) == lioAt[t] = "in" /\ UNCHANGED <<lio, lioNl, lioKey, lioSpec>>

\* my_read: the buffer is empty and read returns k bytes.
LioRead(t) ==
    /\ LioIn(t) /\ lioCache[t] = <<>>
    /\ \E k \in 1 .. lio.cap :
          /\ lioGot[t] + k <= LioBytes
          /\ lioGot' = [lioGot EXCEPT ![t] = @ + k]
          /\ lioCache' = [lioCache EXCEPT ![t] = [i \in 1 .. k |-> lioGot[t] + i]]
    /\ UNCHANGED <<lioLine, lioCalls, lioAt, lioFaults>>

\* One byte is stored.  The loop ends at a newline with n the number of bytes stored,
\* or when n has reached maxlen, which is one more.
LioTake(t) ==
    /\ LioIn(t) /\ lioCache[t] # <<>>
    /\ LET l == Append(lioLine[t], Head(lioCache[t])) IN
       IF Head(lioCache[t]) \in lioNl THEN LioReturn(t, l, Len(l))
       ELSE IF Len(l) = LioMaxline - 1 THEN LioReturn(t, l, Len(l) + 1)
       ELSE lioLine' = [lioLine EXCEPT ![t] = l] /\ UNCHANGED <<lioCalls, lioAt>>
    /\ lioCache' = [lioCache EXCEPT ![t] = Tail(@)]
    /\ UNCHANGED <<lioGot, lioFaults>>

\* Mutant: read is called again when it returns 0.
LioEof_again(t) == LioIn(t) /\ lioCache[t] = <<>> /\ lioGot[t] = LioBytes /\ UNCHANGED lioVars

LioEof(t) ==
    /\ LioIn(t) /\ lioCache[t] = <<>> /\ lioGot[t] = LioBytes
    /\ LET l == lioLine[t] IN LioReturn(t, l, IF l = <<>> THEN 0 ELSE Len(l) + lio.eof)
    /\ UNCHANGED <<lioGot, lioCache, lioFaults>>

\* read is interrupted: it is called again, or fails with what has been stored lost.
LioEintr(t) ==
    /\ LioIn(t) /\ lioCache[t] = <<>> /\ lioFaults < LioFaults
    /\ lioFaults' = lioFaults + 1
    /\ IF lio.eintr = "again" THEN UNCHANGED <<lioLine, lioCalls, lioAt>>
                              ELSE LioReturn(t, lioLine[t], -1)
    /\ UNCHANGED <<lioGot, lioCache>>

LioStep(t) == LioCall(t) \/ LioRead(t) \/ LioTake(t) \/ LioEof(t) \/ LioEintr(t)
LioNext == \E t \in LioThread : LioStep(t)

(***************************************************************************)
(* readn and writen: nioLeft of nioWant bytes are to be moved.             *)
(***************************************************************************)
VARIABLES
    nio,        \* the function that is called
    nioThere,   \* readn: how many bytes the peer sends before it closes
    nioPtr,     \* ptr, as the number of the byte before it
    nioLeft,    \* nleft
    nioMoved,   \* the bytes moved by read or write, in order
    nioRet,     \* what it has returned, NioRunning while it runs
    nioFaults

nioVars == <<nio, nioThere, nioPtr, nioLeft, nioMoved, nioRet, nioFaults>>

\* What the function takes for the number of bytes moved, when read or write has moved
\* k bytes or failed (-1).  HEAD.h's Readn stores the outcome of the comparison;
\* sock's writen compares an unsigned number with 0.
lib_readn == [name |-> "lib_readn", dir |-> "in", count |-> "k", test |-> "signed"]
HEAD_Readn == [name |-> "HEAD_Readn", dir |-> "in", count |-> "k < 0", test |-> "signed"]
lib_writen == [name |-> "lib_writen", dir |-> "out", count |-> "k", test |-> "signed"]
HEAD_Writen == [name |-> "HEAD_Writen", dir |-> "out", count |-> "k", test |-> "signed"]
sock_writen == [name |-> "sock_writen", dir |-> "out", count |-> "k", test |-> "unsigned"]

NioWant == LioBytes - 1
NioRunning == -2

NioVersions == {lib_readn, HEAD_Readn, lib_writen, HEAD_Writen, sock_writen}

NioInit ==
    /\ nio \in NioVersions /\ nioThere \in 0 .. LioBytes
    /\ nioPtr = 0 /\ nioLeft = NioWant /\ nioMoved = <<>>
    /\ nioRet = NioRunning /\ nioFaults = 0

NioRuns == nioRet = NioRunning /\ UNCHANGED <<nio, nioThere>>

\* nleft -= k, ptr += k, and the test of the loop.
NioAdvance(k) ==
    /\ nioPtr' = nioPtr + k /\ nioLeft' = nioLeft - k
    /\ nioRet' = IF nioLeft = k THEN NioWant ELSE NioRunning

\* read or write moves some of the bytes.  With "k < 0" for the count it is 0, which is
\* taken for the end of the file.
NioMove ==
    /\ NioRuns
    /\ \E k \in 1 .. nioLeft :
          /\ nio.dir = "in" => Len(nioMoved) + k <= nioThere
          /\ nioMoved' = nioMoved \o [i \in 1 .. k |-> nioPtr + i]
          /\ IF nio.count = "k" THEN NioAdvance(k)
             ELSE nioRet' = NioWant - nioLeft /\ UNCHANGED <<nioPtr, nioLeft>>
    /\ UNCHANGED nioFaults

\* read returns 0.
NioEof ==
    /\ NioRuns /\ nio.dir = "in" /\ Len(nioMoved) = nioThere
    /\ nioRet' = NioWant - nioLeft
    /\ UNCHANGED <<nioPtr, nioLeft, nioMoved, nioFaults>>

\* The call fails, interrupted or for good.  As an unsigned number -1 is not <= 0, and
\* one is taken from ptr and added to nleft.
NioFails ==
    /\ NioRuns /\ nioFaults < LioFaults
    /\ nioFaults' = nioFaults + 1
    /\ IF nio.test = "unsigned" THEN NioAdvance(-1)
       ELSE UNCHANGED <<nioPtr, nioLeft>> /\ nioRet' \in {NioRunning, -1}
    /\ UNCHANGED nioMoved

NioNext == NioMove \/ NioEof \/ NioFails

(***************************************************************************)
(* Properties.                                                             *)
(***************************************************************************)
LioStored(t) == FlattenSeq([i \in DOMAIN lioCalls[t] |-> lioCalls[t][i].stored])

\* However read cuts the stream, readline hands out every byte once and in order: what
\* the calls stored, what the present call has stored and what is left in the buffer
\* make up what was read.  Each thread of threads/readline.c has its own buffer.
LioNoByteLost ==
    \A t \in LioThread :
        LioStored(t) \o lioLine[t] \o lioCache[t] = [i \in 1 .. lioGot[t] |-> i]

LioIsLine(s) == \A i \in 1 .. Len(s) - 1 : s[i] \notin lioNl

\* What a call stores is one line, or as much of it as fits with the null byte, or the
\* end of the stream; the null byte always fits.
LioOneLine ==
    \A t \in LioThread : \A i \in DOMAIN lioCalls[t] :
        LET c == lioCalls[t][i] IN
        /\ LioIsLine(c.stored) /\ Len(c.stored) <= LioMaxline - 1
        /\ c.ret >= 0 /\ Len(c.stored) < LioMaxline - 1 =>
              c.stored = <<>> \/ Last(c.stored) \in lioNl \cup {LioBytes}

\* A line that ends in a newline is never returned with a count other than its length.
LioWholeLineCounted ==
    \A t \in LioThread : \A i \in DOMAIN lioCalls[t] :
        LET c == lioCalls[t][i] IN
        c.stored # <<>> /\ Last(c.stored) \in lioNl => c.ret = Len(c.stored)

\* A reader that calls readline until it returns 0 comes to the end of the stream; only
\* the versions that do not call read again after EINTR may end before.
LioEnds == <>(\A t \in LioThread :
                  \/ lioAt[t] = "done"
                  \/ lioAt[t] = "quit" /\ lio.eintr # "again")

\* readn and writen move the bytes in order and none of them twice, but for sock's
\* writen after a write that failed.
NioInOrder ==
    nioMoved = [i \in DOMAIN nioMoved |-> i] \/ (nio = sock_writen /\ nioFaults > 0)

\* readn returns what it has read, and less than was asked for only at end-of-file;
\* writen returns n only if all n bytes have been written.  HEAD.h's Readn does not.
NioRetIsMoved ==
    nioRet \notin {NioRunning, -1} /\ nio \notin {HEAD_Readn, sock_writen} =>
        /\ nioRet = Len(nioMoved)
        /\ nioRet < NioWant => nio.dir = "in" /\ nioMoved = [i \in 1 .. nioThere |-> i]

\* The line and byte functions in all their versions, for every cut of the stream, every
\* interruption and every fault: LioNoByteLost, LioOneLine and LioWholeLineCounted for
\* readline, NioInOrder and NioRetIsMoved for readn and writen.
LineSound ==
    LioNoByteLost /\ LioOneLine /\ LioWholeLineCounted /\ NioInOrder /\ NioRetIsMoved
=============================================================================
