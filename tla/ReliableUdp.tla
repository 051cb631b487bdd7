---------------------------- MODULE ReliableUdp ----------------------------
(***************************************************************************)
(* The UDP client that retransmits (src/unpv13e/rtt, lib/rtt.c): dg_cli    *)
(* asks one question after the other through dg_send_recv, which adds a    *)
(* sequence number and a timestamp, and sends again when SIGALRM arrives   *)
(* first; the server echoes.  Datagrams are lost, duplicated and           *)
(* reordered.                                                              *)
(*                                                                         *)
(* A timestamp is the number of the transmission it was taken for.  Of the *)
(* estimators of rtt_stop only the timeout they lead to is kept: any value *)
(* that rtt_minmax lets through.                                           *)
(***************************************************************************)
EXTENDS Integers, Sequences

CONSTANTS
    RTT_RXTMIN, RTT_RXTMAX, RTT_MAXNREXMT,
    FirstRto,       \* what rtt_init computes
    SeqMod,         \* the sequence number counts modulo SeqMod (2^32 in the code)
    MaxQuestions    \* bound: lines on standard input

ASSUME RttAssumption ==
    /\ RTT_RXTMIN \in Nat \ {0} /\ RTT_RXTMAX \in Nat /\ FirstRto \in RTT_RXTMIN .. RTT_RXTMAX
    /\ RTT_MAXNREXMT \in Nat /\ SeqMod \in Nat \ {0} /\ MaxQuestions \in Nat

VARIABLES
    step,       \* where the client is
    question,   \* number of the line being asked
    seq,        \* sendhdr.seq
    sends,      \* transmissions so far: the next timestamp
    first,      \* sends, when this question was first sent
    rto, nrexmt,
    clock,      \* the alarm clock: "on", "off"
    jmp,        \* jmpbuf: "unset", "dead" (its dg_send_recv has returned), "live"
    asked,      \* questions on the network or at the server: [seq, ts, question]
    answers,    \* answers on the network: the same, echoed
    recvhdr,    \* the answer last read
    answered    \* [question, answer] that dg_send_recv returned to dg_cli

timerVars == <<rto, nrexmt, clock, jmp>>
rttVars == <<step, question, seq, sends, first, timerVars, asked, answers, recvhdr, answered>>

NoAnswer == [seq |-> 0, ts |-> 0, question |-> 0]

RttInit ==
    /\ step = "fgets" /\ question = 0 /\ seq = 0 /\ sends = 0 /\ first = 0
    /\ rto = FirstRto /\ nrexmt = 0 /\ clock = "off" /\ jmp = "unset"
    /\ asked = {} /\ answers = {} /\ recvhdr = NoAnswer /\ answered = {}

(***************************************************************************)
(* dg_send_recv.                                                           *)
(***************************************************************************)

\* Fgets; the next sequence number; rtt_newpack.
NewPack ==
    /\ step = "fgets" /\ question < MaxQuestions
    /\ question' = question + 1
    /\ seq' = IF seq + 1 = SeqMod THEN 0 ELSE seq + 1
    /\ nrexmt' = 0
    /\ first' = sends /\ step' = "sendagain"
    /\ UNCHANGED <<sends, rto, clock, jmp, asked, answers, recvhdr, answered>>

Sendmsg ==
    /\ step = "sendagain"
    /\ asked' = asked \cup {[seq |-> seq, ts |-> sends + 1, question |-> question]}
    /\ sends' = sends + 1 /\ step' = "alarm"
    /\ UNCHANGED <<question, seq, first, timerVars, answers, recvhdr, answered>>

\* alarm(rtt_start()), then sigsetjmp.
StartTimer ==
    /\ step = "alarm"
    /\ clock' = "on" /\ step' = "setjmp"
    /\ UNCHANGED <<question, seq, sends, first, rto, nrexmt, jmp, asked, answers, recvhdr, answered>>

Setjmp ==
    /\ step = "setjmp"
    /\ jmp' = "live" /\ step' = "recvmsg"
    /\ UNCHANGED <<question, seq, sends, first, rto, nrexmt, clock, asked, answers, recvhdr, answered>>

\* Mutant: any answer is taken.
Recvmsg_any(a) ==
    /\ step = "recvmsg"
    /\ recvhdr' = a
    /\ step' = "answered"
    /\ UNCHANGED <<question, seq, sends, first, timerVars, asked, answers, answered>>

\* The do loop: an answer with another sequence number is dropped.
Recvmsg(a) ==
    /\ step = "recvmsg"
    /\ recvhdr' = a
    /\ step' = IF a.seq = seq THEN "answered" ELSE "recvmsg"
    /\ UNCHANGED <<question, seq, sends, first, timerVars, asked, answers, answered>>

StopTimer ==
    /\ step = "answered"
    /\ clock' = "off" /\ step' = "rtt_stop"
    /\ UNCHANGED <<question, seq, sends, first, rto, nrexmt, jmp, asked, answers, recvhdr, answered>>

\* The estimators give a timeout within the limits; the answer is returned.
rtt_stop ==
    /\ step = "rtt_stop"
    /\ rto' \in RTT_RXTMIN .. RTT_RXTMAX
    /\ answered' = answered \cup {[question |-> question, answer |-> recvhdr.question]}
    /\ jmp' = "dead" /\ step' = "fgets"
    /\ UNCHANGED <<question, seq, sends, first, nrexmt, clock, asked, answers, recvhdr>>

\* SIGALRM: siglongjmp into this call of dg_send_recv, and rtt_timeout; Dg_send_recv
\* ends the program once dg_send_recv has given up.
sig_alrm ==
    /\ clock = "on"
    /\ clock' = "off"
    /\ IF jmp = "live"
       THEN /\ rto' = 2 * rto /\ nrexmt' = nrexmt + 1
            /\ step' = IF nrexmt + 1 > RTT_MAXNREXMT THEN "quit" ELSE "sendagain"
       ELSE step' = "undefined" /\ UNCHANGED <<rto, nrexmt>>
    /\ UNCHANGED <<question, seq, sends, first, jmp, asked, answers, recvhdr, answered>>

dg_send_recv ==
    \/ NewPack \/ Sendmsg \/ StartTimer \/ Setjmp \/ StopTimer \/ rtt_stop
    \/ \E a \in answers : Recvmsg(a)

(***************************************************************************)
(* The server and the network.  What is sent may be delivered any number   *)
(* of times, in any order.                                                 *)
(***************************************************************************)
dg_echo_rtt ==
    /\ \E q \in asked \ answers : answers' = answers \cup {q}
    /\ UNCHANGED <<step, question, seq, sends, first, timerVars, asked, recvhdr, answered>>

RttNext == dg_send_recv \/ sig_alrm \/ dg_echo_rtt
RttSpec == RttInit /\ [][RttNext]_rttVars

(***************************************************************************)
(* Properties.                                                             *)
(***************************************************************************)

\* Every variable keeps its type; a question is sent at most RTT_MAXNREXMT + 1 times.
RttTypeOK ==
    /\ step \in {"fgets", "sendagain", "alarm", "setjmp", "recvmsg", "answered", "rtt_stop", "quit",
                 "undefined"}
    /\ question \in 0 .. MaxQuestions /\ seq \in 0 .. SeqMod - 1
    /\ sends \in Nat /\ first \in 0 .. sends /\ sends - first <= RTT_MAXNREXMT + 1
    /\ rto \in Nat /\ nrexmt \in 0 .. RTT_MAXNREXMT + 1
    /\ clock \in {"on", "off"} /\ jmp \in {"unset", "dead", "live"}

\* What dg_send_recv returns answers the question it was called with, though answers to
\* earlier questions and to earlier transmissions keep coming (as long as sequence
\* numbers have not wrapped round).
AnswersMatch == MaxQuestions < SeqMod => \A p \in answered : p.answer = p.question

\* The round-trip time is measured from a transmission of this question, never from one
\* of an earlier question: rtt_ts() - recvhdr.ts does not mix questions.
SampleIsOwn == MaxQuestions < SeqMod /\ step = "rtt_stop" => recvhdr.ts \in first + 1 .. sends

\* dg_cli gives up on a question only after its last retransmission has gone unanswered.
GivesUpAfterAll == step = "quit" => sends - first = RTT_MAXNREXMT + 1

\* The answers to come: each carries the sequence number of its question and the number
\* of a transmission of that question.
Message == [seq : Nat, ts : Nat, question : Nat]

\* Inductive: sequence number and timestamp each tell the questions apart, and the
\* retransmission count is the number of transmissions of this question.
RttInv ==
    /\ RttTypeOK
    /\ asked \subseteq Message /\ answers \subseteq asked /\ recvhdr \in Message
    /\ MaxQuestions < SeqMod =>
           /\ seq = question
           /\ \A m \in asked :
                  /\ m.seq = m.question /\ m.question <= question /\ m.ts <= sends
                  /\ m.question = question => m.ts > first
    /\ step \in {"answered", "rtt_stop"} => recvhdr \in answers /\ recvhdr.seq = seq
    /\ AnswersMatch
    /\ step = "sendagain" => sends - first = nrexmt
    /\ step \in {"alarm", "setjmp", "recvmsg", "answered", "rtt_stop"} => sends - first = nrexmt + 1
    /\ clock = "on" => step \in {"setjmp", "recvmsg", "answered"}
    /\ step \notin {"quit", "undefined"} => nrexmt <= RTT_MAXNREXMT
    /\ GivesUpAfterAll

\* Doubling on a timeout is all that takes the timeout out of its limits: it is back
\* within them once a question has been answered.
RtoWithinLimits ==
    /\ rto >= RTT_RXTMIN
    /\ rto <= RTT_RXTMAX * 2 ^ nrexmt
    /\ step = "fgets" => rto <= RTT_RXTMAX /\ clock = "off"

\* dg_cli comes to the end of its input, gives up, or (the alarm having come before the
\* first sigsetjmp of a call) is in an undefined state.
QuestionsFinish == <>(step \in {"quit", "undefined"} \/ (step = "fgets" /\ question = MaxQuestions))
=============================================================================
