---------------------------- MODULE MsgChannel ----------------------------
(***************************************************************************)
(* What sendMsg and recvMsg promise together: a channel of whole messages  *)
(* per connection, first in first out.  When the client ends in the middle *)
(* of a message, or the connection is reset, the receiver may get one      *)
(* damaged message, the last one it gets.                                  *)
(***************************************************************************)
EXTENDS Integers, Sequences

CONSTANTS Conn, Msg

VARIABLES
    chan,   \* Conn -> messages sent and not yet received
    recvd,  \* Conn -> what the receiver was given: [whole, buf]
    cut     \* Conn -> the client has ended

chvars == <<chan, recvd, cut>>

ChInit ==
    /\ chan = [c \in Conn |-> <<>>]
    /\ recvd = [c \in Conn |-> <<>>]
    /\ cut = [c \in Conn |-> FALSE]

Damaged(c) == recvd[c] # <<>> /\ ~recvd[c][Len(recvd[c])].whole

Put(c, m) ==
    /\ ~cut[c]
    /\ chan' = [chan EXCEPT ![c] = Append(@, m)]
    /\ UNCHANGED <<recvd, cut>>

Get(c) ==
    /\ chan[c] # <<>> /\ ~Damaged(c)
    /\ recvd' = [recvd EXCEPT ![c] = Append(@, [whole |-> TRUE, buf |-> Head(chan[c])])]
    /\ chan' = [chan EXCEPT ![c] = Tail(@)]
    /\ UNCHANGED cut

\* A message arrives damaged only after the end of the connection, as a proper
\* prefix of itself, and nothing arrives after it.
GetDamaged(c) ==
    /\ cut[c] /\ chan[c] # <<>> /\ ~Damaged(c)
    /\ \E n \in 0 .. Len(chan[c][1]) - 1 :
          recvd' = [recvd EXCEPT ![c] =
                      Append(@, [whole |-> FALSE, buf |-> SubSeq(chan[c][1], 1, n)])]
    /\ chan' = [chan EXCEPT ![c] = Tail(@)]
    /\ UNCHANGED cut

Cut(c) ==
    /\ cut' = [cut EXCEPT ![c] = TRUE]
    /\ UNCHANGED <<chan, recvd>>

ChNext ==
    \E c \in Conn :
        \/ \E m \in Msg : Put(c, m)
        \/ Get(c) \/ GetDamaged(c) \/ Cut(c)

ChSpec == ChInit /\ [][ChNext]_chvars
=============================================================================
