-------------------------- MODULE MCStickyPacket --------------------------
(***************************************************************************)
(* An instance of StickyPacket for TLC: a byte has two values.             *)
(***************************************************************************)
EXTENDS StickyPacket

CONSTANTS c1, c2

\* Messages of different lengths whose bytes look like parts of a header.
Msgs == {<<1>>, <<0, 1>>, <<0, 0, 1>>}

\* Bound: c1 alone, with any messages; or both with the message <<0, 1>> once each, c1 first.
Traffic ==
    \/ link[c2] = "idle"
    \/ /\ link[c1] # "idle"
       /\ \A c \in Conn : Len(sent[c]) <= 1 /\ \A k \in DOMAIN sent[c] : sent[c][k].msg = <<0, 1>>

\* StickyPacket's FairSpec with the bound; it keeps back clients only.
TrafficSpec ==
    /\ Init /\ [][Next /\ Traffic']_vars
    /\ WF_vars(Server) /\ \A c \in Conn : WF_vars(writen(c))
=============================================================================
