--------------------------- MODULE MCEpollReactor ---------------------------
(***************************************************************************)
(* Small instances of EpollReactor for TLC.                                *)
(***************************************************************************)
EXTENDS EpollReactor, TLC

CONSTANTS c1, c2, c3, c4

TwoConns == {c1, c2}
FourConns == {c1, c2, c3, c4}
Symmetric == Permutations(Conn)

\* Bound: c1 and c2 talk alone; or c3 and c4 come after them, one beyond the slots and
\* one beyond the descriptors: then c1 sends a byte at most, and c1 and c4 may end.
Crowd ==
    \/ phase[c3] = "idle" /\ phase[c4] = "idle"
    \/ /\ \A c \in TwoConns : phase[c] # "idle"
       /\ phase[c4] # "idle" => phase[c3] # "idle"
       /\ \A c \in Conn : /\ sent[c] <= IF c = c1 THEN 1 ELSE 0
                          /\ fin[c] \/ rst[c] => c \in {c1, c4} /\ fin[c] # rst[c]

\* EpollReactor's FairSpec with the bound; it keeps back clients only.
CrowdSpec ==
    /\ Init /\ [][Next /\ Crowd']_vars
    /\ WF_vars(Server) /\ \A c \in Conn : WF_vars(ClientRead(c))
=============================================================================
