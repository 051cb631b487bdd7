----------------------------- MODULE MCStreams -----------------------------
(***************************************************************************)
(* The line and byte functions, the chat, udpcksum, the two pings and      *)
(* getaddrinfo, for TLC: each behaviour runs one of them, the others stay  *)
(* in their initial state.                                                 *)
(***************************************************************************)
EXTENDS LineIO, ChatServer, Alarms, GetAddrInfo

VARIABLE which

\* Two clients: one sends two lines, one only comes and goes.
MCChatLines == <<2, 0>>

\* Options of the BSD ping: none, -c 2, -c 2 -l 3, and -c 2 -f.
PingArgs ==
    {[npackets |-> 0, preload |-> 0, flood |-> "no"]}
    \cup [npackets : {2}, preload : {0, 3}, flood : {"no"}]
    \cup [npackets : {2}, preload : {0}, flood : {"yes"}]

\* Calls of getaddrinfo: the ordinary ones, and some of each unusual argument.
Calls ==
    [host : {"name"}, serv : {"null", "number", "name"}, flags : {{}, {"CANONNAME"}},
     family : {"UNSPEC"}, socktype : {"0"}]
    \cup [host : {"null", "v6", "name"}, serv : {"null", "name"}, flags : {{"CANONNAME"}},
          family : {"UNSPEC", "INET", "INET6"}, socktype : {"0", "STREAM"}]
    \cup [host : {"null", "v4"}, serv : {"number"}, flags : {{"PASSIVE"}, {"other"}},
          family : {"UNSPEC", "LOCAL", "other"}, socktype : {"0", "RAW", "other"}]
    \cup [host : {"/local"}, serv : {"path", "null"}, flags : {{}, {"PASSIVE", "CANONNAME"}},
          family : {"UNSPEC", "LOCAL", "INET"}, socktype : {"0", "DGRAM"}]

newVars == <<ukVars, pgVars, bpVars, gaVars>>
vars == <<which, lioVars, nioVars, chatVars, newVars>>

Init ==
    /\ which \in {"line", "bytes", "chat", "udpcksum", "ping", "bsdping", "getaddrinfo"}
    /\ LioInit /\ NioInit /\ ChatInit
    /\ which # "line" => lio = lib_readline /\ lioNl = {}
    /\ which # "bytes" => nio = lib_readn /\ nioThere = 0
    /\ UkInit /\ PgInit /\ BpInit /\ GaInit
    /\ which # "ping" => pgProto = "v4" /\ pgVerbose = 0
    /\ which # "bsdping" => bpArg = [npackets |-> 0, preload |-> 0, flood |-> "no"]
    /\ which # "getaddrinfo" => gaRes = "INET" /\ gaSvc = {} /\ gaArg =
        [host |-> "null", serv |-> "number", flags |-> {"PASSIVE"}, family |-> "UNSPEC", socktype |-> "0"]

Only(name, A, rest) == which = name /\ A /\ UNCHANGED <<which, rest>>

LioOnly(A) == Only("line", A, <<nioVars, chatVars, newVars>>)
NioOnly(A) == Only("bytes", A, <<lioVars, chatVars, newVars>>)
ChatOnly(A) == Only("chat", A, <<lioVars, nioVars, newVars>>)
Streams == <<lioVars, nioVars, chatVars>>
UkOnly(A) == Only("udpcksum", A, <<Streams, pgVars, bpVars, gaVars>>)
PgOnly(A) == Only("ping", A, <<Streams, ukVars, bpVars, gaVars>>)
BpOnly(A) == Only("bsdping", A, <<Streams, ukVars, pgVars, gaVars>>)
GaOnly(A) == Only("getaddrinfo", A, <<Streams, ukVars, pgVars, bpVars>>)

Next ==
    \/ LioOnly(LioNext) \/ NioOnly(NioNext) \/ ChatOnly(ChatNext)
    \/ UkOnly(UkNext) \/ PgOnly(PgNext) \/ BpOnly(BpNext) \/ GaOnly(getaddrinfo)

\* Every thread goes on as long as it can and alarms go off; the peers need not.
Fairness ==
    /\ \A t \in LioThread : WF_vars(LioOnly(LioStep(t)))
    /\ \A c \in ChatClient : WF_vars(ChatOnly(ChatLoopStep(c)))
    /\ WF_vars(UkOnly(test_udp)) /\ WF_vars(UkOnly(sig_alrm))
    /\ WF_vars(PgOnly(ping_sig_alrm)) /\ WF_vars(PgOnly(PgRuns))
    /\ WF_vars(BpOnly(BpRuns)) /\ WF_vars(BpOnly(BpAlarm))

Spec == Init /\ [][Next]_vars /\ Fairness

\* Readers come to the end of the stream (LioEnds), the chat server hands on what is sent
\* (ChatHandedOn), ping goes on and shows every reply (PgKeepsSending, PgShowsAll), and
\* udpcksum and the BSD ping with -c end (UkFinishes, BpFinishes).
StreamsLive ==
    /\ which = "line" => LioEnds
    /\ which = "chat" => ChatHandedOn
    /\ which = "udpcksum" => UkFinishes
    /\ which = "ping" => PgKeepsSending /\ PgShowsAll
    /\ which = "bsdping" => BpFinishes
=============================================================================
