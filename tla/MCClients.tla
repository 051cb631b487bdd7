----------------------------- MODULE MCClients -----------------------------
(***************************************************************************)
(* The clients that copy in both directions, the clients that fetch files, *)
(* the servers that serve all connections from one loop, the modes of      *)
(* epoll and the sock program over TCP, for TLC: each behaviour runs one   *)
(* of them, the others stay in their initial state.                        *)
(***************************************************************************)
EXTENDS StrCli, WebClient, MuxServer, SockTool

VARIABLE which

\* What is typed to the two sides of sock.
MCTyped == [c |-> <<"x", "n", "x">>, s |-> <<"n", "r">>]

vars == <<which, strVars, nonbVars, webVars, muxVars, modeVars, skVars>>

Init ==
    /\ which \in {"str_cli", "nonblock", "web", "mux", "mode", "sock"}
    /\ StrCliInit /\ NonbInit /\ WebInit /\ MuxInit /\ ModeInit
    /\ which # "str_cli" => prog = tcpcli01 /\ buffering = "line"
    /\ which # "web" => client = web
    /\ which # "mux" => mux = select_c /\ limit = FD_SETSIZE
    /\ which # "mode" => mode = ET_nonblock
    /\ SkInit /\ (which # "sock" => \A e \in SkSide : skProg[e] = [body |-> "select", opt |-> "none"])

Only(name, A, rest) == which = name /\ A /\ UNCHANGED <<which, rest>>

StrStep(A) == Only("str_cli", A, <<nonbVars, webVars, muxVars, modeVars, skVars>>)
NonbStep(A) == Only("nonblock", A, <<strVars, webVars, muxVars, modeVars, skVars>>)
WebStep(A) == Only("web", A, <<strVars, nonbVars, muxVars, modeVars, skVars>>)
MuxStep(A) == Only("mux", A, <<strVars, nonbVars, webVars, modeVars, skVars>>)
ModeOnly(A) == Only("mode", A, <<strVars, nonbVars, webVars, muxVars, skVars>>)
SkOnly(A) == Only("sock", A, <<strVars, nonbVars, webVars, muxVars, modeVars>>)

Next ==
    \/ StrStep(StrCliNext) \/ NonbStep(NonbNext) \/ WebStep(WebNext) \/ MuxStep(MuxNext)
    \/ ModeOnly(ModeNext) \/ SkOnly(SkNext)

\* The programs and the server run; a write that select allows again and again takes
\* something at last.
Fairness ==
    /\ WF_vars(StrStep(copies)) /\ WF_vars(StrStep(reads)) /\ WF_vars(StrStep(Echo))
    /\ WF_vars(NonbStep(str_cli_nonb)) /\ WF_vars(NonbStep(NbEcho))
    /\ SF_vars(NonbStep(WriteStdout /\ nbShown' # nbShown)) /\ SF_vars(NonbStep(WriteSock /\ nbSent' # nbSent))
    /\ WF_vars(WebStep(webMain))
    /\ \A f \in Files : WF_vars(WebStep(do_get_read(f))) /\ WF_vars(WebStep(Answer(f)))
    /\ WF_vars(MuxStep(muxMain)) /\ WF_vars(ModeOnly(ModeRuns))
    /\ \A e \in SkSide : WF_vars(SkOnly(SkStep(e)))

Spec == Init /\ [][Next]_vars /\ Fairness

\* Clients end and servers answer: the echo clients show what is typed and end after their
\* input has (LineIsShown, CliFinishes, NonbFinishes), the web clients end or are stuck in
\* one of two known ways (WebFinishes, WebFinishesOrStuck), the multiplexing servers answer
\* and close (MuxServes), the epoll programs show all that is written (ModeShowsAll), and
\* both sides of sock end unless each waits for the other to read (SkFinishes).
ClientsLive ==
    /\ which = "str_cli" => CliFinishes /\ LineIsShown
    /\ which = "nonblock" => NonbFinishes
    /\ which = "web" => WebFinishes /\ WebFinishesOrStuck
    /\ which = "mux" => MuxServes
    /\ which = "mode" => ModeShowsAll
    /\ which = "sock" => SkFinishes
=============================================================================
