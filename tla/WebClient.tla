------------------------------ MODULE WebClient ------------------------------
(***************************************************************************)
(* The clients that fetch several files over at most maxnconn connections: *)
(* src/unpv13e/nonblock/web.c with select and nonblocking connects, and    *)
(* src/unpv13e/threads/web01.c, web02.c and web03.c with a thread for each *)
(* file, which differ in how the main thread learns that one is done.      *)
(***************************************************************************)
EXTENDS Integers, FiniteSets

CONSTANTS
    Files,      \* the files: 1 .. nfiles
    maxnconn    \* argv[1]

\* main leaves with its usage message when there is no file.
ASSUME WebAssumption == maxnconn \in Nat \ {0} /\ IsFiniteSet(Files) /\ Files \subseteq Nat /\ Files # {}

(***************************************************************************)
(*   wait    how the main thread waits: "select", "join" (any thread),     *)
(*           "poll" (tests ndone), "cond" (waits while ndone is 0)         *)
(*   mark    F_CONNECTING is stored "before" or "after" pthread_create     *)
(***************************************************************************)
Web(wait, mark) == [wait |-> wait, mark |-> mark]

web == Web("select", "before")
web01 == Web("join", "before")
web02 == Web("poll", "after")
web03 == Web("cond", "before")

VARIABLES
    client,
    f_flags,        \* of each file: "0", "CONNECTING", "READING", "DONE", "JOINED"
    nconn, nlefttoconn, nlefttoread, ndone,
    worker,         \* of each file: where its thread is, "none" without one
    mutex,          \* who holds ndone_mutex: "free", "main" or a file's thread
    webAt,          \* where the main loop is
    scan,           \* the files that the loop over file[] has still to look at
    page            \* of each file: "waiting", "sent", "failed" (what its server has done)

counters == <<nconn, nlefttoconn, nlefttoread, ndone>>
webVars == <<client, f_flags, counters, worker, mutex, webAt, scan, page>>

WebInit ==
    /\ client \in {web, web01, web02, web03}
    /\ f_flags = [f \in Files |-> "0"]
    /\ nconn = 0 /\ nlefttoconn = Cardinality(Files) /\ nlefttoread = Cardinality(Files) /\ ndone = 0
    /\ worker = [f \in Files |-> "none"] /\ mutex = "free"
    /\ webAt = "home" /\ scan = {} /\ page = [f \in Files |-> "waiting"]

Lives == webAt \notin {"done", "error"}

\* The server of a file answers all of it and closes, or resets the connection.
Answer(f) ==
    /\ page[f] = "waiting" /\ f_flags[f] # "0" /\ Lives
    /\ \E p \in {"sent", "failed"} : page' = [page EXCEPT ![f] = p]
    /\ UNCHANGED <<client, f_flags, counters, worker, mutex, webAt, scan>>

\* The home page is fetched first, over a connection of its own.
home_page ==
    /\ webAt = "home" /\ webAt' \in {"start", "error"}
    /\ page' = IF webAt' = "error" THEN [f \in Files |-> "failed"] ELSE page
    /\ UNCHANGED <<client, f_flags, counters, worker, mutex, scan>>

\* The GET command has been written: F_READING.
write_get_cmd(f) == f_flags' = [f_flags EXCEPT ![f] = "READING"]

(***************************************************************************)
(* main: connections are started while there may be more of them.          *)
(***************************************************************************)
LowestFile(f) == f_flags[f] = "0" /\ \A g \in Files : f_flags[g] = "0" => f <= g

MayStart == nconn < maxnconn /\ nlefttoconn > 0

\* start_connect; or the thread is created, with or without its mark.
Start(f) ==
    /\ webAt = "start" /\ MayStart /\ LowestFile(f)
    /\ f_flags' = IF client.mark = "before" THEN [f_flags EXCEPT ![f] = "CONNECTING"] ELSE f_flags
    /\ worker' = IF client.wait = "select" THEN worker ELSE [worker EXCEPT ![f] = "get"]
    /\ webAt' = IF client.mark = "before" THEN "start" ELSE "mark"
    /\ scan' = IF client.mark = "before" THEN {} ELSE {f}
    /\ nconn' = nconn + 1 /\ nlefttoconn' = nlefttoconn - 1
    /\ UNCHANGED <<client, nlefttoread, ndone, mutex, page>>

\* web02: file[i].f_flags = F_CONNECTING after the thread has been created.
Mark(f) ==
    /\ webAt = "mark" /\ f \in scan
    /\ f_flags' = [f_flags EXCEPT ![f] = "CONNECTING"]
    /\ webAt' = "start" /\ scan' = {}
    /\ UNCHANGED <<client, counters, worker, mutex, page>>

NothingFound ==
    /\ webAt = "start" /\ MayStart /\ \A f \in Files : f_flags[f] # "0"
    /\ webAt' = "error"
    /\ UNCHANGED <<client, f_flags, counters, worker, mutex, scan, page>>

Started ==
    /\ webAt = "start" /\ ~ MayStart
    /\ webAt' = CASE nlefttoread = 0 -> "done" [] client.wait = "select" -> "select"
                  [] client.wait = "join" -> "join" [] OTHER -> "lock"
    /\ UNCHANGED <<client, f_flags, counters, worker, mutex, scan, page>>

(***************************************************************************)
(* web.c: select, and every file that it has returned.                     *)
(***************************************************************************)

\* A connect is known to be complete at any time; an answer can be read when it has come.
SelectWeb ==
    /\ webAt = "select"
    /\ \E connected \in SUBSET {f \in Files : f_flags[f] = "CONNECTING"} :
          scan' = connected \cup {f \in Files : f_flags[f] = "READING" /\ page[f] # "waiting"}
    /\ scan' # {} /\ webAt' = "files"
    /\ UNCHANGED <<client, f_flags, counters, worker, mutex, page>>

CloseFile(f) ==
    /\ f_flags' = [f_flags EXCEPT ![f] = "DONE"]
    /\ nconn' = nconn - 1 /\ nlefttoread' = nlefttoread - 1 /\ UNCHANGED <<nlefttoconn, ndone>>

\* write_get_cmd after the connect, also when that has failed; otherwise the answer, or
\* an error, which ends the program.
LookFile(f) ==
    /\ webAt = "files" /\ f \in scan /\ \A g \in scan : f <= g
    /\ scan' = scan \ {f}
    /\ \/ /\ f_flags[f] = "CONNECTING"
          /\ write_get_cmd(f) /\ UNCHANGED counters
          /\ webAt' = IF scan' = {} THEN "start" ELSE "files"
       \/ /\ f_flags[f] = "READING" /\ page[f] = "sent" /\ CloseFile(f)
          /\ webAt' = IF scan' = {} THEN "start" ELSE "files"
       \/ /\ page[f] = "failed" /\ webAt' = "error" /\ UNCHANGED <<f_flags, counters>>
    /\ UNCHANGED <<client, worker, mutex, page>>

(***************************************************************************)
(* do_get_read, in a thread for file f.                                    *)
(***************************************************************************)

\* write_get_cmd; then the answer to its end.
GetRead(f) ==
    /\ worker[f] \in {"get", "read"} /\ Lives
    /\ \/ /\ worker[f] = "get" /\ worker' = [worker EXCEPT ![f] = "read"]
          /\ write_get_cmd(f) /\ UNCHANGED webAt
       \/ /\ worker[f] = "read" /\ page[f] = "sent"
          /\ f_flags' = [f_flags EXCEPT ![f] = "DONE"] /\ UNCHANGED webAt
          /\ worker' = [worker EXCEPT ![f] = IF client.wait = "join" THEN "over" ELSE "lock"]
       \/ page[f] = "failed" /\ webAt' = "error" /\ UNCHANGED <<worker, f_flags>>
    /\ UNCHANGED <<client, counters, mutex, scan, page>>

\* Pthread_mutex_lock; ndone++; Pthread_cond_signal.
CountDone(f) ==
    /\ worker[f] = "lock" /\ mutex = "free" /\ Lives
    /\ mutex' = "thread" /\ ndone' = ndone + 1 /\ worker' = [worker EXCEPT ![f] = "unlock"]
    /\ webAt' = IF webAt = "wait" THEN "woken" ELSE webAt
    /\ UNCHANGED <<client, f_flags, nconn, nlefttoconn, nlefttoread, scan, page>>

ThreadOver(f) ==
    /\ worker[f] = "unlock" /\ mutex = "thread" /\ Lives
    /\ mutex' = "free" /\ worker' = [worker EXCEPT ![f] = "over"]
    /\ UNCHANGED <<client, f_flags, counters, webAt, scan, page>>

do_get_read(f) == GetRead(f) \/ CountDone(f) \/ ThreadOver(f)

(***************************************************************************)
(* The threaded clients: a thread that has ended is joined.                *)
(***************************************************************************)

\* Mutant: a thread that still reads counts as ended.
JoinAny_early(f) ==
    /\ webAt = "join" /\ worker[f] \in {"read", "over"}
    /\ worker' = [worker EXCEPT ![f] = "joined"]
    /\ nconn' = nconn - 1 /\ nlefttoread' = nlefttoread - 1 /\ webAt' = "start"
    /\ UNCHANGED <<client, f_flags, nlefttoconn, ndone, mutex, scan, page>>

\* thr_join(0, ...): any thread.
JoinAny(f) ==
    /\ webAt = "join" /\ worker[f] = "over"
    /\ worker' = [worker EXCEPT ![f] = "joined"]
    /\ nconn' = nconn - 1 /\ nlefttoread' = nlefttoread - 1 /\ webAt' = "start"
    /\ UNCHANGED <<client, f_flags, nlefttoconn, ndone, mutex, scan, page>>

\* The lock; while ndone is 0 web03 waits for the condition, web02 tries again.
LockDone ==
    /\ webAt \in {"lock", "woken"} /\ mutex = "free"
    /\ IF ndone = 0
       THEN webAt' = (IF client.wait = "cond" THEN "wait" ELSE "start") /\ UNCHANGED <<mutex, scan>>
       ELSE webAt' = "join_done" /\ mutex' = "main" /\ scan' = Files
    /\ UNCHANGED <<client, f_flags, counters, worker, page>>

\* The loop over file[]: a file with F_DONE is joined, which waits for its thread.
JoinDone(f) ==
    /\ webAt = "join_done" /\ f \in scan /\ \A g \in scan : f <= g
    /\ scan' = scan \ {f}
    /\ IF f_flags[f] = "DONE"
       THEN /\ worker[f] = "over" /\ worker' = [worker EXCEPT ![f] = "joined"]
            /\ f_flags' = [f_flags EXCEPT ![f] = "JOINED"]
            /\ ndone' = ndone - 1 /\ nconn' = nconn - 1 /\ nlefttoread' = nlefttoread - 1
            /\ UNCHANGED nlefttoconn
       ELSE UNCHANGED <<worker, f_flags, counters>>
    /\ UNCHANGED <<client, mutex, webAt, page>>

Unlock ==
    /\ webAt = "join_done" /\ scan = {}
    /\ webAt' = "start" /\ mutex' = "free"
    /\ UNCHANGED <<client, f_flags, counters, worker, scan, page>>

webMain ==
    \/ home_page \/ NothingFound \/ Started \/ SelectWeb \/ LockDone \/ Unlock
    \/ \E f \in Files : Start(f) \/ Mark(f) \/ LookFile(f) \/ JoinAny(f) \/ JoinDone(f)

WebNext == webMain \/ \E f \in Files : Answer(f) \/ do_get_read(f)
WebSpec == WebInit /\ [][WebNext]_webVars

(***************************************************************************)
(* Properties.                                                             *)
(***************************************************************************)
Busy == {f \in Files : f_flags[f] \in {"CONNECTING", "READING"} \/ worker[f] \in {"get", "read", "lock", "unlock"}}

\* Never more connections than the user has allowed, counted at the servers and not in
\* nconn; the counters come down to zero together.
ConnLimit ==
    /\ Cardinality(Busy) <= maxnconn
    /\ 0 <= nconn /\ nconn <= maxnconn /\ nlefttoconn >= 0 /\ nlefttoread >= nlefttoconn
    /\ webAt = "done" => nconn = 0 /\ nlefttoconn = 0 /\ ndone = 0

\* "nlefttoconn = %d but nothing found" is not printed: the program ends in error only if
\* a server has failed.
FileIsFound == webAt = "error" => \E f \in Files : page[f] = "failed"

\* At the end every file has been read.
AllRead == webAt = "done" => \A f \in Files : page[f] = "sent"

\* The files whose connection was started, and has been given back.
Opened == {f \in Files : f_flags[f] # "0" \/ worker[f] # "none"}
Closed == {f \in Files : IF client.wait = "select" THEN f_flags[f] = "DONE" ELSE worker[f] = "joined"}

\* The threads that have counted themselves in ndone and have not been joined.
Counted == {f \in Files : client.wait \in {"poll", "cond"} /\ worker[f] \in {"unlock", "over"}}

WebTypeOK ==
    /\ client \in {web, web01, web02, web03}
    /\ f_flags \in [Files -> {"0", "CONNECTING", "READING", "DONE", "JOINED"}]
    /\ worker \in [Files -> {"none", "get", "read", "lock", "unlock", "over", "joined"}]
    /\ page \in [Files -> {"waiting", "sent", "failed"}] /\ scan \subseteq Files
    /\ webAt \in {"home", "start", "mark", "select", "files", "join", "lock", "wait", "woken", "join_done", "done", "error"}

\* Each counter counts the files it is about.
WebCounts ==
    /\ nlefttoconn = Cardinality(Files \ Opened) /\ nlefttoread = Cardinality(Files \ Closed)
    /\ nconn = Cardinality(Opened \ Closed) /\ nconn <= maxnconn
    /\ ndone = Cardinality(Counted)

\* What a thread and its file's flag say of each other, where main is.
WebFlags ==
    /\ client.wait = "select" => worker = [f \in Files |-> "none"]
    /\ webAt = "mark" => client = web02 /\ \E f \in Files : scan = {f} /\ worker[f] \notin {"none", "joined"}
    /\ webAt \in {"select", "files"} => client.wait = "select"
    /\ webAt = "join" => client.wait = "join"
    /\ webAt \in {"lock", "wait", "woken", "join_done"} => client.wait \in {"poll", "cond"}
    /\ webAt = "done" => nlefttoread = 0
    /\ webAt = "home" => \A f \in Files : f_flags[f] = "0" /\ worker[f] = "none"
    /\ \A f \in Files :
          /\ worker[f] # "none" /\ f_flags[f] = "0" => webAt = "error" \/ (webAt = "mark" /\ f \in scan)
          /\ worker[f] = "joined" => f_flags[f] \in {"DONE", "JOINED"}
          /\ worker[f] \in {"over", "joined"} /\ client.wait = "join" => f_flags[f] = "DONE"
          /\ worker[f] \in {"lock", "unlock"} => client.wait \in {"poll", "cond"}
          /\ worker[f] \in {"lock", "unlock", "over", "joined"} => page[f] = "sent"
          /\ client.wait = "select" /\ f_flags[f] = "DONE" => page[f] = "sent"
          /\ client.mark = "before" /\ worker[f] \in {"get", "read"} => f_flags[f] \in {"CONNECTING", "READING"}

WebInv == WebTypeOK /\ WebCounts /\ WebFlags /\ FileIsFound

\* web.c and web01.c come to their end if all servers answer.
WebFinishes == client \in {web, web01} => <>(webAt \in {"done", "error"})

\* What can keep web02.c and web03.c from their end: the main thread holds ndone_mutex and
\* joins a thread that has set F_DONE and waits for that mutex; or web02.c has overwritten
\* the F_DONE of a thread that was faster than the main thread.
JoinStuck == \E f \in Files : webAt = "join_done" /\ f_flags[f] = "DONE" /\ worker[f] = "lock"
DoneOverwritten == \E f \in Files : f_flags[f] = "CONNECTING" /\ worker[f] \in {"lock", "unlock", "over"}

\* Nothing else keeps them from it: no wakeup of the condition is lost.
WebFinishesOrStuck == <>(webAt \in {"done", "error"} \/ JoinStuck \/ DoneOverwritten)

\* The counters of the four programs, in whatever order connections and threads end:
\* ConnLimit, FileIsFound and AllRead, with the inductive invariant WebInv.
WebSound == WebInv /\ ConnLimit /\ AllRead
=============================================================================
