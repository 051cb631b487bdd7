# Verification of the network programs

TLA+ models of the network programs in this repository, the TLC runs that
model-check them on small instances, and TLAPS proofs of their main invariants.
The repository is a collection of independent programs: the author's own
exercises (`多路IO转接服务器`, `TCP数据粘包问题处理`, `实验室任务`, `mudo C++ 网络库`,
`scoket编程` and others) and the programs and library of a textbook, `unpv13e`.
So the project is a collection of models, one per program or family of programs
that has state worth checking, with compositions where programs interact.
`PROJECT.json` lists the runs, the correspondence between definitions and source
lines, the findings, the hazards and the theorems.

## 1. The system and its models

### The author's programs

| Part | Source | Hard behaviour | Module |
|---|---|---|---|
| epoll reactor echo server | `多路IO转接服务器/epoll反应堆` | events of one batch handled after earlier callbacks freed slots and descriptors; full tables; short sends; resets | `EpollReactor` |
| select, poll and epoll servers | `多路IO转接服务器/{select,poll,epoll}`, with those of `unpv13e` | stale readiness, full tables, an `accept` that blocks | `MuxServer` |
| edge and level triggering | `多路IO转接服务器/epoll` | an edge that is reported once | `MuxServer` |
| length-prefixed messages | `TCP数据粘包问题处理` | TCP splits and joins frames; end or reset at every byte | `StickyPacket`, implements `MsgChannel` |
| lab exercise and its referee | `实验室任务` | gRPC calls in any order, failing calls, exit with messages under way, unsigned counters | `NetworkTestServer`, `LabTest` |
| hand-written muduo loop | `mudo C++ 网络库/mymuduo` | callbacks that register channels during the dispatch; `quit` from other threads | `PollLoop` |
| chat codec, server, client | `mudo C++ 网络库/chat` | incomplete frames, a set shared by five loop threads | `ChatServer` |
| locks | `mudo C++ 网络库/test3.cpp`, `test5.hpp` | lock order, the holder of a mutex across `wait` | `ThreadExamples` |
| programs on muduo | `test8.cc`, `test9.cpp`, `echoserver.cpp`, `TimeServer.cpp`, `TimeClient.cpp` | lines and integers cut anywhere | `MuduoApps` |
| blocking, forking and threaded servers | `scoket编程`, with those of `unpv13e` | `SIGCHLD`, inherited descriptors, a thread table | `ConnServer` |
| `Readn`, `Writen`, `Readline` | `scoket编程/HEAD.h`, with those of `unpv13e` | short and interrupted calls | `LineIO` |

### unpv13e

| Part | Directories | Hard behaviour | Module |
|---|---|---|---|
| signal-driven UDP server | `sigio` | a handler between any two statements | `SigioEcho` |
| UDP clients with a timer or a filter | `bcast`, `advio`, `udpcliserv` | the alarm that comes just before the blocking call; thirteen remedies | `DgCli` |
| retransmitting UDP client | `rtt`, `lib/rtt.c` | loss, duplication, reordering, a `siglongjmp` | `ReliableUdp` |
| UDP and Unix datagram programs | `udpcliserv`, `unixdomain`, … | who answers whom, lost datagrams | `UdpPrograms` |
| server pools | `server` | `accept` by many, descriptor passing, a ring with a condition variable | `ServerPool`, `PassFd`, `ThreadRing` |
| echo clients | `tcpcliserv`, `select`, `nonblock`, `threads`, `advio`, `oob` | end of input with replies under way | `StrCli` |
| file fetching clients | `nonblock/web.c`, `threads/web0*.c` | a connection limit, joins | `WebClient` |
| `sock` | `sock` | half close, urgent data, both sides writing, a signal between parent and child | `SockTool`, `SockModes` |
| thread examples | `threads/example0*.c` | a counter and a ring of two threads | `ThreadExamples` |
| names to sockets, timed connects | `lib`, `names`, `intro` | failing calls, lost alarms | `Connecting` |
| SCTP echo | `sctp` | streams, partial delivery, notifications | `SctpEcho` |
| out-of-band data, heartbeats | `oob` | one urgent mark, `SIGURG` inside the `SIGALRM` handler | `UrgentData` |
| `traceroute`, the ICMP daemon | `traceroute`, `icmpd` | a raw socket gets everybody's messages, late answers, reused table entries | `IcmpTools` |
| `ping` (two of them), `udpcksum` | `ping`, `udpcksum` | a `SIGALRM` handler between any two statements, duplicate replies, an alarm that jumps away from an answer | `Alarms` |
| `getaddrinfo` | `libgai` | a failing allocation or look-up at every step | `GetAddrInfo` |

Where parts interact the modules are composed: `LabTest` is the lab's client,
server and referee together, on the message channel that `StickyPacket` is shown
to implement (its programs carry copies of the framing functions); `StrCli` puts
every client against servers that echo at once and servers that buffer,
`UdpPrograms` and `SctpEcho` the clients against the servers they can meet,
`SockTool` and `SockModes` two copies of `sock` against each other, `IcmpTools`
the daemon against its clients.


## 2. How the models correspond to the code

Definitions keep the names of the functions they translate; the `map` of
`PROJECT.json` gives the lines. An operation that runs under a mutex, or in the
only thread on non-blocking sockets, is one action. Everywhere else an action
ends where another process, thread, signal handler or peer can come between:
before and after a system call, a lock, a shared variable.

**Families.** Many programs are versions of one another. Such a family has one
module, with a record for each version whose fields say where it differs (what
it blocks in, whether it tests a flag, which call it leaves out), and `Init`
chooses one. A property that a version breaks names that version as its
exception, so that the statement is exact for all of them.

**Data.** Bytes, lines, datagrams and connections are numbered in the order in
which they are made, so that the properties can say that one was lost, repeated
or given to somebody else. Headers, ports and text are kept only where a program
takes decisions by them: the length header of `StickyPacket` and `ChatServer` is
computed digit by digit, `SockTool` has the two bytes that `-c` converts,
`MuduoApps` composes the 32 bit time from bytes of `MdBase` values.

**External code.** The kernel, TCP, the C library, muduo and gRPC are modelled by
how the programs use them: TCP delivers any part of what was sent; UDP loses,
repeats and reorders where the network allows it; `read` and `write` are cut
short, interrupted or fail; a signal comes as soon as it is not blocked; in
`ThreadRing` and `ThreadExamples` a condition variable may also wake for no reason.
A data race or an uninitialised value is a choice over what the build can produce:
the unlocked counter of `example01.c`, the reply address of `loop_udp` in
`SockModes`, the result of `recv_v6` in `IcmpTools`, `SET` against `CLR` on one byte
in the BSD ping of `Alarms`.

Notes on single modules:

- `EpollReactor`. `g` is the array `g_events` (slot `MaxEvents` is the
  listener's), `tree` the kernel's interest list, `batch` the events not yet
  dispatched. The two versions of the program differ in one pointer:
  `epoll反应堆.c` registers a new connection with the argument `&g_events`, slot 0,
  and `test.c` with `&g_events[i]`; the constant `AcceptArg` selects.
- `StickyPacket`, `MsgChannel`. `stream[c]` holds all bytes of a connection and
  `rd[c]` how many were read. A reset loses any part of what was not read; `recv`
  then returns -1 once and 0 afterwards. `MsgChannel` is the promise: a channel of
  whole messages, where after the end of the connection one message may arrive as
  a proper prefix of itself, as the last one.
- `NetworkTestServer`, `LabTest`. An entry of the referee's map is absent
  (`Null`), live, or deleted but still in the map (`Freed`). `SendSeq` and
  `SuccessMaxIdx` are unsigned with `MaxU32 + 1` values, both initialised with -1.
  A gRPC call may fail before or after it was executed; the code constructs an
  exception for this and does not throw it. `MsgBuf` and `TestStatus` come from
  `Msg.h`, which is not in the repository: `MsgBuf` is taken as a blocking queue.
- `PollLoop`. User code runs before `loop` and inside callbacks. The timeout of
  `poll` is part of `poll`. Functors queued by `queueInLoop` are never run by the
  code, and so not here.
- `ReliableUdp`. A timestamp is the number of the transmission it was taken for;
  of the estimators only the timeout they lead to is kept, any value that
  `rtt_minmax` lets through.
- `PassFd`. A child's end of its stream pipe is also its standard error: the
  message of `err_quit` goes to the parent, which takes each byte for a child that
  is ready.
- `LineIO`. Eight versions of `readline`, two of `readn`, three of `writen`.
- `SockTool`, `SockModes`. With `-Z` a buffer is read twice, and shown both times.
- `GetAddrInfo`. `gaHeap` counts the blocks that were allocated and not freed;
  each allocation succeeds or fails; `gaRes` is the option that an earlier call
  left in `_res.options`.
- `Alarms`. The BSD ping's table of duplicates has `BpDupCk` bits, so that the numbers
  repeat; `SET` is a load and a store, between which the handler may clear a bit.

## 3. Runs

Nine runs pass. Each module `MC…` instantiates a group of components: the
variable `which` chooses the one a behaviour runs, and the others stay in their
initial state.

| Run | Components | What it shows |
|---|---|---|
| `reactor` | `EpollReactor` (`test.c`) | the status fields mirror the epoll tree, echoes are the client's own and in order, the listener stays registered, only ended connections are closed, only `acceptconn` at the limit loses a descriptor, the inductive invariant; every byte is served, every ended connection closed |
| `sticky` | `StickyPacket` | frames intact, damage only at the end, implements `MsgChannel`; what arrives is handed over, ended connections are closed |
| `lab` | `NetworkTestServer`, `LabTest`, `PollLoop` | no null or deleted entry is used, `TestError` is unreachable, comparison stops at the first objection and the verdict is final, answers and messages stay paired until an empty string or a lost call; the poller's assertions hold and no callback acts on a stale event; queued strings are committed, events handled, `quit` ends the loop |
| `datagram` | `SigioEcho`, `DgCli`, `ReliableUdp`, `SockModes`, `ThreadExamples` | no slot is reused too early, alarms are lost exactly where the design allows, answers belong to their questions; the two-thread programs neither lose nor repeat an item and end; the inventory prints live requests only, its one deadlock is named, and `holder_` names the owner of a mutex except in and after `Condition::wait`; the forking server hands over its terminal |
| `servers` | `ThreadRing`, `PassFd`, `ServerPool`, `ConnServer` | connections are served once and in order, `navail` is right, one worker at a time is in `accept`, no zombies, no descriptor kept; waiting connections are accepted, `SIGINT` ends the pools |
| `clients` | `StrCli`, `WebClient`, `MuxServer`, `SockTool` | everything is shown before the end, "server terminated prematurely" is true, buffers, counters and tables agree, one client blocks nobody; the programs end, or are stuck in a way that is named |
| `streams` | `LineIO`, `ChatServer`, `Alarms`, `GetAddrInfo` | no byte is lost or invented, messages reach everyone in order; `getaddrinfo` returns all entries and frees what it should; counts and timeouts of the probes are right; the programs end |
| `names` | `Connecting`, `UdpPrograms`, `MuduoApps`, `SctpEcho` | the first address that works is taken and no socket left behind, timed connects restore the signals, echoes are exact and in order; all come up and answer |
| `probes` | `UrgentData`, `IcmpTools` | urgent bytes are neither lost nor repeated, no false alarm and no silence about a dead peer, answers are the program's own, the daemon's table is true |

A component has one safety property, the conjunction of what is said of it, such as
`DgCliSound == DgCliInv /\ AlarmNotLost /\ AlarmIsOwn`; each conjunct has its own
comment. The liveness properties of a group are the conjuncts of one property of
its `MC…` module.

Three runs end in a violation, which is what they are for: the property quotes a
comment or a message of the program, and the code does otherwise. The `findings`
of `PROJECT.json` give the lines.

| Run | Violated | Why |
|---|---|---|
| `reactor_base` | `StatusMirrorsTree` | `epoll反应堆.c` uses slot 0 as the argument of every connection |
| `lab_pass` | `PassMeansCompared` | "Success Pass All Test" is printed with nothing compared, because an unsigned index starts at -1 |
| `probes_icmpd` | `IdOnlyOwner` | an entry of the ICMP daemon keeps the port of the client that had it before |

Every property of a passing run has a mutant: an operator beside the one it
replaces, whose name starts with the name of the original and whose comment says
which slip it stands for, under which TLC finds the property violated. A mutant
breaks one conjunct of its property. It says nothing about the others: a
conjunct without a mutant of its own is checked by the run, but the project does
not record a slip that it would catch.


### Bounds

- `reactor`. Two clients are the smallest number that can disturb each other; a
  send buffer of one byte and buffers of two make short sends happen. `Crowd` adds
  a third and a fourth client, one beyond the slots and one beyond the
  descriptors, who come after the first two; in a crowd only one client sends.
  `reactor_base` needs two clients with a byte each.
- `sticky`. With bytes of two values the messages `<<0,1>>` and `<<0,0,1>>` look
  like the beginning of a header, and a frame has up to seven bytes, cut at every
  place. `Traffic`: one client with any messages, or two with one message each.
- `lab`. The set of messages is closed under prefixes, so that a message cut short
  may equal another one. `FewCalls` bounds the calls that come in any order by
  three of each kind: a message before its answer, an answer before its message,
  and a query between. `Watched` registers the two channels in one order.
- `datagram`. A ring of two slots and five datagrams, so that it fills, wraps and
  overflows; three lines of the UDP clients with two replies each, so that a
  late reply can pass for the answer to the line after the next one; two questions with two retransmissions each; three connections to the
  forking server, because the signal of the first child is kept and later ones may
  be missed; three turns through a ring of two in `example03.c`; three threads at a mutex.
- `servers`. Two workers or children; a ring of two with four connections and two
  children with three, so that there is one more than room for it; otherwise two. `server3.c` has a table of one thread, so that it runs over.
- `clients`. Three lines of input: one shown, one under way, one not yet sent.
  Three files over two connections. `select` with room for three descriptors and
  two clients fills its table; `sock` may have two bytes under way in each
  direction, so that both sides can be stuck in `write`.
- `streams`. Three bytes against a buffer of two and a line of three. Two
  interrupted calls. Two chat clients: one sends two
  lines, one only comes and goes, which is all that walking through the set and
  changing it takes. `BpDupCk` is two and three requests are sent, so that sequence
  numbers repeat. Up to two addresses for each family, so that `ga_port` walks on
  behind an entry that it cloned. `Calls` has the ordinary calls of `getaddrinfo`
  and some of each unusual argument.
- `names`. Three addresses: one before and one behind the one that works. `Scripts`
  are the inputs of the echo and finger servers: whole lines, a CR that is not
  before an LF, a second line, no CR. `ScShort` keeps messages in pieces to the
  servers that differ in how they treat them. `MdNow` has times whose bytes are
  all different from one another and times that begin with a zero byte.
- `probes`. Two hops and a third that must not be asked; three clients of the ICMP
  daemon on two entries, so that an entry is used twice.

`CHECK_DEADLOCK FALSE` stands where the programs may stop: clients end, servers
are killed, and the bounds are used up; whether they stop too early is what the
liveness properties say. Symmetry is used in `reactor_base` only.

### Fairness

Weak fairness of the programs themselves (every process or thread that can take
a step takes one in the end), of the delivery of signals that are not blocked and
of alarms that are set. Nothing is assumed of users and, with these exceptions,
of peers and the network:

- a client of `EpollReactor` reads what it was sent; a client of `StickyPacket`
  finishes a frame it began, since `recvMsg` waits for the rest without a limit;
- the echo server in `StrCli` and the web server in `WebClient`
  answer; in `Connecting` a `connect` gets some answer; in `UrgentData` what was
  sent arrives; clients of the pools and of `ConnServer` end their connections,
  those of `SctpEcho` their associations, and those of the ICMP daemon go on;
- strong fairness of taking a mutex in `ThreadRing` and `ThreadExamples`: POSIX
  threads do not promise it, but without it one thread may hold the mutex, in
  turns, for ever and nothing could be said; and in `StrCli`, for the non-blocking client, of a write that
  takes something: `select` says again and again that it would.

Where a program can wait for ever, the property says so: it names the state
(`StuckReading`, `CtStuck`, `TrStuck`, `SfMissed`, `Stuck` of `serv04`, the
deadlock of `test3.cpp` in `InventoryEnds`), and the run shows that there is no other.

## 4. Proofs

Eight modules hold proofs. A theorem is for every value of the constants: every
number of clients, slots, workers, lines, messages, and every size of a buffer.

| Module | Component | Theorems | Argument |
|---|---|---|---|
| `EpollReactorProofs` | `EpollReactor` (`test.c`) | `ReactorInvariant`, `StatusIsTreeMembership`, `EchoesAreOwnAndOrdered`, `ClosedOnlyWhenEnded`, `ListenerStays`, `DescriptorsAreSound` | `StatusMirrorsTree` is not inductive: a pending event could name a slot that was freed and reused. `BatchFresh` says that what a pending event reports is still true, and needs `SlotShape` (a listening slot is its own argument and owns its descriptor) and `ConnOnce` (a connection has one descriptor); `BufferNext` relates the bytes waiting in a slot to those already sent. What is closed and what is lost then follow for each step |
| `FrameProofs`, `StickyPacketProofs` | `StickyPacket` | `HeaderRoundTrip`, `FrameInvariant`, `FramesAreSound`, `ChannelIsImplemented` | `FrameInv`: the stream holds the frames of the messages sent, `recvMsg` is at the place in them that its variables say, and what was handed over is what was sent, up to one message that was cut short at the end. The header is taken apart and put together by division, for every base. The refinement goes step by step: `sendMsg` puts a message, the end of `recvMsg` hands one over, everything else stutters |
| `LabProofs` | `NetworkTestServer` | `RefereeInvariant`, `NoDeadEntryUsed`, `TestErrorUnreachable`, `ComparesUpToObjection`, `DiffIsFinal`, `RefereeIsSound` | the entries that exist are determined by the counters, and the counters stay ordered because `Update` stops at the smaller one; what was compared is followed through the loop by where it stops |
| | `LabTest` | `LabInvariant`, `LabIsPaired` | `LabInv` adds to the referee's invariant that, up to the first call that was lost, answers stand where their strings were generated, that a string in the queue or the channel is on its way to its own position, and that only the last one to arrive can be cut short |
| `SignalProofs` | `DgCli` | `DgCliInvariant`, `DgCliIsSound` | `DgCliInv`, for all thirteen versions at once: there is one alarm at most, in the clock, pending or in the pipe, and exactly one during a wait where it cannot get lost; what `select` found is still there; an answer that may still be printed is awaited or comes after a late one (`Covered`) |
| | `ReliableUdp` | `RttInvariant`, `RttAnswersMatch`, `RttSampleIsOwn`, `RttGivesUpAfterAll` | `RttInv`: as long as there are fewer questions than sequence numbers, number and timestamp each tell the questions apart; the retransmission count is the number of transmissions of this question |
| | `SigioEcho` | `SigioInvariant`, `SigioEchoesInOrder`, `SigioSlotHeld` | `SigioInv`: the slots from `iget` up to `iput` hold the datagrams last read; `nqueue` counts the slot being sent until the loop is done with it |
| `EventProofs` | `SockModes` | `SfInvariant`, `SuInvariant`, `SockModesAreSound` | `SfInv`: one child at a time has the terminal, and while it has it the parent waits with no signal pending and no flag set; `SuInv`: on each side what was shown and what waits is a part of what the other side sent, in its order, and with `-Z` an odd number has been shown only between the peek and the reading |
| | `PollLoop` | `PollIsSound` | `PollInv`: the table of pollfds is consistent and asks for no more than the channels want, and what `poll` found on a channel that waits for its callbacks is still pending |
| `ThreadProofs` | `ThreadExamples` | `TxInvariant`, `TxCountsMonotonically`, `TxConsumesInOrder`, `TxIsSound`, `InventoryInvariant`, `MutexlockInvariant`, `LocksAreSound` | `TxInv`: exclusion, and for `example02.c` that a value read is the counter's, for `example03.c` that `b_nitems` slots from `b_nextget` on hold the items not yet consumed. `InventoryInv` says who holds which mutex where; `MutexlockInv` who has `mutex_` and who cannot be in `holder_` |
| | `WebClient` | `WebInvariant`, `WebIsSound` | `WebCounts`: each counter is the number of the files it is about; `WebFlags`: what a thread, the flag of its file and the place of `main` say of each other |
| `WorkerProofs` | `ThreadRing` | `RingInvariant`, `RingTakenInOrder`, `RingQuitsOnlyWhenFull` | `RingInv`: the slots from `iget` up to `iput` hold the connections that wait, and who touches the ring holds the mutex |
| | `PassFd` | `PassInvariant`, `PassNavailCounts`, `PassParentRuns`, `PassAvailable` | `PassInv`: while all children live, what `select` reported is still true when the parent acts on it, so `navail` counts the children that are marked; `AvailableIsFree` also when children end: `navail` is right, or a child that has ended is still marked as available |
| | `ServerPool` | `PoolInvariant` | `PoolInv`: who is in `accept` under a lock holds it, no server has both a lock and a `select`, and a connection is counted after it was accepted |
| | `ConnServer` | `ConnInvariant`, `WorkersAreSound` | `ConnInv`: what `main` is about to do fits the server, a thread's argument is its own when it starts, and a zombie has its `SIGCHLD` still pending |

A proof has one lemma or step per action, and the temporal theorems combine them.
Slots are compared by how far they are ahead of `iget`, with an `IF` instead of
`%`, which the provers can follow. Every inductive invariant is also checked by a
run, as a property or a conjunct of one. A theorem about a group, such as
`PoolSpec /\ ConnSpec /\ PassSpec => []WorkersSound`, is about components that
share no variable; the run takes the steps of one of them at a time.

The assumptions are the `ASSUME`s of the component modules: sizes are natural
numbers, positive where the code's constants are, and markers such as `NoConn` are
not members of the sets they are added to. `WebClient` has at least one file, since
`main` leaves with its usage message otherwise; the messages of `StickyPacket` are
not empty and their length fits into the header; those of `LabTest` are closed
under prefixes, so that a message cut short is one.

What only TLC checks:

- all liveness properties, which need fairness;
- `RtoWithinLimits` of `ReliableUdp`, a conjunct of `DatagramLive`, because of its
  powers of two; `EventuallyCommitted` of `LabTest` is also stated with
  `SelectSeq`, for which the provers have no rules;
- the safety properties of the components without a proof: `StrCli`, `MuxServer`,
  `SockTool`, `LineIO`, `ChatServer`, `Alarms`, `GetAddrInfo`, `Connecting`,
  `UdpPrograms`, `SctpEcho`, `MuduoApps`, `UrgentData` and `IcmpTools`. They have no
  inductive invariant yet.

The proof of `DgCliIsSound` corrected a property. `OwnReply` used to allow a
reply to be shown for a later line only if the wait for the reply's own line had
ended early. The run had two lines, and with two that is so. With three it is not:
once one answer is late, every answer after it may be taken for one of a later
line. `Covered` says this, and the run has three lines since.

## 5. Known deviations

Where the code does not do what a comment, a message or its own design says.
Three are violation runs (section 3). The others are exceptions in properties, so
that a run shows that they are the only ones; the notes of the hazards in
`PROJECT.json` name the lines.

- `epoll反应堆/test.c` loses the rest of a buffer that `send` takes in part.
- `test_server.cpp` reports `Diff` for a message that equals its answer, the
  reverse of the client's "Msg is Error".
- `Poller.cc` does not renew the events of a registered pollfd: `enableWriting`
  after `enableReading` never has an effect. `EventLoop::loop` forgets a `quit`
  that came before it.
- `strclithread2.c` may report "server terminated prematurely" of a server that
  ended in good order; `web03.c` may join a thread under the mutex that thread has
  still to lock; `strcliselect01` and `sock` without `-h` leave at the end of the
  input with lines under way.
- `tcpservselect03.c` reads all clients through one static buffer; `poll.c` looks
  at a slot that `poll` has not seen; `epoll.c` never closes a descriptor;
  `server1.c` does not test for the end of file; `server2.c` ends when a signal
  interrupts `accept`; `server3.c` runs over its table of threads.
- `HEAD.h`: `Readn` returns the outcome of a comparison. `readline` counts the null
  byte for a line that does not fit. `sock/writen.c` goes back by one when `write`
  fails. `crlf.c` refuses a buffer that fits exactly.
- `test3.cpp` has its deadlock. The chat's `onMessage` spins on a header whose text
  has not come, and five threads share `connections_` without a mutex.
- `example01.c`, without a lock, says that the values "should increase
  monotonically"; they do not, and only `example02.c`'s do.
- `sock`: with `-Z` everything is shown twice; from the second child on the forking
  server may miss the signal it waits for; `sinkudp.c` reads "until peer closes
  connection", of which UDP tells it nothing; both sides may be stuck in `write`.
- `recv_v6.c` of `traceroute`: an `if` without braces returns an uninitialised
  value for a message about another datagram.
- `getaddrinfo.c` says that it frees "any alloc'ed memory" on an error: the
  canonical name saved before is not, and `ga_unix` returns its errors without
  freeing. A family `AF_LOCAL` without a path ends the process in `ga_nsearch`.
  When both look-ups fail for the moment the caller is told that there is no such
  name.
- `udpcksum.c` may drop an answer that was read just when the alarm goes off.
- `bsdping.c` calls `npackets` the "max packets to transmit", which `-f` and a
  greater `-l` do not respect.
- `connect_timeo.c`, `recv_v4.c` and the simplest of the UDP clients lose an alarm
  that comes just before the blocking call.

## 6. Not modelled

Creation of sockets and failures at start-up where the program just ends, time
stamps, printing, command lines, the contents of random strings, the arithmetic
of checksums and of round-trip estimators.

- `mymuduo`: `TimerQueue` and `Acceptor` are unfinished; functors given to
  `queueInLoop` are appended to a list that nothing reads.
- `mudo C++ 网络库`: `StockFactory::get` of `test2.cpp` is never called, and flows
  off the end of a function that returns a value; `test6.cpp` does not compile;
  `test7.cpp` has a single path, `exit` under a mutex that a destructor locks
  again; `CountDownLatch` has no operations.
- Generated protobuf code and the RPC skeleton.
- `daemon_init`, one straight line of calls; the forking client of
  `Linux高性能服务器`, whose interest is the kernel's process table; the JSON programs
  of `序列化与反序列化`, which read a text with a single call; the line clients of
  `本地套接字` and `scoket编程`, which are the lock-step loop of `StrCli` once more.
- `unpv13e`: wrappers and address conversions of `lib`; the replacements for the C
  library in `libfree`; `getnameinfo`; routing sockets, key management and
  interface ioctls (`route`, `libroute`, `key`, `ioctl`), which send one request
  and print the answer; socket and IP options; STREAMS and TPI programs; ancillary
  data with addresses and credentials; test programs whose subject is the kernel.

`PROJECT.json` lists every part with its reason. These are about half of the
source lines that no definition covers; the rest are headers, generated code and
the printing and command lines of programs that are modelled.
