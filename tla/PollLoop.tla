------------------------------ MODULE PollLoop ------------------------------
(***************************************************************************)
(* The event loop of the hand-written muduo (src/mudo C++ 网络库/mymuduo:  *)
(* EventLoop, Poller, Channel).  The loop thread polls the descriptors in  *)
(* pollfds and runs the callbacks of the active channels; user code runs   *)
(* before the loop and inside the callbacks, and may call quit from any    *)
(* thread.  A channel is identified with its descriptor.                   *)
(*                                                                         *)
(* poll reports only what it has just found, so the revents field of a     *)
(* pollfd carries nothing from one round to the next and is left out.      *)
(***************************************************************************)
EXTENDS Integers, Sequences

CONSTANT Chan    \* the channels

Event == {"err", "read", "write"}
NoFd == "-1"

ASSUME PollAssumption == NoFd \notin Chan

VARIABLES
    events,     \* Channel::events_, a subset of {"read", "write"}
    index,      \* Channel::index_ + 1: 0 if the channel is new
    revents,    \* Channel::revents_
    pollfds,    \* Poller::pollfds_: [fd, events]
    quit, looping,
    active,     \* activeChannels_ from the iterator on, in the order of pollfds_
    cb,         \* the callbacks of its first channel that handleEvent has still to run
    plPc,       \* "user", "test", "poll", "dispatch"
    ready       \* what is pending on each descriptor

chans == <<events, index, revents, pollfds>>
plVars == <<chans, quit, looping, active, cb, plPc, ready>>

PlInit ==
    /\ events = [c \in Chan |-> {}]
    /\ index = [c \in Chan |-> 0]
    /\ revents = [c \in Chan |-> {}]
    /\ pollfds = <<>>
    /\ quit = FALSE /\ looping = FALSE
    /\ active = {} /\ cb = {}
    /\ plPc = "user"
    /\ ready = [c \in Chan |-> {}]

(***************************************************************************)
(* Poller::updateChannel, called by enableReading and enableWriting.       *)
(***************************************************************************)

\* The pollfd of a known channel is only changed if nothing is of interest.
updateChannel(c, ev) ==
    IF index[c] = 0
    THEN /\ pollfds' = Append(pollfds, [fd |-> c, events |-> ev])
         /\ index' = [index EXCEPT ![c] = Len(pollfds) + 1]
    ELSE /\ pollfds' = IF ev = {} THEN [pollfds EXCEPT ![index[c]].fd = NoFd] ELSE pollfds
         /\ UNCHANGED index

\* User code runs before loop and inside a callback.
InUserCode == plPc = "user" \/ cb # {}

enable(c, e) ==
    /\ InUserCode
    /\ events' = [events EXCEPT ![c] = @ \cup {e}]
    /\ updateChannel(c, events'[c])
    /\ UNCHANGED <<revents, quit, looping, active, cb, plPc, ready>>

enableReading(c) == enable(c, "read")
enableWriting(c) == enable(c, "write")

\* quit is called by a callback or by another thread, at any time.
Quit ==
    /\ quit' = TRUE
    /\ UNCHANGED <<chans, looping, active, cb, plPc, ready>>

(***************************************************************************)
(* EventLoop::loop.                                                        *)
(***************************************************************************)
loop ==
    /\ plPc = "user" /\ pollfds # <<>>
    /\ looping' = TRUE /\ quit' = FALSE /\ plPc' = "test"
    /\ UNCHANGED <<chans, active, cb, ready>>

\* while (!quit_), and the clearing of activeChannels_.
test ==
    /\ plPc = "test"
    /\ IF quit THEN plPc' = "user" /\ looping' = FALSE /\ UNCHANGED active
               ELSE plPc' = "poll" /\ active' = {} /\ UNCHANGED looping
    /\ UNCHANGED <<chans, quit, cb, ready>>

\* What poll stores in revents: errors are reported whatever was asked for.
Revents(pfd) ==
    IF pfd.fd = NoFd THEN {} ELSE (pfd.events \cup {"err"}) \cap ready[pfd.fd]

fillActiveChannels ==
    {c \in Chan : \E i \in DOMAIN pollfds : pollfds[i].fd = c /\ Revents(pollfds[i]) # {}}

\* The channel at the iterator: fillActiveChannels went through pollfds_ in its order.
First == CHOOSE c \in active : \A d \in active : index[c] <= index[d]

\* revents of channel c after the poll.
Found(c) == LET i == index[c] IN IF i = 0 THEN {} ELSE Revents(pollfds[i])
Polled == UNCHANGED <<events, index, pollfds, quit, looping, cb, ready>>

\* Mutant: the active channels of the last round are kept.
poll_accumulates ==
    /\ plPc = "poll"
    /\ active' = fillActiveChannels
    /\ revents' = [c \in Chan |-> revents[c] \cup Found(c)]
    /\ plPc' = "dispatch" /\ Polled

\* poll returns with events, or without any after kPollTimeMs; the revents of a
\* channel that is not active stay as they were.
poll ==
    /\ plPc = "poll"
    /\ active' = fillActiveChannels
    /\ revents' = [c \in Chan |-> IF Found(c) # {} THEN Found(c) ELSE revents[c]]
    /\ plPc' = "dispatch" /\ Polled

\* handleEvent: the error, the read and the write callback, in this order.
handleEvent ==
    /\ plPc = "dispatch" /\ active # {} /\ cb = {}
    /\ cb' = revents[First]
    /\ UNCHANGED <<chans, quit, looping, active, plPc, ready>>

Running == IF "err" \in cb THEN "err" ELSE IF "read" \in cb THEN "read" ELSE "write"

\* A callback returns, and has dealt with what was pending.
callbackReturns ==
    /\ cb # {}
    /\ ready' = [ready EXCEPT ![First] = @ \ {Running}]
    /\ cb' = cb \ {Running}
    /\ active' = IF cb' = {} THEN active \ {First} ELSE active
    /\ UNCHANGED <<chans, quit, looping, plPc>>

dispatched ==
    /\ plPc = "dispatch" /\ active = {}
    /\ plPc' = "test"
    /\ UNCHANGED <<chans, quit, looping, active, cb, ready>>

LoopThread == test \/ poll \/ handleEvent \/ callbackReturns \/ dispatched

\* Something happens on a descriptor.
Happens(c, e) ==
    /\ ready' = [ready EXCEPT ![c] = @ \cup {e}]
    /\ UNCHANGED <<chans, quit, looping, active, cb, plPc>>

PlNext ==
    \/ \E c \in Chan : enableReading(c) \/ enableWriting(c)
    \/ Quit \/ loop \/ LoopThread
    \/ \E c \in Chan, e \in Event : Happens(c, e)

PlSpec == PlInit /\ [][PlNext]_plVars

(***************************************************************************)
(* Properties.                                                             *)
(***************************************************************************)

\* Every variable keeps its type.
PlTypeOK ==
    /\ events \in [Chan -> SUBSET {"read", "write"}]
    /\ index \in [Chan -> 0 .. Len(pollfds)]
    /\ revents \in [Chan -> SUBSET Event]
    /\ pollfds \in Seq([fd : Chan \cup {NoFd}, events : SUBSET {"read", "write"}])
    /\ quit \in BOOLEAN /\ looping \in BOOLEAN
    /\ active \subseteq Chan
    /\ cb \subseteq Event
    /\ plPc \in {"user", "test", "poll", "dispatch"}
    /\ ready \in [Chan -> SUBSET Event]

\* The assertions of updateChannel and fillActiveChannels hold: the index of a
\* channel and the position of its pollfd always agree, however registrations
\* inside callbacks interleave with the dispatch.
TableConsistent ==
    /\ \A c \in Chan : index[c] > 0 => index[c] \in DOMAIN pollfds /\ pollfds[index[c]].fd = c
    /\ \A i \in DOMAIN pollfds : pollfds[i].fd \in Chan /\ index[pollfds[i].fd] = i

\* A callback only runs for something that is still pending and that its channel
\* asked for: what poll found is not stale when handleEvent acts on it.
CallbackIsDue ==
    cb # {} => Running \in ready[First] /\ Running \in events[First] \cup {"err"}

\* What a pollfd asks for is eventually handled, whatever the other channels do,
\* unless the loop is told to stop.
EventHandled ==
    \A c \in Chan, e \in Event :
        (/\ looping /\ index[c] > 0
         /\ e \in pollfds[index[c]].events \cup {"err"} /\ e \in ready[c])
            ~> (e \notin ready[c] \/ quit)

\* quit, called by any thread while the loop runs, ends it: there is no wakeup,
\* but poll times out.
QuitEnds == (looping /\ quit) ~> ~looping

\* The inductive invariant: the table is consistent and asks for what the channels want,
\* and what poll found on a channel that waits for its callbacks is still pending.
PollInv ==
    /\ PlTypeOK /\ TableConsistent
    /\ \A i \in DOMAIN pollfds : pollfds[i].events \subseteq events[pollfds[i].fd]
    /\ plPc # "dispatch" => active = {}
    /\ active = {} => cb = {}
    /\ \A c \in active :
          /\ index[c] > 0 /\ revents[c] # {} /\ revents[c] \subseteq events[c] \cup {"err"}
          /\ cb = {} \/ c # First => revents[c] \subseteq ready[c]
    /\ cb # {} => cb \subseteq ready[First] \cap revents[First]

\* The table of pollfds agrees with the channels, and callbacks are due when they run:
\* TableConsistent and CallbackIsDue, and the invariant they follow from.
PollSound == PollInv /\ CallbackIsDue
=============================================================================
