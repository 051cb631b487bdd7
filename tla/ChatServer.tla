----------------------------- MODULE ChatServer -----------------------------
(***************************************************************************)
(* The chat of src/mudo C++ 网络库/chat, on the muduo library: clients     *)
(* send lines, each behind a header with its length; the server sends      *)
(* every message to all connections.  server_.setThreadNum(5): the         *)
(* connections are spread over five loops, so each has a thread of its own *)
(* here, and connections_ has no mutex.                                    *)
(*                                                                         *)
(* A cell of the stream is <<message, position, len>>: ChatHeader cells    *)
(* with the header, of which each tells the length, then len cells of text.*)
(***************************************************************************)
EXTENDS Integers, Sequences, FiniteSets

CONSTANTS
    ChatClient,     \* the clients
    ChatLines,      \* bound: lines each client sends
    ChatMaxLen      \* 65536, the longest message onMessage accepts

ASSUME ChatAssumption == ChatLines \in [ChatClient -> Nat] /\ ChatMaxLen \in Nat

ChatHeader == 2     \* for the 4 bytes of the header

VARIABLES
    chatSent,       \* lines that were sent, not dropped
    chatWriter,     \* main thread of the client: "read", "tested", "crashed", "end"
    chatConn,       \* connection_ of the client: "none", "set", "reset"
    chatWire,       \* cells on the way to the server
    chatBuf,        \* the input Buffer of the connection
    chatLoop,       \* the server's loop thread: "none", "adding", "idle", "test", "walk",
                    \* "removing", "closed"
    chatShut,       \* the connections that were shut down
    chatSet,        \* connections_
    chatTodo,       \* per loop: the connections its iterator has still to visit
    chatHanded,     \* per connection: the messages given to Chatserver::onMessage
    chatOut,        \* per connection: what was sent to it: <<sender, message>>
    chatSince,      \* per connection: what had been handed on when it was inserted
    chatRaced       \* "no"; "yes" if connections_ was used while it was changed; "crash"

chatVars == <<chatSent, chatWriter, chatConn, chatWire, chatBuf, chatLoop, chatShut,
              chatSet, chatTodo, chatHanded, chatOut, chatSince, chatRaced>>
chatClientVars == <<chatSent, chatWriter, chatWire>>
chatServerVars == <<chatBuf, chatLoop, chatSet, chatTodo, chatHanded, chatOut, chatSince, chatRaced>>

ChatInit ==
    /\ chatSent = [c \in ChatClient |-> 0]
    /\ chatWriter = [c \in ChatClient |-> "read"] /\ chatConn = [c \in ChatClient |-> "none"]
    /\ chatWire = [c \in ChatClient |-> <<>>] /\ chatBuf = [c \in ChatClient |-> <<>>]
    /\ chatLoop = [c \in ChatClient |-> "none"] /\ chatShut = {}
    /\ chatSet = {} /\ chatTodo = [c \in ChatClient |-> {}]
    /\ chatHanded = [c \in ChatClient |-> <<>>] /\ chatOut = [c \in ChatClient |-> <<>>]
    /\ chatSince = [c \in ChatClient |-> [d \in ChatClient |-> 0]]
    /\ chatRaced = "no"

(***************************************************************************)
(* The client.                                                             *)
(***************************************************************************)

\* onConnection in the client's loop thread, without mutex_: the connection is up, or
\* has been shut down by the server.
ChatClientConnection(c) ==
    /\ \/ chatConn[c] = "none" /\ chatConn' = [chatConn EXCEPT ![c] = "set"]
       \/ chatConn[c] = "set" /\ c \in chatShut /\ chatConn' = [chatConn EXCEPT ![c] = "reset"]
    /\ chatRaced # "crash"
    /\ UNCHANGED <<chatClientVars, chatServerVars, chatShut>>

\* LengthHeaderCodec::send.
ChatFrame(i, len) == [k \in 1 .. ChatHeader + len |-> <<i, k, len>>]

\* chatClient::write tests connection_; a line typed while it is empty is dropped.
ChatWriteTests(c) ==
    /\ chatRaced # "crash" /\ chatWriter[c] = "read" /\ chatConn[c] = "set" /\ chatSent[c] < ChatLines[c]
    /\ chatWriter' = [chatWriter EXCEPT ![c] = "tested"]
    /\ UNCHANGED <<chatSent, chatWire, chatConn, chatServerVars, chatShut>>

\* get_pointer(connection_), which may have been reset since it was tested.
ChatWriteSends(c) ==
    /\ chatRaced # "crash" /\ chatWriter[c] = "tested"
    /\ IF chatConn[c] = "reset"
       THEN chatWriter' = [chatWriter EXCEPT ![c] = "crashed"] /\ UNCHANGED <<chatSent, chatWire>>
       ELSE /\ chatWriter' = [chatWriter EXCEPT ![c] = "read"]
            /\ chatSent' = [chatSent EXCEPT ![c] = @ + 1]
            /\ \E len \in 0 .. ChatMaxLen + 1 :
                  chatWire' = [chatWire EXCEPT ![c] = @ \o ChatFrame(chatSent[c] + 1, len)]
    /\ UNCHANGED <<chatConn, chatServerVars, chatShut>>

\* End of input: main returns.
ChatClientEnds(c) ==
    /\ chatRaced # "crash" /\ chatWriter[c] = "read" /\ chatConn[c] # "none"
    /\ chatWriter' = [chatWriter EXCEPT ![c] = "end"]
    /\ UNCHANGED <<chatSent, chatWire, chatConn, chatServerVars, chatShut>>

(***************************************************************************)
(* The server.                                                             *)
(***************************************************************************)
ChatGoes(c, from, to) ==
    /\ chatRaced # "crash" /\ chatLoop[c] = from
    /\ chatLoop' = [chatLoop EXCEPT ![c] = to]
    /\ UNCHANGED <<chatClientVars, chatConn>>

\* Another loop is at connections_, in one of the ways S.
ChatOthers(c, S) == \E d \in ChatClient \ {c} : chatLoop[d] \in S

\* onConnection: the thread begins to change connections_.
ChatChanges(c) ==
    /\ \/ ChatGoes(c, "none", "adding") /\ chatConn[c] # "none"
       \/ ChatGoes(c, "idle", "removing") /\ chatWriter[c] \in {"end", "crashed"} /\ chatWire[c] = <<>>
    /\ chatRaced' = IF ChatOthers(c, {"adding", "walk", "removing"}) THEN "yes" ELSE chatRaced
    /\ UNCHANGED <<chatBuf, chatSet, chatTodo, chatHanded, chatOut, chatSince, chatShut>>

\* After a race the set may have lost elements, or the process crashes.
ChatSetAfter(S) == IF chatRaced = "no" THEN {S} ELSE SUBSET S

insert(c) ==
    /\ ChatGoes(c, "adding", "idle")
    /\ chatSet' \in ChatSetAfter(chatSet \cup {c})
    /\ chatSince' = [chatSince EXCEPT ![c] = [d \in ChatClient |-> Len(chatHanded[d])]]
    /\ UNCHANGED <<chatBuf, chatTodo, chatHanded, chatOut, chatRaced, chatShut>>

erase(c) ==
    /\ ChatGoes(c, "removing", "closed")
    /\ chatSet' \in ChatSetAfter(chatSet \ {c})
    /\ chatOut' = [chatOut EXCEPT ![c] = <<>>]
    /\ chatSince' = [chatSince EXCEPT ![c] = [d \in ChatClient |-> 0]]
    /\ UNCHANGED <<chatBuf, chatTodo, chatHanded, chatRaced, chatShut>>

ChatCrash ==
    /\ chatRaced = "yes" /\ chatRaced' = "crash"
    /\ UNCHANGED <<chatClientVars, chatConn, chatBuf, chatLoop, chatSet, chatTodo, chatHanded,
                   chatOut, chatSince, chatShut>>

\* The loop reads k cells into the buffer and calls the codec's onMessage.
ChatArrives(c) ==
    /\ chatRaced # "crash" /\ chatLoop[c] = "idle"
    /\ \E k \in 1 .. Len(chatWire[c]) :
          /\ chatBuf' = [chatBuf EXCEPT ![c] = @ \o SubSeq(chatWire[c], 1, k)]
          /\ chatWire' = [chatWire EXCEPT ![c] = SubSeq(@, k + 1, Len(@))]
    /\ chatLoop' = [chatLoop EXCEPT ![c] = "test"]
    /\ UNCHANGED <<chatSent, chatWriter, chatConn, chatSet, chatTodo, chatHanded,
                   chatOut, chatSince, chatRaced, chatShut>>

ChatHas(c, n) == Len(chatBuf[c]) >= n
ChatLen(c) == chatBuf[c][1][3]

\* readableBytes() < 4.
ChatNoHeader(c) ==
    /\ ~ChatHas(c, ChatHeader) /\ ChatGoes(c, "test", "idle")
    /\ UNCHANGED <<chatBuf, chatSet, chatTodo, chatHanded, chatOut, chatSince, chatRaced, chatShut>>

\* The connection is shut down; the header stays in the buffer.
ChatErrorLen(c) ==
    /\ ChatHas(c, ChatHeader) /\ ChatLen(c) > ChatMaxLen
    /\ ChatGoes(c, "test", "idle")
    /\ chatShut' = chatShut \cup {c}
    /\ UNCHANGED <<chatBuf, chatSet, chatTodo, chatHanded, chatOut, chatSince, chatRaced>>

\* A whole frame is there: its header is retrieved and Chatserver::onMessage begins to
\* walk through connections_.  (A part of a frame matches nothing: the loop goes round.)
ChatFrameThere(c) ==
    /\ ChatHas(c, ChatHeader) /\ ChatLen(c) <= ChatMaxLen
    /\ ChatHas(c, ChatHeader + ChatLen(c)) /\ ChatGoes(c, "test", "walk")
    /\ chatHanded' = [chatHanded EXCEPT ![c] = Append(@, chatBuf[c][1][1])]
    /\ chatTodo' = [chatTodo EXCEPT ![c] = chatSet]
    /\ chatRaced' = IF ChatOthers(c, {"adding", "removing"}) THEN "yes" ELSE chatRaced
    /\ UNCHANGED <<chatBuf, chatSet, chatOut, chatSince, chatShut>>

\* One step of the iterator: send to d, unless it was shut down.  After a race any step
\* may be missed.
ChatVisits(c) ==
    /\ chatRaced # "crash" /\ chatLoop[c] = "walk"
    /\ \E d \in chatTodo[c] :
          /\ chatTodo' = [chatTodo EXCEPT ![c] = @ \ {d}]
          /\ \/ chatOut' = IF d \in chatShut THEN chatOut
                           ELSE [chatOut EXCEPT ![d] = Append(@, <<c, Len(chatHanded[c])>>)]
             \/ chatRaced = "yes" /\ UNCHANGED chatOut
    /\ UNCHANGED <<chatClientVars, chatConn, chatBuf, chatLoop, chatSet, chatHanded, chatSince,
                   chatRaced, chatShut>>

\* Mutant: the walk begins again instead of ending.
ChatWalked_again(c) ==
    /\ chatTodo[c] = {} /\ Len(chatOut[c]) < 3 /\ chatTodo' = [chatTodo EXCEPT ![c] = chatSet]
    /\ ChatGoes(c, "walk", "walk")
    /\ UNCHANGED <<chatBuf, chatSet, chatHanded, chatOut, chatSince, chatRaced, chatShut>>

\* The callback returns and the text is retrieved.
ChatWalked(c) ==
    /\ chatTodo[c] = {} /\ ChatGoes(c, "walk", "test")
    /\ chatBuf' = [chatBuf EXCEPT ![c] = SubSeq(@, ChatHeader + ChatLen(c) + 1, Len(@))]
    /\ UNCHANGED <<chatSet, chatTodo, chatHanded, chatOut, chatSince, chatRaced, chatShut>>

ChatLoopStep(c) ==
    \/ ChatChanges(c) \/ insert(c) \/ erase(c) \/ ChatArrives(c) \/ ChatNoHeader(c)
    \/ ChatErrorLen(c) \/ ChatFrameThere(c) \/ ChatVisits(c) \/ ChatWalked(c)
ChatClientStep(c) == ChatClientConnection(c) \/ ChatWriteTests(c) \/ ChatWriteSends(c) \/ ChatClientEnds(c)
ChatNext == ChatCrash \/ \E c \in ChatClient : ChatLoopStep(c) \/ ChatClientStep(c)

(***************************************************************************)
(* Properties.                                                             *)
(***************************************************************************)

\* However the stream is cut, the codec hands on whole messages, each once and in the
\* order in which the client sent them, and stays at a frame's beginning.
ChatFramesInOrder ==
    \A c \in ChatClient :
        /\ chatHanded[c] = [i \in 1 .. Len(chatHanded[c]) |-> i]
        /\ chatLoop[c] \in {"idle", "test"} /\ chatBuf[c] # <<>> => chatBuf[c][1][2] = 1

ChatFrom(c, d) == SelectSeq(chatOut[d], LAMBDA m : m[1] = c)
ChatReached(c, d) ==
    IF chatLoop[c] = "walk" /\ d \in chatTodo[c] THEN Len(chatHanded[c]) - 1 ELSE Len(chatHanded[c])

\* As long as no loop changed connections_ while another was at it, a connection in the
\* set gets every message handed on since it was inserted, of each sender once and in
\* order, until it is shut down.
ChatToEveryone ==
    chatRaced = "no" => \A c \in ChatClient : \A d \in chatSet \ chatShut :
        ChatFrom(c, d) =
            [i \in 1 .. ChatReached(c, d) - chatSince[d][c] |-> <<c, chatSince[d][c] + i>>]

\* The server shuts a connection down, and with it may bring a client that is between
\* the test and the use of connection_ to its end, only if a line was too long.
ChatCrashNeedsLongLine ==
    \A c \in ChatClient :
        chatWriter[c] = "crashed" =>
            \E i \in DOMAIN chatBuf[c] : chatBuf[c][i][3] > ChatMaxLen

\* The loop thread goes round for ever: the codec's while has no way out for a header
\* whose text has not arrived, and nothing more is read meanwhile.
ChatSpins(c) ==
    /\ chatLoop[c] = "test" /\ ChatHas(c, ChatHeader) /\ ChatLen(c) <= ChatMaxLen
    /\ ~ChatHas(c, ChatHeader + ChatLen(c))

\* Every line that was sent is handed on, unless the thread of its connection spins, a
\* line was too long, or the use of connections_ by several threads ended the server.
ChatHandedOn ==
    \A c \in ChatClient : \A i \in 1 .. ChatLines[c] :
        chatSent[c] >= i ~>
            Len(chatHanded[c]) >= i \/ ChatSpins(c) \/ c \in chatShut \/ chatRaced = "crash"

\* The codec, the set of connections and the client's connection, each used by several
\* threads: ChatFramesInOrder, ChatToEveryone and ChatCrashNeedsLongLine.
ChatSound == ChatFramesInOrder /\ ChatToEveryone /\ ChatCrashNeedsLongLine
=============================================================================
