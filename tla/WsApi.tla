-------------------------------- MODULE WsApi --------------------------------
(***************************************************************************)
(* The WebSocket API client (src/exchange/ws_api.py): writer_loop,         *)
(* reader_loop and heartbeat_loop share one socket, a bounded send queue   *)
(* and the map of the queries that wait for an answer.  The engine puts    *)
(* orders into the queue; the other components call queries.  The sockets  *)
(* and the exchange behind them are the environment.                       *)
(*                                                                         *)
(* An answer that nobody waits for is only logged: asked and inbox hold    *)
(* the pending queries alone, so they are those of the socket in use.      *)
(*                                                                         *)
(* An action is what a coroutine does between two awaits that suspend it.  *)
(* _connected is set exactly while _ws is not None, so ws stands for both. *)
(***************************************************************************)
EXTENDS Naturals, Sequences, FiniteSets

CONSTANTS
    Sockets,       \* identities of the sockets, used again once forgotten
    NoSocket,      \* _ws is None, or the reader iterates over nothing
    Callers,       \* coroutines that call _query or _query_apikey_only
    Heartbeat,     \* heartbeat_loop
    BeatIds,       \* request ids of the heartbeat, used again once forgotten
    QueueSize,     \* maxsize of ws_send_queue
    FailLimit,     \* HEARTBEAT_FAIL_LIMIT
    MaxCommands,   \* bound: orders and queries submitted in a behaviour
    Env            \* what the environment may do

EnvKinds == {
    "close",       \* the peer, the protocol's ping or the watchdog closes a socket
    "mute",        \* the exchange stops to answer on a socket that stays open
    "aged",        \* a connection gets 23 h old
    "ambiguous",   \* a send fails after the exchange got the message
    "bad_command", \* a command that cannot be sent
    "abandon",     \* a caller is cancelled while it waits for its answer
    "late" }       \* a query times out while its writer or reader has work left

ASSUME WsAssumption ==
    /\ NoSocket \notin Sockets
    /\ Heartbeat \notin Callers
    /\ BeatIds \subseteq Nat
    /\ QueueSize \in Nat /\ FailLimit \in Nat /\ MaxCommands \in Nat
    /\ Env \subseteq EnvKinds

VARIABLES
    ws,            \* _ws
    sock,          \* each socket: unused, open, mute or closed
    writer,        \* where writer_loop is: connect, queue, send or backoff
    hand,          \* the command writer_loop sends
    reader,        \* the socket reader_loop iterates over
    sendq,         \* send_queue
    asked,         \* queries sent on the socket in use and not yet answered
    inbox,         \* answers on that socket that nobody has read
    pending,       \* _pending: queries with a future
    caller,        \* where each caller of a query is
    request,       \* the query it has registered
    failures,      \* consecutive_failures of the heartbeat
    count,         \* orders and queries submitted so far
    sent           \* orders the exchange has received

socketVars == <<ws, sock, writer, hand>>
wireVars   == <<asked, inbox, reader>>
queryVars  == <<pending, caller, request>>
vars == <<socketVars, wireVars, sendq, queryVars, failures, count, sent>>

-------------------------------------------------------------------------------
(* Commands *)

Order(n) == [kind |-> "order", no |-> n]
Query(n) == [kind |-> "query", no |-> n]
Beat(n)  == [kind |-> "beat", no |-> n]
NoCommand == [kind |-> "none", no |-> 0]
Command == [kind : {"order", "query", "beat"}, no : Nat]

Clients == Callers \cup {Heartbeat}

Queued == {sendq[i] : i \in DOMAIN sendq}
Unsent == Queued \cup {hand}

\* What is still on its way, or waited for, under a request's id.  A future left
\* behind by QueueFull is neither.
InUse == Unsent \cup asked \cup inbox \cup {request[p] : p \in Clients}

\* c was submitted before d.
Before(c, d) == c.kind # "beat" /\ d.kind # "beat" /\ c.no < d.no

WsType ==
    /\ ws \in Sockets \cup {NoSocket}
    /\ sock \in [Sockets -> {"unused", "open", "mute", "closed"}]
    /\ writer \in {"connect", "queue", "send", "backoff"}
    /\ hand \in Command \cup {NoCommand}
    /\ reader \in Sockets \cup {NoSocket}
    /\ sendq \in Seq(Command)
    /\ asked \in SUBSET Command
    /\ inbox \in SUBSET Command
    /\ pending \in SUBSET Command
    /\ caller \in [Clients -> {"idle", "blocked", "woken", "waiting", "expired",
                               "ok", "error", "closed"}]
    /\ request \in [Clients -> Command \cup {NoCommand}]
    /\ failures \in Nat
    /\ count \in Nat
    /\ sent \in SUBSET Command

Init ==
    /\ ws = NoSocket
    /\ sock = [s \in Sockets |-> "unused"]
    /\ writer = "connect"
    /\ hand = NoCommand
    /\ reader = NoSocket
    /\ sendq = <<>>
    /\ asked = {}
    /\ inbox = {}
    /\ pending = {}
    /\ caller = [p \in Clients |-> "idle"]
    /\ request = [p \in Clients |-> NoCommand]
    /\ failures = 0
    /\ count = 0
    /\ sent = {}

-------------------------------------------------------------------------------
(* writer_loop *)

\* Mutant of ConnectionLost: the futures are dropped before any is failed.
ConnectionLostSilent ==
    /\ ws' = NoSocket
    /\ asked' = {} /\ inbox' = {}
    /\ writer' = "backoff"
    /\ hand' = NoCommand
    /\ pending' = {}
    /\ UNCHANGED <<sock, request, reader, caller>>

\* Mutant of ConnectionLost: the pending queries are left to the next connection.
ConnectionLostKept ==
    /\ ws' = NoSocket
    /\ asked' = {} /\ inbox' = {}
    /\ writer' = "backoff"
    /\ hand' = NoCommand
    /\ UNCHANGED <<sock, request, reader, pending, caller>>

\* The finally clause: the socket is forgotten, not closed, and every query that
\* waits fails.
ConnectionLost ==
    /\ ws' = NoSocket
    /\ asked' = {} /\ inbox' = {}
    /\ writer' = "backoff"
    /\ hand' = NoCommand
    /\ pending' = {}
    /\ caller' = [p \in Clients |->
                    IF caller[p] = "waiting" /\ request[p] \in pending
                    THEN "closed" ELSE caller[p]]
    /\ UNCHANGED <<sock, request, reader>>

\* A new socket; callers that waited for _connected run again later.
Connect(s) ==
    /\ writer = "connect"
    /\ s # reader
    /\ ws' = s
    /\ sock' = [sock EXCEPT ![s] = "open"]
    /\ writer' = "queue"
    /\ caller' = [p \in Clients |-> IF caller[p] = "blocked" THEN "woken" ELSE caller[p]]
    /\ UNCHANGED <<hand, wireVars, sendq, pending, request, failures, count, sent>>

ConnectFails ==
    /\ writer = "connect"
    /\ ConnectionLost
    /\ UNCHANGED <<sendq, failures, count, sent>>

BackoffEnds ==
    /\ writer = "backoff"
    /\ writer' = "connect"
    /\ UNCHANGED <<ws, sock, hand, wireVars, sendq, queryVars, failures, count, sent>>

\* Mutant of ProactiveReconnect: the age is checked after the command was taken.
ProactiveReconnectLate ==
    /\ "aged" \in Env
    /\ writer = "queue"
    /\ sendq # <<>>
    /\ sendq' = Tail(sendq)
    /\ ConnectionLost
    /\ UNCHANGED <<failures, count, sent>>

\* After 23 h the loop returns at its next turn.
ProactiveReconnect ==
    /\ "aged" \in Env
    /\ writer = "queue"
    /\ ConnectionLost
    /\ UNCHANGED <<sendq, failures, count, sent>>

Take ==
    /\ writer = "queue"
    /\ sendq # <<>>
    /\ hand' = Head(sendq)
    /\ sendq' = Tail(sendq)
    /\ writer' = "send"
    /\ UNCHANGED <<ws, sock, wireVars, queryVars, failures, count, sent>>

\* The exchange receives the command.
Received == sent' = IF hand.kind = "order" THEN sent \cup {hand} ELSE sent

Send ==
    /\ writer = "send"
    /\ sock[ws] # "closed"
    /\ asked' = IF hand \in pending /\ sock[ws] = "open"
                THEN asked \cup {hand} ELSE asked
    /\ Received
    /\ hand' = NoCommand
    /\ writer' = "queue"
    /\ UNCHANGED <<ws, sock, reader, inbox, sendq, queryVars, failures, count>>

\* Mutant of SendFails: the command is given up for queued before it is queued.
SendFailsCleared ==
    /\ writer = "send"
    /\ sock[ws] = "closed"
    /\ sendq' = IF Len(sendq) < QueueSize THEN Append(sendq, NoCommand) ELSE sendq
    /\ UNCHANGED sent \/ ("ambiguous" \in Env /\ Received)
    /\ ConnectionLost
    /\ UNCHANGED <<failures, count>>

\* ConnectionClosed: the command goes to the tail of the queue, if it has room.
SendFails ==
    /\ writer = "send"
    /\ sock[ws] = "closed"
    /\ sendq' = IF Len(sendq) < QueueSize THEN Append(sendq, hand) ELSE sendq
    /\ UNCHANGED sent \/ ("ambiguous" \in Env /\ Received)
    /\ ConnectionLost
    /\ UNCHANGED <<failures, count>>

\* Any other exception: the command is dropped.
SendRaises ==
    /\ "bad_command" \in Env
    /\ writer = "send"
    /\ ConnectionLost
    /\ UNCHANGED <<sendq, failures, count, sent>>

-------------------------------------------------------------------------------
(* reader_loop *)

Attach ==
    /\ reader = NoSocket
    /\ ws # NoSocket
    /\ reader' = ws
    /\ UNCHANGED <<socketVars, asked, inbox, sendq, queryVars, failures, count, sent>>

\* The iteration ends with the socket, and only then.
Detach ==
    /\ reader # NoSocket
    /\ sock[reader] = "closed"
    /\ reader = ws => inbox = {}
    /\ reader' = NoSocket
    /\ UNCHANGED <<socketVars, asked, inbox, sendq, queryVars, failures, count, sent>>

\* The query leaves the map of the pending ones.
Forget(c) ==
    /\ pending' = pending \ {c}
    /\ asked' = asked \ {c}
    /\ inbox' = inbox \ {c}

\* _handle_response.  The future of a caller that has given up is done: to set it
\* raises, which ends the iteration.
Read(c) ==
    LET awaiting == {p \in Clients : caller[p] = "waiting" /\ request[p] = c}
    IN
    /\ reader # NoSocket /\ reader = ws
    /\ c \in inbox
    /\ Forget(c)
    /\ \E status \in {"ok", "error"} :
         caller' = [p \in Clients |-> IF p \in awaiting THEN status ELSE caller[p]]
    /\ reader' = IF awaiting = {} THEN NoSocket ELSE reader
    /\ UNCHANGED <<socketVars, sendq, request, failures, count, sent>>

-------------------------------------------------------------------------------
(* Orders and queries *)

\* The future is registered, then the command is queued; QueueFull goes to the
\* caller and leaves the future behind.
Register(p, c) ==
    /\ pending' = pending \cup {c}
    /\ IF Len(sendq) < QueueSize
       THEN /\ sendq' = Append(sendq, c)
            /\ caller' = [caller EXCEPT ![p] = "waiting"]
            /\ request' = [request EXCEPT ![p] = c]
       ELSE /\ caller' = [caller EXCEPT ![p] = "idle"]
            /\ UNCHANGED <<sendq, request>>

\* enqueue_order, enqueue_market_buy, enqueue_cancel_all: never wait.
EnqueueOrder ==
    /\ count < MaxCommands
    /\ count' = count + 1
    /\ sendq' = IF Len(sendq) < QueueSize THEN Append(sendq, Order(count + 1)) ELSE sendq
    /\ UNCHANGED <<socketVars, wireVars, queryVars, failures, sent>>

\* _query up to its first await that suspends.
CallQuery(p) ==
    /\ caller[p] = "idle"
    /\ count < MaxCommands
    /\ IF ws = NoSocket
       THEN /\ caller' = [caller EXCEPT ![p] = "blocked"]
            /\ UNCHANGED <<sendq, pending, request, count>>
       ELSE /\ Register(p, Query(count + 1))
            /\ count' = count + 1
    /\ UNCHANGED <<socketVars, wireVars, failures, sent>>

\* The caller runs again after _connected was set; the socket may be gone by then.
Resume(p) ==
    /\ caller[p] = "woken"
    /\ Register(p, Query(count + 1))
    /\ count' = count + 1
    /\ UNCHANGED <<socketVars, wireVars, failures, sent>>

\* What can be sent is sent and what has come in is read long before 8 s are over.
LoopsBusy ==
    \/ writer = "send"
    \/ writer = "queue" /\ sendq # <<>>
    \/ inbox # {} /\ (reader \in {ws, NoSocket} \/ sock[reader] = "closed")

\* wait_for cancels the future; the caller finds out when it runs again.
Expire(p) ==
    /\ caller[p] = "waiting"
    /\ "late" \in Env \/ ~LoopsBusy
    /\ caller' = [caller EXCEPT ![p] = "expired"]
    /\ UNCHANGED <<socketVars, wireVars, sendq, pending, request, failures, count, sent>>

Leave(p) ==
    /\ caller' = [caller EXCEPT ![p] = "idle"]
    /\ request' = [request EXCEPT ![p] = NoCommand]

GiveUp(p) ==
    /\ caller[p] = "expired"
    /\ Forget(request[p])
    /\ Leave(p)
    /\ UNCHANGED <<socketVars, reader, sendq, failures, count, sent>>

Return(p) ==
    /\ caller[p] \in {"ok", "error", "closed"}
    /\ Leave(p)
    /\ UNCHANGED <<socketVars, wireVars, sendq, pending, failures, count, sent>>

\* graceful_shutdown cancels a query after 2 s: nobody removes its future.
Abandon(p) ==
    /\ "abandon" \in Env
    /\ caller[p] \in {"blocked", "woken", "waiting"}
    /\ Leave(p)
    /\ UNCHANGED <<socketVars, wireVars, sendq, pending, failures, count, sent>>

-------------------------------------------------------------------------------
(* heartbeat_loop *)

BeatSend(n) ==
    /\ caller[Heartbeat] = "idle"
    /\ ws # NoSocket
    /\ Beat(n) \notin InUse
    /\ Register(Heartbeat, Beat(n))
    /\ UNCHANGED <<socketVars, wireVars, failures, count, sent>>

BeatSkipped ==
    /\ caller[Heartbeat] = "idle"
    /\ ws = NoSocket
    /\ failures # 0
    /\ failures' = 0
    /\ UNCHANGED <<socketVars, wireVars, sendq, queryVars, count, sent>>

\* An error answer or a lost connection counts neither way.
BeatReturn ==
    /\ caller[Heartbeat] \in {"ok", "error", "closed"}
    /\ failures' = IF caller[Heartbeat] = "ok" THEN 0 ELSE failures
    /\ Leave(Heartbeat)
    /\ UNCHANGED <<socketVars, wireVars, sendq, pending, count, sent>>

\* Mutant of BeatTimeout: the count starts over with every beat.
BeatTimeoutUncounted ==
    /\ caller[Heartbeat] = "expired"
    /\ Forget(request[Heartbeat])
    /\ Leave(Heartbeat)
    /\ IF 1 < FailLimit
       THEN failures' = 1 /\ UNCHANGED sock
       ELSE /\ failures' = 0
            /\ sock' = IF ws = NoSocket THEN sock ELSE [sock EXCEPT ![ws] = "closed"]
    /\ UNCHANGED <<ws, writer, hand, reader, sendq, count, sent>>

\* After FailLimit timeouts in a row force_reconnect closes the socket.
BeatTimeout ==
    /\ caller[Heartbeat] = "expired"
    /\ Forget(request[Heartbeat])
    /\ Leave(Heartbeat)
    /\ IF failures + 1 < FailLimit
       THEN failures' = failures + 1 /\ UNCHANGED sock
       ELSE /\ failures' = 0
            /\ sock' = IF ws = NoSocket THEN sock ELSE [sock EXCEPT ![ws] = "closed"]
    /\ UNCHANGED <<ws, writer, hand, reader, sendq, count, sent>>

-------------------------------------------------------------------------------
(* The exchange and the network *)

Answer(c) ==
    /\ ws # NoSocket /\ sock[ws] = "open"
    /\ c \in asked
    /\ asked' = asked \ {c}
    /\ inbox' = inbox \cup {c}
    /\ UNCHANGED <<socketVars, reader, sendq, queryVars, failures, count, sent>>

\* Only the sockets in use matter: the writer's and the reader's.
Close(s) ==
    /\ "close" \in Env
    /\ s \in {ws, reader} /\ sock[s] # "closed"
    /\ sock' = [sock EXCEPT ![s] = "closed"]
    /\ UNCHANGED <<ws, writer, hand, wireVars, sendq, queryVars, failures, count, sent>>

Mute ==
    /\ "mute" \in Env
    /\ ws # NoSocket /\ sock[ws] = "open"
    /\ sock' = [sock EXCEPT ![ws] = "mute"]
    /\ UNCHANGED <<ws, writer, hand, wireVars, sendq, queryVars, failures, count, sent>>

-------------------------------------------------------------------------------

Writer ==
    \/ \E s \in Sockets : Connect(s)
    \/ BackoffEnds \/ Take \/ Send \/ SendFails

Reader == Attach \/ Detach \/ \E c \in inbox : Read(c)

Beats ==
    \/ \E n \in BeatIds : BeatSend(n)
    \/ BeatSkipped \/ Expire(Heartbeat) \/ BeatTimeout \/ BeatReturn

Next ==
    \/ Writer \/ Reader \/ Beats
    \/ ConnectFails \/ ProactiveReconnect \/ SendRaises
    \/ \E s \in Sockets : Close(s)
    \/ Mute
    \/ \E c \in asked : Answer(c)
    \/ EnqueueOrder
    \/ \E p \in Callers : \/ CallQuery(p) \/ Resume(p) \/ Expire(p)
                          \/ GiveUp(p) \/ Return(p) \/ Abandon(p)

Spec == Init /\ [][Next]_vars

\* asyncio runs every task that is ready, and every timer ends.
FairSpec ==
    /\ Spec
    /\ WF_vars(Writer) /\ WF_vars(Reader)
    /\ WF_vars(\E n \in BeatIds : BeatSend(n))
    /\ WF_vars(Expire(Heartbeat)) /\ WF_vars(BeatTimeout) /\ WF_vars(BeatReturn)

-------------------------------------------------------------------------------
(* Properties *)

\* A caller waits for nothing that cannot come: its query has yet to be sent, or
\* went to the socket in use, where it is answered as long as that one is alive.
\* Nobody waits for an earlier socket, which is what failing the pending queries
\* in the finally clause is for.
AnswerCanCome ==
    \A p \in Clients : caller[p] = "waiting" /\ request[p] \notin Unsent =>
        /\ ws # NoSocket
        /\ sock[ws] = "open" => request[p] \in asked \cup inbox

\* A result reflects every order submitted before its query: none of them is still
\* to be sent.  The emergency stop relies on it when it takes an empty list of open
\* orders for the end, although a failed send puts an order behind later commands.
ResultIsCurrent ==
    \A p \in Clients : caller[p] = "ok" =>
        \A c \in Unsent : c.kind = "order" => ~Before(c, request[p])

\* An order leaves the queue for the exchange, through any number of failed sends
\* and reconnects.  Two branches lose one: a command that cannot be sent at all, and
\* a failed one that finds the queue full again.
OrdersKept ==
    [][\/ SendRaises
       \/ SendFails /\ Len(sendq) >= QueueSize
       \/ \A c \in Unsent : c.kind = "order" => c \in Unsent' \cup sent']_vars

\* A socket that is closed, or open with nobody answering, is replaced, although
\* the writer only notices when it sends: the heartbeat gives it something to send.
DeadSocketReplaced ==
    \A s \in Sockets : (ws = s /\ sock[s] \in {"mute", "closed"}) ~> ws # s

===============================================================================
