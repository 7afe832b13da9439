----------------------------- MODULE WsApiProofs -----------------------------
(***************************************************************************)
(* What the WebSocket API client promises its callers, for any number of   *)
(* callers, sockets and commands, any queue size and any environment: a    *)
(* result is as new as its query (ResultIsCurrent), nobody waits for an    *)
(* answer that cannot come (AnswerCanCome), and no order is lost silently  *)
(* (OrdersKept).                                                           *)
(***************************************************************************)
EXTENDS WsApi, TLAPS

-------------------------------------------------------------------------------
(* The inductive invariant *)

\* The writer has a socket while it is in _write_loop, a command while it sends.
WriterInv ==
    /\ writer \in {"queue", "send"} <=> ws # NoSocket
    /\ writer = "send" <=> hand # NoCommand

\* A number is given once: every order and query known has one given out.
Numbered ==
    /\ \A c \in Unsent \cup pending : c.kind \in {"order", "query"} => c.no <= count
    /\ \A p \in Clients : request[p].kind = "query" => request[p].no <= count

\* Each caller has a request of its own and is found under it.
Registered ==
    /\ \A p \in Clients : caller[p] = "waiting" => request[p] \in pending
    /\ \A p \in Clients : caller[p] = "ok" => request[p] # NoCommand
    /\ \A p \in Clients : request[p].kind \in {"query", "beat", "none"}
    /\ \A p, q \in Clients : request[p] = request[q] /\ request[p] # NoCommand => p = q
    /\ \A c \in pending : c.kind \in {"query", "beat"}

\* A pending query is in one place only: queued, in the writer's hand or sent.
InOnePlace ==
    /\ asked \cup inbox \subseteq pending
    /\ \A c \in asked \cup inbox : c \notin Unsent
    /\ hand \in pending => hand \notin Queued
    /\ \A i, j \in DOMAIN sendq : sendq[i] = sendq[j] /\ sendq[i] \in pending => i = j

\* c is an order submitted before the query d.
Earlier(c, d) == c.kind = "order" /\ Before(c, d)

\* A pending query comes after the orders submitted before it, wherever it is.
InTurn ==
    /\ \A i, j \in DOMAIN sendq :
         sendq[j] \in pending /\ Earlier(sendq[i], sendq[j]) => i < j
    /\ hand \in pending => \A c \in Queued : ~Earlier(c, hand)
    /\ \A d \in asked \cup inbox : \A c \in Unsent : ~Earlier(c, d)

\* Unsent orders were submitted after the query of any result.
Current == \A p \in Clients : caller[p] = "ok" => \A c \in Unsent : ~Earlier(c, request[p])

WsInv ==
    /\ WsType /\ WriterInv /\ Numbered /\ Registered /\ InOnePlace /\ InTurn
    /\ Current /\ AnswerCanCome

-------------------------------------------------------------------------------

\* It holds before the first connection.
LEMMA InitInv ==
  ASSUME WsAssumption, Init
  PROVE  WsInv
<1> USE DEF Init
<1>1. /\ Queued = {} /\ Unsent = {NoCommand}
      /\ sendq \in Seq(Command)
  BY DEF Queued, Unsent
<1>2. WsType
  BY <1>1 DEF WsType, WsAssumption
<1>3. WriterInv /\ Numbered /\ Registered
  BY <1>1 DEF WriterInv, Numbered, Registered, NoCommand, WsAssumption
<1>4. InOnePlace /\ InTurn /\ Current /\ AnswerCanCome
  BY <1>1 DEF InOnePlace, InTurn, Current, AnswerCanCome, Earlier
<1> QED
  BY <1>2, <1>3, <1>4 DEF WsInv

-------------------------------------------------------------------------------
(* Steps that move no command *)

\* Steps that touch no command, no request and no answer.
LEMMA QuietSteps ==
  ASSUME WsAssumption, WsInv,
         \/ BackoffEnds \/ Attach \/ Detach \/ BeatSkipped \/ Mute
         \/ \E s \in Sockets : Close(s)
         \/ UNCHANGED vars
  PROVE  WsInv'
<1>1. /\ UNCHANGED <<ws, hand, asked, inbox, sendq, pending, caller, request, count, sent>>
      /\ (writer' = writer \/ (writer = "backoff" /\ writer' = "connect"))
  BY DEF BackoffEnds, Attach, Detach, BeatSkipped, Mute, Close, vars,
         socketVars, wireVars, queryVars
<1>2. WsType'
  BY DEF WsInv, WsType, WsAssumption, BackoffEnds, Attach, Detach, BeatSkipped,
         Mute, Close, vars, socketVars, wireVars, queryVars
<1>3. \A s \in Sockets : sock'[s] = "open" => sock[s] = "open"
  BY DEF WsInv, WsType, BackoffEnds, Attach, Detach, BeatSkipped,
         Mute, Close, vars, socketVars, wireVars, queryVars
<1>4. WriterInv'
  BY <1>1 DEF WsInv, WriterInv
<1>5. Numbered' /\ Registered' /\ InOnePlace' /\ InTurn' /\ Current'
  BY <1>1 DEF WsInv, Numbered, Registered, InOnePlace, InTurn, Current, Unsent, Queued
<1>6. AnswerCanCome'
  BY <1>1, <1>2, <1>3 DEF WsInv, WsType, AnswerCanCome, Unsent, Queued
<1> QED
  BY <1>2, <1>4, <1>5, <1>6 DEF WsInv

\* A connection: nobody has waited for an answer meanwhile.
LEMMA ConnectStep ==
  ASSUME WsAssumption, WsInv, NEW s \in Sockets, Connect(s)
  PROVE  WsInv'
<1> USE DEF Connect, wireVars
<1>1. WsType'
  BY DEF WsInv, WsType, WsAssumption
<1>2. /\ ws = NoSocket /\ s # NoSocket
      /\ Unsent' = Unsent
      /\ \A p \in Clients : /\ caller'[p] = "waiting" <=> caller[p] = "waiting"
                            /\ caller'[p] = "ok" <=> caller[p] = "ok"
  BY DEF WsInv, WsType, WriterInv, WsAssumption, Unsent, Queued
<1>3. WriterInv'
  BY <1>2 DEF WsInv, WriterInv
<1>4. Numbered' /\ Registered' /\ InOnePlace' /\ InTurn' /\ Current'
  BY <1>2 DEF WsInv, Numbered, Registered, InOnePlace, InTurn, Current, Queued
<1>5. AnswerCanCome'
  BY <1>2 DEF WsInv, AnswerCanCome
<1> QED
  BY <1>1, <1>3, <1>4, <1>5 DEF WsInv

\* The time of a caller is up: the answer it waits for is no longer its result.
LEMMA ExpireStep ==
  ASSUME WsAssumption, WsInv, NEW p \in Clients, Expire(p)
  PROVE  WsInv'
<1> USE DEF Expire, socketVars, wireVars
<1>1. WsType'
  BY DEF WsInv, WsType
<1>2. /\ Unsent' = Unsent
      /\ \A q \in Clients : /\ caller'[q] = "waiting" => caller[q] = "waiting"
                            /\ caller'[q] = "ok" => caller[q] = "ok"
  BY DEF WsInv, WsType, Unsent, Queued
<1>3. WriterInv' /\ Numbered' /\ Registered' /\ InOnePlace' /\ InTurn' /\ Current'
  BY <1>2 DEF WsInv, WriterInv, Numbered, Registered, InOnePlace, InTurn, Current, Queued
<1>4. AnswerCanCome'
  BY <1>2 DEF WsInv, AnswerCanCome
<1> QED
  BY <1>1, <1>3, <1>4 DEF WsInv

-------------------------------------------------------------------------------
(* The connection is lost *)

\* The connection goes: what was sent is not answered any more, and every caller
\* that waits is told so.
LEMMA LostStep ==
  ASSUME WsAssumption, WsInv, ConnectionLost,
         sendq' \in Seq(Command), sent' \in SUBSET Command,
         UNCHANGED <<failures, count>>,
         Unsent' \subseteq Unsent \cup {NoCommand}
  PROVE  WsInv'
<1> USE DEF ConnectionLost
<1>1. WsType'
  BY DEF WsInv, WsType
<1>2. \A p \in Clients : caller'[p] # "waiting" /\ (caller'[p] = "ok" => caller[p] = "ok")
  BY DEF WsInv, WsType, Registered
<1>3. WriterInv'
  BY DEF WriterInv
<1>4. Numbered'
  BY DEF WsInv, Numbered, NoCommand
<1>5. Registered'
  BY <1>2 DEF WsInv, Registered
<1>6. InOnePlace' /\ InTurn'
  BY DEF InOnePlace, InTurn
<1>7. Current'
  BY <1>2 DEF WsInv, Current, Earlier, NoCommand
<1>8. AnswerCanCome'
  BY <1>2 DEF AnswerCanCome
<1> QED
  BY <1>1, <1>3, <1>4, <1>5, <1>6, <1>7, <1>8 DEF WsInv

\* The four ways a connection goes; the writer's command is requeued or dropped.
LEMMA LostSteps ==
  ASSUME WsAssumption, WsInv,
         ConnectFails \/ ProactiveReconnect \/ SendRaises \/ SendFails
  PROVE  WsInv'
<1>1. CASE ConnectFails \/ ProactiveReconnect \/ SendRaises
  <2>1. Unsent' \subseteq Unsent \cup {NoCommand}
    BY <1>1 DEF ConnectFails, ProactiveReconnect, SendRaises, ConnectionLost,
                Unsent, Queued
  <2> QED
    BY <1>1, <2>1, LostStep DEF ConnectFails, ProactiveReconnect, SendRaises,
                                WsInv, WsType
<1>2. CASE SendFails
  <2>1. hand \in Command
    BY <1>2 DEF SendFails, WsInv, WsType, WriterInv
  <2>2. sendq' \in Seq(Command) /\ sent' \in SUBSET Command
    BY <1>2, <2>1 DEF SendFails, Received, WsInv, WsType
  <2>3. Unsent' \subseteq Unsent \cup {NoCommand}
    BY <1>2, <2>1 DEF SendFails, ConnectionLost, Unsent, Queued, WsInv, WsType
  <2> QED
    BY <1>2, <2>2, <2>3, LostStep DEF SendFails
<1> QED
  BY <1>1, <1>2

-------------------------------------------------------------------------------
(* The writer *)

\* What is taken from the queue is in the writer's hand.
LEMMA Taken ==
  ASSUME WsType, WriterInv, Take
  PROVE  /\ sendq' \in Seq(Command)
         /\ hand' = sendq[1] /\ hand' \in Command /\ hand = NoCommand
         /\ 1 \in DOMAIN sendq
         /\ \A i \in DOMAIN sendq' : i + 1 \in DOMAIN sendq /\ sendq'[i] = sendq[i + 1]
         /\ Queued' \subseteq Queued
         /\ Unsent' \subseteq Unsent
         /\ Unsent \subseteq Unsent' \cup {NoCommand}
<1>1. /\ sendq \in Seq(Command) /\ Len(sendq) \in Nat \ {0}
      /\ sendq' \in Seq(Command) /\ Len(sendq') = Len(sendq) - 1
      /\ \A i \in DOMAIN sendq' : i + 1 \in DOMAIN sendq /\ sendq'[i] = sendq[i + 1]
      /\ hand' = sendq[1] /\ hand' \in Command
      /\ 1 \in DOMAIN sendq
      /\ hand = NoCommand
  BY DEF Take, WsType, WriterInv
<1>2. \A i \in DOMAIN sendq : i # 1 => i - 1 \in DOMAIN sendq' /\ sendq'[i - 1] = sendq[i]
  BY <1>1
<1>3. Queued' \subseteq Queued
  BY <1>1 DEF Queued
<1>4. Queued \subseteq Queued' \cup {hand'}
  <2> SUFFICES ASSUME NEW i \in DOMAIN sendq
               PROVE  sendq[i] \in Queued' \cup {hand'}
    BY DEF Queued
  <2> QED
    BY <1>1, <1>2 DEF Queued
<1>5. hand' \in Queued
  BY <1>1 DEF Queued
<1> QED
  BY <1>1, <1>3, <1>4, <1>5 DEF Unsent

\* The writer takes the oldest command into its hand.
LEMMA TakeStep ==
  ASSUME WsAssumption, WsInv, Take
  PROVE  WsInv'
<1> USE DEF Take, wireVars, queryVars
<1>1. /\ sendq' \in Seq(Command)
      /\ hand' = sendq[1] /\ hand' \in Command /\ hand = NoCommand
      /\ 1 \in DOMAIN sendq
      /\ \A i \in DOMAIN sendq' : /\ i \in Nat
                                  /\ i + 1 \in DOMAIN sendq /\ sendq'[i] = sendq[i + 1]
      /\ Queued' \subseteq Queued
      /\ Unsent' \subseteq Unsent
      /\ Unsent \subseteq Unsent' \cup {NoCommand}
  BY Taken DEF WsInv
<1>3. WsType'
  BY <1>1 DEF WsInv, WsType
<1>5. WriterInv'
  BY <1>1 DEF WsInv, WriterInv, Command, NoCommand
<1>6. Numbered' /\ Registered' /\ Current'
  BY <1>1 DEF WsInv, Numbered, Registered, Current
<1>7. InOnePlace'
  <2>1. hand' \in pending => hand' \notin Queued'
    BY <1>1 DEF WsInv, InOnePlace, Queued
  <2>2. \A i, j \in DOMAIN sendq' :
          sendq'[i] = sendq'[j] /\ sendq'[i] \in pending => i = j
    BY <1>1 DEF WsInv, InOnePlace
  <2> QED
    BY <1>1, <2>1, <2>2 DEF WsInv, InOnePlace
<1>8. InTurn'
  <2>1. \A i, j \in DOMAIN sendq' :
          sendq'[j] \in pending /\ Earlier(sendq'[i], sendq'[j]) => i < j
    BY <1>1 DEF WsInv, InTurn
  <2>2. hand' \in pending => \A c \in Queued' : ~Earlier(c, hand')
    BY <1>1 DEF WsInv, InTurn, Queued
  <2> QED
    BY <1>1, <2>1, <2>2 DEF WsInv, InTurn, Earlier, Before
<1>9. AnswerCanCome'
  BY <1>1 DEF WsInv, AnswerCanCome, Registered, NoCommand
<1> QED
  BY <1>3, <1>5, <1>6, <1>7, <1>8, <1>9 DEF WsInv

\* The writer sends the command in its hand, behind all older orders.
LEMMA SendStep ==
  ASSUME WsAssumption, WsInv, Send
  PROVE  WsInv'
<1> USE DEF Send, queryVars
<1>1. /\ hand \in Command /\ ws \in Sockets /\ ws # NoSocket
      /\ sent' \in SUBSET Command
  BY DEF WsInv, WsType, WriterInv, Received
<1>2. WsType'
  BY <1>1 DEF WsInv, WsType
<1>3. WriterInv'
  BY <1>1 DEF WsInv, WriterInv
<1>4. /\ Unsent' = Queued \cup {NoCommand}
      /\ Queued' = Queued
  BY DEF Unsent, Queued
<1>5. /\ asked \subseteq asked' /\ asked' \subseteq asked \cup {hand}
      /\ hand \in asked' /\ hand \notin asked => hand \in pending
      /\ hand \in pending /\ sock[ws] = "open" => hand \in asked'
  OBVIOUS
<1>6. Numbered' /\ Registered' /\ Current'
  BY <1>4 DEF WsInv, Numbered, Registered, Current, Earlier, NoCommand, Unsent
<1>7. InOnePlace'
  BY <1>4, <1>5 DEF WsInv, InOnePlace, Registered, NoCommand, Unsent
<1>8. InTurn'
  BY <1>4, <1>5 DEF WsInv, InTurn, Earlier, Registered, NoCommand, Unsent
<1>9. AnswerCanCome'
  BY <1>1, <1>4, <1>5 DEF WsInv, AnswerCanCome, Registered, Unsent
<1> QED
  BY <1>2, <1>3, <1>6, <1>7, <1>8, <1>9 DEF WsInv

-------------------------------------------------------------------------------
(* Commands are submitted *)

\* What is known anywhere is a command.
LEMMA Typed ==
  ASSUME WsType
  PROVE  /\ \A d \in Unsent \cup pending : d \in Command \cup {NoCommand}
         /\ \A p \in Clients : request[p] \in Command \cup {NoCommand}
         /\ \A d \in Command \cup {NoCommand} :
              /\ d.no \in Nat
              /\ d.kind \in {"order", "query", "beat", "none"}
              /\ d.kind = "none" => d.no = 0
<1>1. \A d \in Unsent \cup pending : d \in Command \cup {NoCommand}
  BY DEF WsType, Unsent, Queued
<1>2. \A p \in Clients : request[p] \in Command \cup {NoCommand}
  BY DEF WsType
<1>3. \A d \in Command \cup {NoCommand} :
              /\ d.no \in Nat
              /\ d.kind \in {"order", "query", "beat", "none"}
              /\ d.kind = "none" => d.no = 0
  BY DEF Command, NoCommand
<1> QED
  BY <1>1, <1>2, <1>3

\* What one more command does to the queue.
LEMMA Appended ==
  ASSUME WsType, NEW c \in Command, sendq' = Append(sendq, c)
  PROVE  /\ sendq' \in Seq(Command)
         /\ DOMAIN sendq' = DOMAIN sendq \cup {Len(sendq) + 1}
         /\ sendq'[Len(sendq) + 1] = c
         /\ \A i \in DOMAIN sendq : /\ sendq'[i] = sendq[i]
                                    /\ i \in Nat /\ i < Len(sendq) + 1
         /\ Queued' = Queued \cup {c}
         /\ hand' = hand => Unsent' = Unsent \cup {c}
<1>1. /\ sendq' \in Seq(Command)
      /\ DOMAIN sendq' = DOMAIN sendq \cup {Len(sendq) + 1}
      /\ sendq'[Len(sendq) + 1] = c
      /\ \A i \in DOMAIN sendq : /\ sendq'[i] = sendq[i]
                                 /\ i \in Nat /\ i < Len(sendq) + 1
  BY DEF WsType
<1>2. Queued' = Queued \cup {c}
  BY ONLY <1>1 DEF Queued
<1> QED
  BY <1>1, <1>2 DEF Unsent

\* One more command, with a number that is given out.
LEMMA NumberedStep ==
  ASSUME WsType, Numbered, count' \in Nat, count <= count',
         NEW c \in Command, c.kind \in {"order", "query"} => c.no <= count',
         Unsent' \cup pending' \subseteq (Unsent \cup pending) \cup {c},
         \A p \in Clients : request'[p] \in {request[p], c}
  PROVE  Numbered'
<1>1. count \in Nat
  BY DEF WsType
<1>2. ASSUME NEW d \in Command \cup {NoCommand}, d.no <= count
      PROVE  d.no <= count'
  <2>1. d.no \in Nat
    BY Typed
  <2> QED
    BY <1>1, <1>2, <2>1
<1>3. ASSUME NEW d \in Unsent' \cup pending', d.kind \in {"order", "query"}
      PROVE  d.no <= count'
  <2>1. CASE d \in Unsent \cup pending
    <3>1. d \in Command \cup {NoCommand} /\ d.no <= count
      BY <1>3, <2>1, Typed DEF Numbered
    <3> QED
      BY <1>2, <3>1
  <2> QED
    BY <1>3, <2>1
<1>4. ASSUME NEW p \in Clients, request'[p].kind = "query"
      PROVE  request'[p].no <= count'
  <2>1. CASE request'[p] = request[p]
    <3>1. request[p] \in Command \cup {NoCommand} /\ request[p].no <= count
      BY <1>4, <2>1, Typed DEF Numbered
    <3> QED
      BY <1>2, <2>1, <3>1
  <2> QED
    BY <1>4, <2>1
<1> QED
  BY <1>3, <1>4 DEF Numbered

\* An order is queued under a new number, or refused.
LEMMA EnqueueStep ==
  ASSUME WsAssumption, WsInv, EnqueueOrder
  PROVE  WsInv'
<1> DEFINE c == Order(count + 1)
<1> USE DEF EnqueueOrder, socketVars, wireVars, queryVars
<1>1. /\ WsType /\ c \in Command /\ c.kind = "order" /\ c.no = count + 1
      /\ count \in Nat /\ count' = count + 1
      /\ count' \in Nat /\ count <= count' /\ c.no <= count'
  BY DEF WsInv, WsType, Order, Command
<1>2. CASE Len(sendq) < QueueSize
  <2>1. /\ sendq' \in Seq(Command)
        /\ DOMAIN sendq' = DOMAIN sendq \cup {Len(sendq) + 1}
        /\ sendq'[Len(sendq) + 1] = c
        /\ \A i \in DOMAIN sendq : /\ sendq'[i] = sendq[i]
                                   /\ i \in Nat /\ i < Len(sendq) + 1
        /\ Queued' = Queued \cup {c}
        /\ Unsent' = Unsent \cup {c}
    BY <1>1, <1>2, Appended
  <2>2. c \notin pending
    BY <1>1 DEF WsInv, Registered
  <2> HIDE DEF c
  <2>3. \A d \in Unsent \cup pending : ~Earlier(c, d)
    BY <1>1, Typed DEF WsInv, Numbered, Earlier, Before
  <2>4. \A p \in Clients : ~Earlier(c, request[p])
    BY <1>1, Typed DEF WsInv, Registered, Numbered, Earlier, Before
  <2>5. WsType' /\ WriterInv'
    BY <1>1, <2>1 DEF WsInv, WsType, WriterInv
  <2>6. Numbered'
    BY <1>1, <2>1, NumberedStep DEF WsInv
  <2>7. Registered'
    BY DEF WsInv, Registered
  <2>8. InOnePlace'
    BY <2>1, <2>2 DEF WsInv, InOnePlace
  <2>9. InTurn'
    BY <2>1, <2>2, <2>3 DEF WsInv, InTurn, InOnePlace
  <2>10. Current' /\ AnswerCanCome'
    BY <2>1, <2>4 DEF WsInv, Current, AnswerCanCome
  <2> QED
    BY <2>5, <2>6, <2>7, <2>8, <2>9, <2>10 DEF WsInv
<1>3. CASE ~(Len(sendq) < QueueSize)
  <2>1. sendq' = sendq /\ Unsent' = Unsent /\ Queued' = Queued
    BY <1>3 DEF Unsent, Queued
  <2>2. Numbered'
    BY <1>1, <2>1, NumberedStep DEF WsInv
  <2> QED
    BY <1>1, <2>1, <2>2 DEF WsInv, WsType, WriterInv, Registered, InOnePlace, InTurn,
                             Current, AnswerCanCome
<1> QED
  BY <1>2, <1>3

\* Any query: c is known nowhere, and numbered after what is.
LEMMA RegisterStep ==
  ASSUME WsAssumption, WsInv, NEW p \in Clients, NEW c \in Command,
         Register(p, c),
         c \notin InUse,
         \/ c.kind = "beat" /\ count' = count
         \/ c.kind = "query" /\ c.no = count' /\ count' = count + 1,
         UNCHANGED <<socketVars, wireVars, failures, sent>>
  PROVE  WsInv'
<1> USE DEF socketVars, wireVars
<1>1. /\ WsType /\ c.kind \in {"query", "beat"} /\ c # NoCommand
      /\ count \in Nat /\ count' \in Nat /\ count <= count'
      /\ c.kind = "query" => c.no = count'
      /\ c \notin Unsent /\ c \notin asked \cup inbox
      /\ \A q \in Clients : request[q] # c
      /\ pending' = pending \cup {c}
  BY DEF WsInv, WsType, InUse, NoCommand, Register
<1>2. WsType'
  BY <1>1, Appended DEF WsType, Register
<1>3. WriterInv'
  BY DEF WsInv, WriterInv
<1>4. \A d : ~Earlier(c, d)
  BY <1>1 DEF Earlier
<1>5. c.kind \in {"order", "query"} => c.no <= count'
  BY <1>1
<1>6. CASE Len(sendq) < QueueSize
  <2>1. /\ DOMAIN sendq' = DOMAIN sendq \cup {Len(sendq) + 1}
        /\ sendq'[Len(sendq) + 1] = c
        /\ \A i \in DOMAIN sendq : /\ sendq'[i] = sendq[i]
                                   /\ i \in Nat /\ i < Len(sendq) + 1
        /\ Queued' = Queued \cup {c}
        /\ Unsent' = Unsent \cup {c}
    BY <1>1, <1>6, Appended DEF Register
  <2>2. \A i \in DOMAIN sendq : sendq[i] # c
    BY <1>1 DEF Unsent, Queued
  <2>3. /\ caller' = [caller EXCEPT ![p] = "waiting"]
        /\ request' = [request EXCEPT ![p] = c]
        /\ caller \in [Clients -> {"idle", "blocked", "woken", "waiting", "expired",
                                   "ok", "error", "closed"}]
        /\ request \in [Clients -> Command \cup {NoCommand}]
    BY <1>1, <1>6 DEF Register, WsType
  <2>4. Numbered'
    BY <1>1, <1>5, <2>1, <2>3, NumberedStep DEF WsInv
  <2>5. Registered'
    BY <1>1, <2>3 DEF WsInv, Registered
  <2>6. InOnePlace'
    BY <1>1, <2>1, <2>2 DEF WsInv, InOnePlace, Unsent
  <2>7. InTurn'
    BY <1>1, <1>4, <2>1, <2>2 DEF WsInv, InTurn, Unsent
  <2>8. Current' /\ AnswerCanCome'
    BY <1>1, <1>4, <2>1, <2>3 DEF WsInv, Current, AnswerCanCome
  <2> QED
    BY <1>2, <1>3, <2>4, <2>5, <2>6, <2>7, <2>8 DEF WsInv
<1>7. CASE ~(Len(sendq) < QueueSize)
  <2>1. /\ sendq' = sendq /\ request' = request
        /\ Unsent' = Unsent /\ Queued' = Queued
        /\ \A q \in Clients : /\ caller'[q] = "waiting" => caller[q] = "waiting"
                              /\ caller'[q] = "ok" => caller[q] = "ok"
    BY <1>1, <1>7 DEF Register, Unsent, Queued, WsType
  <2>2. Numbered'
    BY <1>1, <1>5, <2>1, NumberedStep DEF WsInv
  <2>3. Registered' /\ Current' /\ AnswerCanCome'
    BY <1>1, <2>1 DEF WsInv, Registered, Current, AnswerCanCome
  <2>4. InOnePlace' /\ InTurn'
    BY <1>1, <2>1 DEF WsInv, InOnePlace, InTurn, Unsent, Queued
  <2> QED
    BY <1>2, <1>3, <2>2, <2>3, <2>4 DEF WsInv
<1> QED
  BY <1>6, <1>7

\* A query or a beat is queued behind the orders submitted before it.
LEMMA SubmitSteps ==
  ASSUME WsAssumption, WsInv,
         \/ \E p \in Callers : CallQuery(p) \/ Resume(p)
         \/ \E n \in BeatIds : BeatSend(n)
  PROVE  WsInv'
<1> DEFINE c == Query(count + 1)
<1>1. /\ WsType /\ count \in Nat
      /\ c \in Command /\ c.kind = "query" /\ c.no = count + 1
  BY DEF WsInv, WsType, Query, Command
<1>2. c \notin InUse
  BY <1>1, Typed DEF WsInv, Numbered, InOnePlace, InUse
<1>3. CASE \E p \in Callers : CallQuery(p) /\ ws = NoSocket
  <2>1. PICK p \in Callers : CallQuery(p) /\ ws = NoSocket
    BY <1>3
  <2>2. /\ UNCHANGED <<socketVars, wireVars, sendq, pending, request, failures,
                       count, sent>>
        /\ caller' = [caller EXCEPT ![p] = "blocked"]
    BY <2>1 DEF CallQuery
  <2>3. WsType'
    BY <1>1, <2>2 DEF WsType, socketVars, wireVars
  <2>4. /\ Unsent' = Unsent
        /\ \A q \in Clients : /\ caller'[q] = "waiting" => caller[q] = "waiting"
                              /\ caller'[q] = "ok" => caller[q] = "ok"
    BY <1>1, <2>2 DEF WsType, Unsent, Queued, socketVars
  <2>5. WriterInv' /\ Numbered' /\ Registered' /\ InOnePlace' /\ InTurn' /\ Current'
    BY <2>2, <2>4 DEF WsInv, WriterInv, Numbered, Registered, InOnePlace, InTurn,
                      Current, Queued, socketVars, wireVars
  <2>6. AnswerCanCome'
    BY <2>2, <2>4 DEF WsInv, AnswerCanCome, socketVars, wireVars
  <2> QED
    BY <2>3, <2>5, <2>6 DEF WsInv
<1>4. CASE \E p \in Callers : (CallQuery(p) /\ ws # NoSocket) \/ Resume(p)
  <2>1. PICK p \in Callers : (CallQuery(p) /\ ws # NoSocket) \/ Resume(p)
    BY <1>4
  <2>2. /\ Register(p, c) /\ count' = count + 1
        /\ UNCHANGED <<socketVars, wireVars, failures, sent>>
    BY <2>1 DEF CallQuery, Resume
  <2> QED
    BY <1>1, <1>2, <2>2, RegisterStep DEF Clients
<1>5. CASE \E n \in BeatIds : BeatSend(n)
  <2>1. PICK n \in BeatIds : BeatSend(n)
    BY <1>5
  <2>2. Beat(n) \in Command /\ Beat(n).kind = "beat"
    BY DEF WsAssumption, Beat, Command
  <2> QED
    BY <2>1, <2>2, RegisterStep DEF BeatSend, Clients
<1> QED
  BY <1>3, <1>4, <1>5

-------------------------------------------------------------------------------
(* Callers leave, answers come *)

\* A caller that leaves, with its future or without.
LEMMA LeaveStep ==
  ASSUME WsAssumption, WsInv, NEW p \in Clients, Leave(p),
         Forget(request[p]) \/ UNCHANGED <<pending, asked, inbox>>,
         sock' \in [Sockets -> {"unused", "open", "mute", "closed"}],
         \A s \in Sockets : sock'[s] = "open" => sock[s] = "open",
         failures' \in Nat,
         UNCHANGED <<ws, writer, hand, reader, sendq, count, sent>>
  PROVE  WsInv'
<1>1. /\ caller' = [caller EXCEPT ![p] = "idle"]
      /\ request' = [request EXCEPT ![p] = NoCommand]
      /\ WsType
      /\ pending' \subseteq pending /\ asked' \subseteq asked /\ inbox' \subseteq inbox
      /\ asked' \cup inbox' \subseteq asked \cup inbox
      /\ \A c \in pending : c # request[p] => c \in pending'
      /\ \A c \in asked \cup inbox : c # request[p] => c \in asked' \cup inbox'
  BY DEF WsInv, Leave, Forget
<1>2. /\ Unsent' = Unsent /\ Queued' = Queued
  BY DEF Unsent, Queued
<1>3. \A q \in Clients : q # p =>
        caller'[q] = caller[q] /\ request'[q] = request[q]
  BY <1>1 DEF WsType
<1>4. caller'[p] = "idle" /\ request'[p] = NoCommand
  BY <1>1 DEF WsType
<1>5. WsType'
  BY <1>1 DEF WsType
<1>6. WriterInv'
  BY DEF WsInv, WriterInv
<1>7. Numbered'
  BY <1>1, <1>2, <1>3, <1>4 DEF WsInv, Numbered, NoCommand
<1>8. Registered'
  <2>1. \A q \in Clients : caller'[q] = "waiting" => request'[q] \in pending'
    <3> SUFFICES ASSUME NEW q \in Clients, caller'[q] = "waiting"
                 PROVE  request'[q] \in pending'
      OBVIOUS
    <3>1. q # p /\ request'[q] = request[q] /\ request[q] \in pending
      BY <1>3, <1>4 DEF WsInv, Registered
    <3>2. request[q] # request[p]
      BY <3>1 DEF WsInv, Registered, NoCommand
    <3> QED
      BY <1>1, <3>1, <3>2
  <2>2. /\ \A q \in Clients : caller'[q] = "ok" => request'[q] # NoCommand
        /\ \A q \in Clients : request'[q].kind \in {"query", "beat", "none"}
        /\ \A c \in pending' : c.kind \in {"query", "beat"}
    BY <1>1, <1>3, <1>4 DEF WsInv, Registered, NoCommand
  <2>3. \A q, r \in Clients : request'[q] = request'[r] /\ request'[q] # NoCommand => q = r
    BY <1>3, <1>4 DEF WsInv, Registered
  <2> QED
    BY <2>1, <2>2, <2>3 DEF Registered
<1>9. InOnePlace'
  <2>1. asked' \cup inbox' \subseteq pending'
    BY DEF WsInv, InOnePlace, Forget
  <2> QED
    BY <1>1, <1>2, <2>1 DEF WsInv, InOnePlace
<1>10. InTurn'
  BY <1>1, <1>2 DEF WsInv, InTurn
<1>11. Current'
  BY <1>2, <1>3, <1>4 DEF WsInv, Current
<1>12. AnswerCanCome'
  <2> SUFFICES ASSUME NEW q \in Clients, caller'[q] = "waiting", request'[q] \notin Unsent
               PROVE  /\ ws # NoSocket
                      /\ sock'[ws] = "open" => request'[q] \in asked' \cup inbox'
    BY <1>2 DEF AnswerCanCome
  <2>1. q # p /\ request'[q] = request[q] /\ caller[q] = "waiting"
    BY <1>3, <1>4
  <2>2. request[q] \in pending /\ request[q] # request[p]
    BY <2>1 DEF WsInv, Registered, NoCommand
  <2>3. ws # NoSocket /\ (sock[ws] = "open" => request[q] \in asked \cup inbox)
    BY <2>1 DEF WsInv, AnswerCanCome
  <2>4. sock'[ws] = "open" => sock[ws] = "open"
    BY <1>1, <2>3 DEF WsType
  <2> QED
    BY <1>1, <2>1, <2>2, <2>3, <2>4
<1> QED
  BY <1>5, <1>6, <1>7, <1>8, <1>9, <1>10, <1>11, <1>12 DEF WsInv

\* A caller leaves with or without a result.
LEMMA LeaveSteps ==
  ASSUME WsAssumption, WsInv,
         \/ \E p \in Callers : GiveUp(p) \/ Return(p) \/ Abandon(p)
         \/ BeatTimeout \/ BeatReturn
  PROVE  WsInv'
<1>1. WsType /\ Heartbeat \in Clients /\ Callers \subseteq Clients
  BY DEF WsInv, Clients
<1>2. CASE \E p \in Callers : GiveUp(p) \/ Return(p) \/ Abandon(p)
  BY <1>1, <1>2, LeaveStep DEF GiveUp, Return, Abandon, socketVars, wireVars, WsType
<1>3. CASE BeatTimeout
  <2>1. /\ sock' \in [Sockets -> {"unused", "open", "mute", "closed"}]
        /\ \A s \in Sockets : sock'[s] = "open" => sock[s] = "open"
        /\ failures' \in Nat
    BY <1>1, <1>3 DEF BeatTimeout, WsType
  <2> QED
    BY <1>1, <1>3, <2>1, LeaveStep DEF BeatTimeout
<1>4. CASE BeatReturn
  BY <1>1, <1>4, LeaveStep DEF BeatReturn, socketVars, wireVars, WsType
<1> QED
  BY <1>2, <1>3, <1>4

\* The reader hands an answer to the caller that waits for it.
LEMMA ReadStep ==
  ASSUME WsAssumption, WsInv, NEW c, Read(c)
  PROVE  WsInv'
<1> DEFINE awaiting == {p \in Clients : caller[p] = "waiting" /\ request[p] = c}
<1>1. /\ WsType /\ c \in inbox /\ c \in pending /\ c # NoCommand
      /\ pending' = pending \ {c} /\ asked' = asked \ {c} /\ inbox' = inbox \ {c}
      /\ UNCHANGED <<ws, sock, writer, hand, sendq, request, failures, count, sent>>
      /\ reader' \in {NoSocket, reader}
  BY DEF Read, Forget, socketVars, WsInv, InOnePlace, Registered, NoCommand
<1>2. PICK status \in {"ok", "error"} :
        caller' = [p \in Clients |-> IF p \in awaiting THEN status ELSE caller[p]]
  BY DEF Read
<1>3. \A p \in Clients : /\ caller'[p] = "waiting" => caller[p] = "waiting" /\ request[p] # c
                         /\ caller'[p] = "ok" => caller[p] = "ok" \/ request[p] = c
  BY <1>2
<1>4. Unsent' = Unsent /\ Queued' = Queued
  BY <1>1 DEF Unsent, Queued
<1>5. WsType'
  BY <1>1, <1>2 DEF WsType
<1>6. WriterInv' /\ Numbered'
  BY <1>1, <1>4 DEF WsInv, WriterInv, Numbered
<1>7. Registered'
  BY <1>1, <1>3 DEF WsInv, Registered
<1>8. InOnePlace' /\ InTurn'
  BY <1>1, <1>4 DEF WsInv, InOnePlace, InTurn
<1>9. Current'
  <2>1. \A d \in Unsent : ~Earlier(d, c)
    BY <1>1 DEF WsInv, InTurn
  <2>2. \A p \in Clients : caller'[p] = "ok" => \A d \in Unsent : ~Earlier(d, request[p])
    BY <1>3, <2>1 DEF WsInv, Current
  <2> QED
    BY <1>1, <1>4, <2>2 DEF Current
<1>10. AnswerCanCome'
  BY <1>1, <1>3, <1>4 DEF WsInv, AnswerCanCome
<1> QED
  BY <1>5, <1>6, <1>7, <1>8, <1>9, <1>10 DEF WsInv

\* The server answers what it was asked.
LEMMA AnswerStep ==
  ASSUME WsAssumption, WsInv, NEW c, Answer(c)
  PROVE  WsInv'
<1> USE DEF Answer, socketVars, queryVars
<1>1. asked' \cup inbox' = asked \cup inbox /\ Unsent' = Unsent /\ Queued' = Queued
  BY DEF Unsent, Queued
<1>2. WsType'
  BY DEF WsInv, WsType
<1> QED
  BY <1>1, <1>2 DEF WsInv, WriterInv, Numbered, Registered, InOnePlace, InTurn,
                    Current, AnswerCanCome

-------------------------------------------------------------------------------
(* Orders on their way *)

\* An order that is not sent stays queued or in hand, unless sending it raised or
\* the full queue had no place for it.
LEMMA OrdersStep ==
  ASSUME WsInv, Next, ~SendRaises, ~(SendFails /\ Len(sendq) >= QueueSize),
         NEW c \in Unsent, c.kind = "order"
  PROVE  c \in Unsent' \cup sent'
<1>1. /\ WsType /\ WriterInv /\ c # NoCommand
  BY DEF WsInv, NoCommand
<1>2. CASE UNCHANGED <<hand, sendq>>
  BY <1>2 DEF Unsent, Queued
<1>3. CASE ConnectFails \/ ProactiveReconnect
  BY <1>1, <1>3 DEF ConnectFails, ProactiveReconnect, ConnectionLost, WriterInv,
                    Unsent, Queued
<1>4. CASE Take
  BY <1>1, <1>4, Taken
<1>5. CASE Send
  BY <1>5 DEF Send, Received, Unsent, Queued
<1>6. CASE SendFails
  <2>1. hand \in Command /\ Len(sendq) < QueueSize
    BY <1>1, <1>6, WsAssumption DEF SendFails, WriterInv, WsType
  <2>2. sendq' = Append(sendq, hand)
    BY <1>6, <2>1 DEF SendFails
  <2>3. Queued' = Queued \cup {hand}
    BY <1>1, <2>1, <2>2, Appended
  <2> QED
    BY <2>3 DEF Unsent
<1>7. CASE EnqueueOrder
  <2> DEFINE d == Order(count + 1)
  <2>1. d \in Command /\ hand' = hand
    BY <1>1, <1>7 DEF EnqueueOrder, socketVars, WsType, Order, Command
  <2>2. sendq' = sendq \/ sendq' = Append(sendq, d)
    BY <1>7 DEF EnqueueOrder
  <2> HIDE DEF d
  <2>3. CASE sendq' = sendq
    BY <2>1, <2>3 DEF Unsent, Queued
  <2>4. CASE sendq' = Append(sendq, d)
    <3>1. Unsent' = Unsent \cup {d}
      BY <1>1, <2>1, <2>4, Appended
    <3> QED
      BY <3>1
  <2> QED
    BY <2>2, <2>3, <2>4
<1>8. ASSUME NEW p \in Clients, NEW d \in Command, Register(p, d), hand' = hand
      PROVE  c \in Unsent'
  <2>1. sendq' \in {sendq, Append(sendq, d)}
    BY <1>8 DEF Register
  <2> QED
    BY <1>1, <1>2, <1>8, <2>1, Appended DEF Unsent, Queued
<1>9. ASSUME NEW p \in Callers, CallQuery(p) \/ Resume(p)
      PROVE  c \in Unsent'
  <2>1. /\ UNCHANGED <<hand, sendq>> \/ Register(p, Query(count + 1))
        /\ hand' = hand
        /\ Query(count + 1) \in Command /\ p \in Clients
    BY <1>1, <1>9 DEF CallQuery, Resume, socketVars, WsType, Query, Command, Clients
  <2> QED
    BY <1>8, <2>1 DEF Unsent, Queued
<1>10. ASSUME NEW n \in BeatIds, BeatSend(n)
       PROVE  c \in Unsent'
  <2>1. Register(Heartbeat, Beat(n)) /\ hand' = hand /\ Beat(n) \in Command
    BY <1>10, WsAssumption DEF BeatSend, socketVars, Beat, Command
  <2> QED
    BY <1>8, <2>1 DEF Clients
<1> QED
  BY <1>2, <1>3, <1>4, <1>5, <1>6, <1>7, <1>9, <1>10
     DEF Next, Writer, Reader, Beats, Connect, BackoffEnds, Attach, Detach, Read,
         Expire, GiveUp, Return, Abandon, BeatSkipped, BeatTimeout, BeatReturn,
         Answer, Close, Mute, socketVars, wireVars, queryVars

-------------------------------------------------------------------------------
(* The theorems *)

\* Every step of the client keeps the invariant.
LEMMA WsStep ==
  ASSUME WsAssumption, WsInv, [Next]_vars
  PROVE  WsInv'
<1>1. CASE BackoffEnds \/ Attach \/ Detach \/ BeatSkipped \/ Mute \/ UNCHANGED vars
  BY <1>1, QuietSteps
<1>2. CASE \E s \in Sockets : Close(s)
  BY <1>2, QuietSteps
<1>3. CASE \E s \in Sockets : Connect(s)
  BY <1>3, ConnectStep
<1>4. CASE \E p \in Clients : Expire(p)
  BY <1>4, ExpireStep
<1>5. CASE ConnectFails \/ ProactiveReconnect \/ SendRaises \/ SendFails
  BY <1>5, LostSteps
<1>6. CASE Take \/ Send \/ EnqueueOrder
  BY <1>6, TakeStep, SendStep, EnqueueStep
<1>7. CASE \/ \E p \in Callers : CallQuery(p) \/ Resume(p)
           \/ \E n \in BeatIds : BeatSend(n)
  BY <1>7, SubmitSteps
<1>8. CASE \/ \E p \in Callers : GiveUp(p) \/ Return(p) \/ Abandon(p)
           \/ BeatTimeout \/ BeatReturn
  BY <1>8, LeaveSteps
<1>9. CASE (\E c \in inbox : Read(c)) \/ (\E c \in asked : Answer(c))
  BY <1>9, ReadStep, AnswerStep
<1> QED
  BY <1>1, <1>2, <1>3, <1>4, <1>5, <1>6, <1>7, <1>8, <1>9
     DEF Next, Writer, Reader, Beats, Clients

\* The strengthening of the three invariants below holds in every state.
THEOREM WsInvariant == Spec => []WsInv
<1>1. Init => WsInv
  BY InitInv, WsAssumption
<1>2. WsInv /\ [Next]_vars => WsInv'
  BY WsStep, WsAssumption
<1> QED
  BY <1>1, <1>2, PTL DEF Spec

\* The variables keep their types (src/exchange/ws_api.py).
THEOREM WsTypeCorrect == Spec => []WsType
<1>1. WsInv => WsType
  BY DEF WsInv
<1> QED
  BY <1>1, WsInvariant, PTL

\* Nobody waits for an answer that cannot come: the finally clause of writer_loop
\* fails every query of the connection it gives up.
THEOREM NoHopelessWait == Spec => []AnswerCanCome
<1>1. WsInv => AnswerCanCome
  BY DEF WsInv
<1> QED
  BY <1>1, WsInvariant, PTL

\* A result reflects every order submitted before its query, whatever order failed
\* sends leave the queue in.
THEOREM ResultsCurrent == Spec => []ResultIsCurrent
<1>1. WsInv => ResultIsCurrent
  BY DEF WsInv, Current, ResultIsCurrent, Earlier
<1> QED
  BY <1>1, WsInvariant, PTL

\* An order leaves the queue only for the exchange, but for two branches of
\* _write_loop that drop it and say so in the log.
THEOREM OrdersAreKept == Spec => OrdersKept
<1> DEFINE Kept == \/ SendRaises
                   \/ SendFails /\ Len(sendq) >= QueueSize
                   \/ \A c \in Unsent : c.kind = "order" => c \in Unsent' \cup sent'
<1>1. WsInv /\ [Next]_vars => [Kept]_vars
  BY OrdersStep
<1> QED
  BY <1>1, WsInvariant, PTL DEF Spec, OrdersKept

===============================================================================
