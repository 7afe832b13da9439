--------------------------- MODULE OrderStoreProofs ---------------------------
(***************************************************************************)
(* Theorems about OrderStore, for every number of orders, of trades per    *)
(* order, of places in the queue and of reports on their way, and every    *)
(* environment, slow acknowledgements and the reconciliation included: the *)
(* tables are exact for every order that has lost no write, but for the    *)
(* REJECTED of an order given up while it was alive, and the orders table  *)
(* implements OrderLife whatever is lost.                                  *)
(*                                                                         *)
(* The inductive invariant says where the word about each execution is.    *)
(* Everything stored, queued or on its way repeats what the exchange did,  *)
(* or denies an order that was given up (Genuine); row, queue and stream, read in this order, tell the          *)
(* executions of an order in turn (InTurn); an order that has lost no      *)
(* write has its row, its last execution and each of its trades in one of  *)
(* the three (Told).                                                       *)
(***************************************************************************)
EXTENDS OrderStore, SequenceTheorems, FiniteSetTheorems, TLAPS

Ops == {"upsert_order_from_intent", "update_order_from_execution",
        "update_order_local_state", "insert_fill"}

EventSet  == [op : Ops, cid : Orders, state : LocalOrderState \cup {"NEW"}, n : Nat]
ReportSet == [cid : Orders, type : {"NEW", "TRADE", "CANCELED", "EXPIRED", "REJECTED"},
              state : {"NEW", "PARTIALLY_FILLED", "FILLED", "CANCELED", "EXPIRED",
                       "REJECTED"}, n : Nat]

BeliefSet   == [Orders -> {"none", "placed", "filled", "missed", "freed"}]
ExchangeSet == [Orders -> [state : {"none", "open", "filled", "canceled", "expired",
                                    "rejected", "lost"}, n : 0 .. Parts + 2]]

EngineType == /\ belief \in BeliefSet
              /\ submitted \subseteq Orders /\ sendq \in Seq(Orders)
              /\ dbq \in Seq(EventSet) /\ Len(dbq) <= QueueMax
              /\ lost \subseteq Orders
StatusType == status \in {"RUNNING", "EMERGENCY_STOPPING"}
WorldType  == exchange \in ExchangeSet /\ stream \in Seq(ReportSet)
TableType  == /\ rows \in [Orders -> [state : LocalOrderState \cup {"NONE"}, n : Nat]]
              /\ fills \in [Orders -> Seq(Nat)]

MarkType   == /\ acked \subseteq Orders /\ doubted \subseteq Orders
              /\ pass \in [Orders -> {"none", "absent", "queued", "ended", "canceled"}]

Types == EngineType /\ StatusType /\ WorldType /\ TableType

Updates(e) == e.op = "update_order_from_execution"
Renames(e) == e.op = "update_order_local_state"

(* The numbers of executions that go with the state of an order on the      *)
(* exchange.                                                                *)
Counted(x) ==
    \/ x.state \in {"none", "lost"} /\ x.n = 0
    \/ x.state = "open" /\ x.n \in 1 .. Parts
    \/ x.state = "filled" /\ x.n = Parts + 1
    \/ x.state = "canceled" /\ x.n \in 2 .. Parts + 1
    \/ x.state \in {"expired", "rejected"} /\ x.n = 1

(* Report r is the r.n-th of an order that is as x on the exchange.         *)
Tells(x, r) ==
    /\ r.n \in 1 .. x.n
    /\ \/ /\ r.n < x.n \/ x.state = "open"
          /\ \/ r.n = 1 /\ r.type = "NEW" /\ r.state = "NEW"
             \/ r.n > 1 /\ r.type = "TRADE" /\ r.state = "PARTIALLY_FILLED"
       \/ /\ r.n = x.n
          /\ \/ x.state = "filled" /\ r.type = "TRADE" /\ r.state = "FILLED"
             \/ x.state = "canceled" /\ r.type = "CANCELED" /\ r.state = "CANCELED"
             \/ x.state = "expired" /\ r.type = "EXPIRED" /\ r.state = "EXPIRED"
             \/ x.state = "rejected" /\ r.type = "REJECTED" /\ r.state = "REJECTED"

(* Local state s is what the n-th report of such an order makes of it.      *)
Says(x, n, s) ==
    /\ n \in 1 .. x.n
    /\ \/ /\ n < x.n \/ x.state = "open"
          /\ \/ n = 1 /\ s = "WORKING"
             \/ n > 1 /\ s = "PARTIALLY_FILLED"
       \/ /\ n = x.n
          /\ \/ x.state = "filled" /\ s = "FILLED"
             \/ x.state = "canceled" /\ s \in {"CANCELED", "EXTERNAL_CANCELED"}
             \/ x.state = "expired" /\ s = "EXPIRED"
             \/ x.state = "rejected" /\ s = "REJECTED"

(* Local state s is what the engine makes of such an order by itself.       *)
Judges(x, s) ==
    \/ x.state \in {"lost", "rejected"} /\ s = "REJECTED"
    \/ x.state = "expired" /\ s = "MISSED"

(* Local state s denies an order that was given up while it was alive.      *)
Denies(o, s) == o \in doubted /\ s = "REJECTED"

(* An event repeats what has happened to its order, or denies it.           *)
Justified(e) ==
    \/ e = Intent(e.cid)
    \/ Updates(e) /\ Says(exchange[e.cid], e.n, e.state)
    \/ Renames(e) /\ (Judges(exchange[e.cid], e.state) \/ Denies(e.cid, e.state))
    \/ e.op = "insert_fill" /\ e.n \in Trades(e.cid)

RowJustified(o) ==
    \/ rows[o] = NoRow
    \/ rows[o] = [state |-> "SUBMIT_QUEUED", n |-> 0]
    \/ Says(exchange[o], rows[o].n, rows[o].state)
    \/ /\ Judges(exchange[o], rows[o].state) \/ Denies(o, rows[o].state)
       /\ rows[o].n <= exchange[o].n

Genuine ==
    /\ \A o \in Orders : Counted(exchange[o]) /\ RowJustified(o)
    /\ \A i \in DOMAIN stream : Tells(exchange[stream[i].cid], stream[i])
    /\ \A i \in DOMAIN dbq : Justified(dbq[i])
    /\ \A o \in Orders : \A i, j \in DOMAIN fills[o] :
          fills[o][i] \in Trades(o) /\ (fills[o][i] = fills[o][j] => i = j)

(* Execution a comes before or is b, and a cancellation that is the bot's   *)
(* own is not turned into somebody else's.                                  *)
Before(a, b) == a.n <= b.n /\ ~(a.state = "CANCELED" /\ b.state = "EXTERNAL_CANCELED")

InTurn(q, st) ==
    /\ \A i, j \in DOMAIN st : i <= j /\ st[i].cid = st[j].cid => st[i].n <= st[j].n
    /\ \A i, j \in DOMAIN q :
          i <= j /\ Updates(q[i]) /\ Updates(q[j]) /\ q[i].cid = q[j].cid => Before(q[i], q[j])
    /\ \A i \in DOMAIN q, j \in DOMAIN st :
          Updates(q[i]) /\ q[i].cid = st[j].cid => q[i].n <= st[j].n
    /\ \A i \in DOMAIN q : Updates(q[i]) => Before(rows[q[i].cid], q[i])
    /\ \A j \in DOMAIN st : rows[st[j].cid].n <= st[j].n
    /\ status = "RUNNING" =>
          /\ \A i \in DOMAIN q : Updates(q[i]) => q[i].state # "CANCELED"
          /\ \A o \in Orders : rows[o].state # "CANCELED"

(* An order nobody has submitted has left no trace; one in the send queue   *)
(* is there once and not yet on the exchange.                               *)
Untouched(o) ==
    /\ exchange[o].state = "none" /\ rows[o] = NoRow /\ fills[o] = <<>> /\ belief[o] = "none"
    /\ pass[o] = "none" /\ o \notin doubted
    /\ \A i \in DOMAIN dbq : dbq[i].cid # o
    /\ \A i \in DOMAIN sendq : sendq[i] # o

Sending ==
    /\ \A o \in Orders \ submitted : Untouched(o)
    /\ \A i, j \in DOMAIN sendq : exchange[sendq[i]].state = "none"
                                  /\ (sendq[i] = sendq[j] => i = j)

(* The row exists, or the queue will make it before any other change.       *)
HasRow(o, q) ==
    \/ rows[o] # NoRow
    \/ \E i \in DOMAIN q : q[i] = Intent(o) /\ \A j \in DOMAIN q : q[j].cid = o => i <= j

LastTold(o, q, st) ==
    \/ rows[o].n = exchange[o].n
    \/ \E i \in DOMAIN q : Updates(q[i]) /\ q[i].cid = o /\ q[i].n = exchange[o].n
    \/ \E i \in DOMAIN st : st[i].cid = o /\ st[i].n = exchange[o].n

TradesTold(o, q, st) ==
    \A k \in Trades(o) :
        \/ \E i \in DOMAIN fills[o] : fills[o][i] = k
        \/ \E i \in DOMAIN q : q[i].op = "insert_fill" /\ q[i].cid = o /\ q[i].n = k
        \/ \E i \in DOMAIN st : st[i].cid = o /\ st[i].n = k

(* An order that never reaches the exchange is rejected if and only if the  *)
(* engine has freed its line or made it a missed one.                       *)
GhostTold(o, q) ==
    exchange[o].state \in {"none", "lost"} =>
        IF belief[o] \in {"freed", "missed"}
        THEN \/ rows[o].state = "REJECTED"
             \/ \E i \in DOMAIN q : Renames(q[i]) /\ q[i].cid = o
        ELSE /\ rows[o].state # "REJECTED"
             /\ \A i \in DOMAIN q : Renames(q[i]) => q[i].cid # o

(* An expired order is a missed level if the engine says so, and in a       *)
(* running bot MISSED has the last word.                                    *)
MissTold(o, q) ==
    exchange[o].state = "expired" /\ o \notin doubted =>
        /\ belief[o] # "missed" =>
              /\ rows[o].state # "MISSED"
              /\ \A i \in DOMAIN q : Renames(q[i]) => q[i].cid # o
        /\ status = "RUNNING" =>
              /\ rows[o].state = "EXPIRED" => \E i \in DOMAIN q : Renames(q[i]) /\ q[i].cid = o
              /\ \A i \in DOMAIN q : Updates(q[i]) /\ q[i].cid = o =>
                    \E j \in DOMAIN q : i < j /\ Renames(q[j]) /\ q[j].cid = o

(* An order whose row says that it has ended did reach the exchange, and    *)
(* one whose row says that it was canceled was.                             *)
PassTold(o) ==
    /\ pass[o] = "ended" => exchange[o].state \notin {"none", "lost"}
    /\ pass[o] = "canceled" => exchange[o].state = "canceled"

ToldOf(o) ==
    /\ HasRow(o, dbq)
    /\ LastTold(o, dbq, stream)
    /\ TradesTold(o, dbq, stream)
    /\ GhostTold(o, dbq)
    /\ MissTold(o, dbq)
    /\ PassTold(o)

Told == \A o \in submitted \ lost : ToldOf(o)

StoreInv == Types /\ MarkType /\ Genuine /\ InTurn(dbq, stream) /\ Sending /\ Told

-----------------------------------------------------------------------------
(* What the types say of the events *)

\* The state machine, called as if each report were the first of its order.
LEMMA LocalStateOf ==
  ASSUME NEW r \in ReportSet, NEW own \in BOOLEAN
  PROVE  LET s == NewLocalState(r, own)
         IN  /\ r.type = "TRADE" /\ r.state = "FILLED" => s = "FILLED"
             /\ r.type = "TRADE" /\ r.state # "FILLED" => s = "PARTIALLY_FILLED"
             /\ r.type = "NEW" => s = "WORKING"
             /\ r.type = "REJECTED" => s = "REJECTED"
             /\ r.type = "EXPIRED" => s = "EXPIRED"
             /\ r.type = "CANCELED" => s = IF own THEN "CANCELED" ELSE "EXTERNAL_CANCELED"
BY DEF NewLocalState, TransitionFromExecutionReport, TERMINAL_STATES

\* The local state a report leads to is one of the enumeration.
LEMMA LocalStateType ==
  ASSUME NEW r \in ReportSet, NEW own \in BOOLEAN
  PROVE  NewLocalState(r, own) \in LocalOrderState
BY LocalStateOf DEF ReportSet, LocalOrderState

\* What the dispatcher and the engine make of a report is well typed.
LEMMA WritesType ==
  ASSUME NEW r \in ReportSet
  PROVE  /\ OrderUpdate(r, NewLocalState(r, LocalCancel(r))) \in EventSet
         /\ InsertFill(r) \in EventSet
         /\ \A s \in {"REJECTED", "MISSED"} : LocalState(r.cid, s) \in EventSet
<1>1. NewLocalState(r, LocalCancel(r)) \in LocalOrderState
  BY LocalStateType DEF LocalCancel
<1>2. r.state \in LocalOrderState \cup {"NEW"} /\ r.cid \in Orders /\ r.n \in Nat
  BY DEF ReportSet, LocalOrderState
<1>3. {"REJECTED", "MISSED"} \subseteq LocalOrderState
  BY DEF LocalOrderState
<1> QED
  BY <1>1, <1>2, <1>3 DEF EventSet, Ops, OrderUpdate, InsertFill, LocalState

\* The submission's and the ghost's events are well typed.
LEMMA IntentType ==
  ASSUME NEW o \in Orders
  PROVE  Intent(o) \in EventSet /\ LocalState(o, "REJECTED") \in EventSet
BY DEF EventSet, Ops, Intent, LocalState, LocalOrderState

\* The writes of a report, one by one.
LEMMA WritesAre ==
  ASSUME NEW r \in ReportSet, NEW q \in Seq(EventSet)
  PROVE  LET up == OrderUpdate(r, NewLocalState(r, LocalCancel(r)))
         IN  IF r.type = "TRADE"
             THEN /\ Len(ReportWrites(r)) = 2
                  /\ q \o ReportWrites(r) = Append(Append(q, up), InsertFill(r))
                  /\ q \o SubSeq(ReportWrites(r), 1, 1) = Append(q, up)
             ELSE /\ Len(ReportWrites(r)) = 1
                  /\ q \o ReportWrites(r) = Append(q, up)
<1> DEFINE up == OrderUpdate(r, NewLocalState(r, LocalCancel(r)))
           fill == InsertFill(r)
<1>1. up \in EventSet /\ fill \in EventSet
  BY WritesType
<1>2. ReportWrites(r) = IF r.type = "TRADE" THEN <<up>> \o <<fill>> ELSE <<up>> \o <<>>
  BY DEF ReportWrites
<1> HIDE DEF up, fill
<1>3. CASE r.type = "TRADE"
  <2> DEFINE w == <<up>> \o <<fill>>
             two == Append(Append(q, up), fill)
  <2>1. ReportWrites(r) = w
    BY <1>2, <1>3
  <2>2. /\ <<up>> \in Seq(EventSet) /\ Len(<<up>>) = 1 /\ <<up>>[1] = up
        /\ <<fill>> \in Seq(EventSet) /\ Len(<<fill>>) = 1 /\ <<fill>>[1] = fill
    BY <1>1
  <2>3. w \in Seq(EventSet) /\ Len(w) = 2 /\ w[1] = up /\ w[2] = fill
    BY <2>2, ConcatProperties
  <2> HIDE DEF w
  <2>4. /\ two \in Seq(EventSet) /\ Len(two) = Len(q) + 2 /\ Len(q) \in Nat
        /\ \A i \in 1 .. Len(q) : two[i] = q[i]
        /\ two[Len(q) + 1] = up /\ two[Len(q) + 2] = fill
    BY <1>1
  <2> HIDE DEF two
  <2>5. /\ q \o w \in Seq(EventSet) /\ Len(q \o w) = Len(q) + 2
        /\ \A i \in 1 .. Len(q) : (q \o w)[i] = q[i]
        /\ (q \o w)[Len(q) + 1] = up /\ (q \o w)[Len(q) + 2] = fill
    <3>1. /\ q \o w \in Seq(EventSet) /\ Len(q \o w) = Len(q) + Len(w)
          /\ \A i \in 1 .. Len(q) + Len(w) :
                (q \o w)[i] = IF i <= Len(q) THEN q[i] ELSE w[i - Len(q)]
      BY <2>3, ConcatProperties, Zenon
    <3> QED
      BY <2>3, <2>4, <3>1
  <2>6. q \o w = two
    <3>1. \A i \in 1 .. Len(q) + 2 : i \in 1 .. Len(q) \/ i = Len(q) + 1 \/ i = Len(q) + 2
      BY <2>4
    <3>2. \A i \in 1 .. Len(q \o w) : (q \o w)[i] = two[i]
      BY <2>4, <2>5, <3>1
    <3> QED
      BY <2>4, <2>5, <3>2, SeqEqual
  <2>7. SubSeq(w, 1, 1) = <<up>>
    <3>1. /\ SubSeq(w, 1, 1) \in Seq(EventSet) /\ Len(SubSeq(w, 1, 1)) = 1
          /\ SubSeq(w, 1, 1)[1] = up
      <4>1. 1 \in Int /\ \A i \in 1 .. 1 : w[i] \in EventSet
        BY <1>1, <2>3
      <4> QED
        BY <2>3, <4>1, SubSeqProperties
    <3>2. \A i \in 1 .. Len(<<up>>) : SubSeq(w, 1, 1)[i] = <<up>>[i]
      BY <2>2, <3>1
    <3> QED
      BY <2>2, <3>1, <3>2, SeqEqual
  <2>8. q \o <<up>> = Append(q, up)
    BY <1>1, AppendIsConcat
  <2> QED
    BY <1>3, <2>1, <2>3, <2>6, <2>7, <2>8 DEF up, fill, two
<1>4. CASE r.type # "TRADE"
  <2>1. ReportWrites(r) = <<up>>
    BY <1>1, <1>2, <1>4
  <2>2. Len(<<up>>) = 1 /\ q \o <<up>> = Append(q, up)
    BY <1>1
  <2> QED
    BY <1>4, <2>1, <2>2 DEF up, fill
<1> QED
  BY <1>3, <1>4

-----------------------------------------------------------------------------
(* Queues that grow at their end and lose their head *)

Extends(q, q2) ==
    /\ DOMAIN q \subseteq DOMAIN q2
    /\ \A i \in DOMAIN q : q2[i] = q[i]
    /\ \A i \in DOMAIN q, j \in DOMAIN q2 \ DOMAIN q : i < j

Added(q, q2, e) == \E i \in DOMAIN q2 \ DOMAIN q : q2[i] = e

\* The places of a queue with one more event.
LEMMA AppendIs ==
  ASSUME NEW S, NEW q \in Seq(S), NEW e \in S
  PROVE  /\ Append(q, e) \in Seq(S) /\ Len(Append(q, e)) = Len(q) + 1 /\ Len(q) \in Nat
         /\ DOMAIN q = 1 .. Len(q) /\ DOMAIN Append(q, e) = DOMAIN q \cup {Len(q) + 1}
         /\ \A i \in DOMAIN q : Append(q, e)[i] = q[i]
         /\ Append(q, e)[Len(q) + 1] = e
OBVIOUS

\* The places of a queue without its oldest event.
LEMMA TailIs ==
  ASSUME NEW S, NEW q \in Seq(S), q # <<>>
  PROVE  /\ Tail(q) \in Seq(S) /\ Len(Tail(q)) = Len(q) - 1
         /\ 1 \in DOMAIN q /\ Head(q) = q[1] /\ Head(q) \in S
         /\ DOMAIN q \subseteq Int /\ DOMAIN Tail(q) \subseteq Int
         /\ \A i \in DOMAIN Tail(q) : i + 1 \in DOMAIN q /\ Tail(q)[i] = q[i + 1]
         /\ \A i \in DOMAIN q : 1 <= i
         /\ \A i \in DOMAIN q : i # 1 => i - 1 \in DOMAIN Tail(q) /\ Tail(q)[i - 1] = q[i]
OBVIOUS

\* A queue with one more event extends the queue.
LEMMA ExtendsAppend ==
  ASSUME NEW S, NEW q \in Seq(S), NEW e \in S
  PROVE  /\ Extends(q, Append(q, e))
         /\ Added(q, Append(q, e), e)
         /\ \A i \in DOMAIN Append(q, e) \ DOMAIN q : Append(q, e)[i] = e
<1>1. Len(q) + 1 \notin 1 .. Len(q) /\ \A i \in 1 .. Len(q) : i < Len(q) + 1
  OBVIOUS
<1> QED
  BY <1>1, AppendIs DEF Extends, Added

\* Extending is transitive, and the new events are those of the two steps.
LEMMA ExtendsTwice ==
  ASSUME NEW q, NEW q1, NEW q2, Extends(q, q1), Extends(q1, q2)
  PROVE  /\ Extends(q, q2)
         /\ \A i \in DOMAIN q2 \ DOMAIN q :
               \/ i \in DOMAIN q1 \ DOMAIN q /\ q2[i] = q1[i]
               \/ i \in DOMAIN q2 \ DOMAIN q1
BY DEF Extends

-----------------------------------------------------------------------------
(* Types *)

\* The precise types give the type invariant of the runs.
LEMMA TypesSuffice == Types /\ MarkType => StoreType
<1>1. dbq \in Seq(EventSet) => \A i \in DOMAIN dbq : dbq[i].cid \in Orders
  <2>1. dbq \in Seq(EventSet) => \A i \in DOMAIN dbq : dbq[i] \in EventSet
    OBVIOUS
  <2> QED
    BY <2>1 DEF EventSet
<1> QED
  BY <1>1 DEF Types, StoreType, EngineType, StatusType, WorldType, TableType, BeliefSet,
       ExchangeSet, ReportSet, MarkType

\* Submitting after some puts keeps the types.
LEMMA SubmitType ==
  ASSUME EngineType, NEW q \in Seq(EventSet), Len(q) <= QueueMax,
         NEW b \in BeliefSet,
         SubmitNothing(q, b) \/ \E o \in Orders : SubmitAfter(q, b, o)
  PROVE  EngineType'
<1>1. CASE SubmitNothing(q, b)
  BY <1>1 DEF SubmitNothing, EngineType
<1>2. ASSUME NEW o \in Orders, SubmitAfter(q, b, o) PROVE EngineType'
  <2>1. Intent(o) \in EventSet
    BY IntentType
  <2>2. submitted' \subseteq Orders
    BY <1>2 DEF SubmitAfter, EngineType
  <2>3. CASE /\ Room(q) > 0 /\ dbq' = Append(q, Intent(o)) /\ sendq' = Append(sendq, o)
             /\ belief' = [b EXCEPT ![o] = "placed"] /\ UNCHANGED lost
    <3>1. belief' \in BeliefSet
      BY <2>3 DEF BeliefSet
    <3>2. dbq' \in Seq(EventSet) /\ Len(dbq') <= QueueMax
      BY <2>1, <2>3, AppendIs, StoreAssumption DEF Room
    <3> QED
      BY <2>2, <2>3, <3>1, <3>2 DEF EngineType
  <2>4. CASE dbq' = q /\ belief' = b /\ lost' = lost \cup {o} /\ UNCHANGED sendq
    BY <2>2, <2>4 DEF EngineType
  <2> QED
    BY <1>2, <2>3, <2>4 DEF SubmitAfter
<1> QED
  BY <1>1, <1>2

\* The queue after the writes of a report.
Up(r) == OrderUpdate(r, NewLocalState(r, LocalCancel(r)))
Q1(r) == Append(dbq, Up(r))
Q2(r) == IF r.type = "TRADE" THEN Append(Q1(r), InsertFill(r)) ELSE Q1(r)

\* What the dispatcher does to the stream and the queue: all writes fit and the
\* engine handles the report, or the order loses one.
LEMMA DispatchIs ==
  ASSUME Types, Dispatch, NEW r, r = Head(stream)
  PROVE  /\ r \in ReportSet /\ stream # <<>> /\ stream \in Seq(ReportSet)
         /\ stream' = Tail(stream) /\ UNCHANGED <<status, pass, exchange, tables, doubted>>
         /\ Up(r) \in EventSet /\ Q1(r) \in Seq(EventSet) /\ Q2(r) \in Seq(EventSet)
         /\ \/ Len(Q2(r)) <= QueueMax /\ EngineHandles(r, Q2(r))
            \/ /\ dbq' = dbq \/ (Len(Q1(r)) <= QueueMax /\ dbq' = Q1(r))
               /\ lost' = lost \cup {r.cid} /\ UNCHANGED <<belief, submitted, sendq>>
<1> DEFINE w == ReportWrites(r)
           room == QueueMax - Len(dbq)
<1>1. /\ dbq \in Seq(EventSet) /\ room \in Nat /\ Len(dbq) \in Nat /\ Len(dbq) + room = QueueMax
      /\ stream \in Seq(ReportSet)
  BY StoreAssumption DEF Types, EngineType, WorldType
<1>2. /\ stream # <<>> /\ stream' = Tail(stream)
      /\ UNCHANGED <<status, pass, exchange, tables, doubted>>
      /\ r \in ReportSet
  BY <1>1 DEF Dispatch
<1>3. /\ Up(r) \in EventSet /\ InsertFill(r) \in EventSet
      /\ Q1(r) \in Seq(EventSet) /\ Len(Q1(r)) = Len(dbq) + 1
      /\ Q2(r) \in Seq(EventSet)
      /\ Len(Q2(r)) = IF r.type = "TRADE" THEN Len(dbq) + 2 ELSE Len(dbq) + 1
  BY <1>1, <1>2, WritesType DEF Up, Q1, Q2
<1>4. IF r.type = "TRADE"
      THEN Len(w) = 2 /\ dbq \o w = Q2(r) /\ dbq \o SubSeq(w, 1, 1) = Q1(r)
      ELSE Len(w) = 1 /\ dbq \o w = Q2(r)
  BY <1>1, <1>2, WritesAre DEF Q1, Q2, Up
<1>5. IF Len(w) <= room
      THEN EngineHandles(r, dbq \o w)
      ELSE /\ dbq' = dbq \o SubSeq(w, 1, room)
           /\ lost' = lost \cup {r.cid} /\ UNCHANGED <<belief, submitted, sendq>>
  BY DEF Dispatch, Room
<1> HIDE DEF w, room
<1>6. CASE Len(w) <= room
  <2>1. dbq \o w = Q2(r) /\ Len(Q2(r)) <= QueueMax
    BY <1>1, <1>3, <1>4, <1>6, StoreAssumption
  <2> QED
    BY <1>1, <1>2, <1>3, <1>5, <1>6, <2>1
<1>7. CASE ~(Len(w) <= room)
  <2>1. room = 0 \/ (r.type = "TRADE" /\ room = 1 /\ Len(Q1(r)) <= QueueMax)
    BY <1>1, <1>3, <1>4, <1>7, StoreAssumption
  <2>2. dbq \o SubSeq(w, 1, 0) = dbq
    <3>1. SubSeq(w, 1, 0) = <<>>
      BY SubSeqEmpty
    <3> QED
      BY <1>1, <3>1, ConcatEmptySeq
  <2>3. dbq' = dbq \/ (Len(Q1(r)) <= QueueMax /\ dbq' = Q1(r))
    BY <1>4, <1>5, <1>7, <2>1, <2>2
  <2> QED
    BY <1>1, <1>2, <1>3, <1>5, <1>7, <2>3
<1> QED
  BY <1>6, <1>7

\* What the engine does with a report it sees, in the queue q.
LEMMA HandlesIs ==
  ASSUME NEW r \in ReportSet, NEW q, EngineHandles(r, q), StatusType
  PROVE  \/ /\ r.state = "FILLED" /\ status = "RUNNING"
            /\ LET b == [belief EXCEPT ![r.cid] = "filled"]
               IN  SubmitNothing(q, b) \/ \E p \in Orders : SubmitAfter(q, b, p)
         \/ r.type \in {"EXPIRED", "REJECTED"} /\ status = "RUNNING" /\ RefusalHandled(r, q)
         \/ /\ status = "RUNNING" => r.type \notin {"EXPIRED", "REJECTED"} \/ r.state = "PARTIALLY_FILLED"
            /\ SubmitNothing(q, belief)
BY DEF EngineHandles, FillHandled, StatusType

\* What becomes of a refusal, by the room and the kind of the report.
LEMMA RefusalIs ==
  ASSUME NEW r \in ReportSet, NEW q, RefusalHandled(r, q)
  PROVE  /\ UNCHANGED <<submitted, sendq>>
         /\ \/ /\ Room(q) > 0 /\ UNCHANGED lost
               /\ \/ /\ r.type = "EXPIRED" /\ dbq' = Append(q, LocalState(r.cid, "MISSED"))
                     /\ belief' = [belief EXCEPT ![r.cid] = "missed"]
                  \/ /\ r.type # "EXPIRED" /\ dbq' = Append(q, LocalState(r.cid, "REJECTED"))
                     /\ belief' = [belief EXCEPT ![r.cid] = "freed"]
            \/ /\ dbq' = q /\ lost' = lost \cup {r.cid}
               /\ belief' = [belief EXCEPT ![r.cid] = "freed"]
BY DEF RefusalHandled

\* Dispatching a report keeps the types.
LEMMA DispatchType ==
  ASSUME Types, Dispatch
  PROVE  Types'
<1> DEFINE r == Head(stream)
<1>1. EngineType /\ StatusType /\ WorldType /\ TableType
  BY DEF Types
<1>2. StatusType' /\ WorldType' /\ TableType' /\ r \in ReportSet
  <2>1. /\ r \in ReportSet /\ stream # <<>> /\ stream \in Seq(ReportSet)
        /\ stream' = Tail(stream) /\ UNCHANGED <<status, exchange, tables>>
    BY DispatchIs
  <2>2. stream' \in Seq(ReportSet)
    BY <2>1
  <2> QED
    BY <1>1, <2>1, <2>2 DEF StatusType, WorldType, TableType, tables
<1>3. /\ Q1(r) \in Seq(EventSet) /\ Q2(r) \in Seq(EventSet) /\ r.cid \in Orders
      /\ \A s \in {"REJECTED", "MISSED"} : LocalState(r.cid, s) \in EventSet
      /\ belief \in BeliefSet /\ dbq \in Seq(EventSet) /\ Len(dbq) <= QueueMax
      /\ \A s \in {"filled", "missed", "freed"} : [belief EXCEPT ![r.cid] = s] \in BeliefSet
  BY <1>1, <1>2, DispatchIs, WritesType DEF ReportSet, EngineType, BeliefSet
<1> HIDE DEF r
<1>4. CASE Len(Q2(r)) <= QueueMax /\ EngineHandles(r, Q2(r))
  <2>1. CASE /\ r.state = "FILLED" /\ status = "RUNNING"
             /\ LET b == [belief EXCEPT ![r.cid] = "filled"]
                IN  SubmitNothing(Q2(r), b) \/ \E p \in Orders : SubmitAfter(Q2(r), b, p)
    BY <1>1, <1>2, <1>3, <1>4, <2>1, SubmitType DEF Types
  <2>2. CASE RefusalHandled(r, Q2(r))
    <3>1. dbq' \in Seq(EventSet) /\ Len(dbq') <= QueueMax
      <4>1. /\ Len(Q2(r)) \in Nat
            /\ \A e \in EventSet : /\ Append(Q2(r), e) \in Seq(EventSet)
                                  /\ Len(Append(Q2(r), e)) = Len(Q2(r)) + 1
        BY <1>3
      <4>2. \/ dbq' = Q2(r)
            \/ Room(Q2(r)) > 0 /\ \E s \in {"REJECTED", "MISSED"} :
                                      dbq' = Append(Q2(r), LocalState(r.cid, s))
        BY <1>2, <2>2, RefusalIs
      <4>3. ASSUME NEW e \in EventSet, Room(Q2(r)) > 0, dbq' = Append(Q2(r), e)
            PROVE  dbq' \in Seq(EventSet) /\ Len(dbq') <= QueueMax
        BY <4>1, <4>3, StoreAssumption DEF Room
      <4> QED
        BY <1>3, <1>4, <4>2, <4>3
    <3>2. belief' \in BeliefSet /\ submitted' \subseteq Orders /\ sendq' \in Seq(Orders)
          /\ lost' \subseteq Orders
      BY <1>1, <1>2, <1>3, <2>2, RefusalIs DEF EngineType
    <3> QED
      BY <1>2, <3>1, <3>2 DEF Types, EngineType
  <2>3. CASE SubmitNothing(Q2(r), belief)
    BY <1>1, <1>2, <1>3, <1>4, <2>3, SubmitType DEF Types
  <2> QED
    BY <1>1, <1>2, <1>4, <2>1, <2>2, <2>3, HandlesIs
<1>5. CASE /\ dbq' = dbq \/ (Len(Q1(r)) <= QueueMax /\ dbq' = Q1(r))
           /\ lost' = lost \cup {r.cid} /\ UNCHANGED <<belief, submitted, sendq>>
  BY <1>1, <1>2, <1>3, <1>5 DEF Types, EngineType
<1> QED
  BY <1>4, <1>5, DispatchIs DEF r

\* Submitting an order and overriding a ghost keep the types.
LEMMA SubmissionType ==
  ASSUME Types, NEW o \in Orders,
         SubmitOrder(o) \/ \E p \in Orders : GhostOverride(o, p)
  PROVE  Types'
<1>1. EngineType /\ StatusType /\ WorldType /\ TableType
  BY DEF Types
<1>2. StatusType' /\ WorldType' /\ TableType'
  BY <1>1 DEF SubmitOrder, GhostOverride, StatusType, WorldType, TableType, tables
<1>3. dbq \in Seq(EventSet) /\ Len(dbq) <= QueueMax /\ belief \in BeliefSet
      /\ [belief EXCEPT ![o] = "freed"] \in BeliefSet
  BY <1>1 DEF EngineType, BeliefSet
<1>4. CASE SubmitOrder(o)
  BY <1>1, <1>2, <1>3, <1>4, SubmitType DEF SubmitOrder, Types
<1>5. ASSUME NEW p \in Orders, GhostOverride(o, p) PROVE EngineType'
  <2> DEFINE freed == [belief EXCEPT ![o] = "freed"]
             e == LocalState(o, "REJECTED")
  <2>1. CASE Room(dbq) > 0 /\ SubmitAfter(Append(dbq, e), freed, p)
    <3>1. e \in EventSet
      BY IntentType
    <3>2. Append(dbq, e) \in Seq(EventSet) /\ Len(Append(dbq, e)) <= QueueMax
      BY <1>3, <2>1, <3>1, AppendIs, StoreAssumption DEF Room
    <3> QED
      BY <1>1, <1>3, <2>1, <3>2, SubmitType
  <2>2. CASE belief' = freed /\ lost' = lost \cup {o} /\ UNCHANGED <<submitted, sendq, dbq>>
    BY <1>1, <1>3, <2>2 DEF EngineType
  <2> QED
    BY <1>5, <2>1, <2>2 DEF GhostOverride
<1> QED
  BY <1>2, <1>4, <1>5 DEF Types

\* Clearing a line keeps the types.
LEMMA ClearType ==
  ASSUME Types, NEW o \in Orders, Clear(o)
  PROVE  Types'
<1>1. /\ EngineType /\ StatusType /\ WorldType /\ TableType
      /\ UNCHANGED <<status, submitted, sendq, exchange, stream, tables>>
  BY DEF Types, Clear, Reconciles
<1>2. belief' \in BeliefSet
  BY <1>1 DEF Clear, EngineType, BeliefSet
<1>3. /\ lost' \subseteq Orders
      /\ \/ dbq' = dbq
         \/ Room(dbq) > 0 /\ dbq' = Append(dbq, LocalState(o, "REJECTED"))
  BY <1>1 DEF Clear, EngineType
<1>4. dbq' \in Seq(EventSet) /\ Len(dbq') <= QueueMax
  <2>1. LocalState(o, "REJECTED") \in EventSet /\ dbq \in Seq(EventSet) /\ Len(dbq) <= QueueMax
    BY <1>1, IntentType DEF EngineType
  <2> QED
    BY <1>3, <2>1, AppendIs, StoreAssumption DEF Room
<1> QED
  BY <1>1, <1>2, <1>3, <1>4 DEF Types, EngineType, StatusType, WorldType, TableType, tables

\* What the writer does with its oldest event.
LEMMA WriteIs ==
  ASSUME Types, DbWrite, NEW e, e = Head(dbq)
  PROVE  /\ e \in EventSet /\ dbq # <<>> /\ dbq \in Seq(EventSet) /\ dbq' = Tail(dbq)
         /\ UNCHANGED <<engineVars, exchange, stream, lost, doubted>>
         /\ \/ ~Updates(e) /\ ~Renames(e) /\ e.op # "insert_fill"
               /\ rows[e.cid] # NoRow /\ UNCHANGED tables
            \/ (Updates(e) \/ Renames(e)) /\ rows[e.cid] = NoRow /\ UNCHANGED tables
            \/ /\ ~Updates(e) /\ ~Renames(e) /\ e.op # "insert_fill" /\ rows[e.cid] = NoRow
               /\ rows' = [rows EXCEPT ![e.cid] = [state |-> e.state, n |-> 0]]
               /\ UNCHANGED fills
            \/ /\ Updates(e) /\ rows[e.cid] # NoRow
               /\ rows' = [rows EXCEPT ![e.cid] = [state |-> e.state, n |-> e.n]]
               /\ UNCHANGED fills
            \/ /\ Renames(e) /\ rows[e.cid] # NoRow
               /\ rows' = [rows EXCEPT ![e.cid] = [state |-> e.state, n |-> rows[e.cid].n]]
               /\ UNCHANGED fills
            \/ e.op = "insert_fill" /\ UNCHANGED rows /\ UpsertFill(e)
<1>1. /\ dbq # <<>> /\ dbq \in Seq(EventSet) /\ dbq' = Tail(dbq) /\ Handle(e)
      /\ UNCHANGED <<engineVars, exchange, stream, lost, doubted>>
  BY DEF Types, EngineType, DbWrite
<1>2. e \in EventSet
  BY <1>1
<1>3. e.cid \in Orders /\ rows[e.cid] \in [state : LocalOrderState \cup {"NONE"}, n : Nat]
  BY <1>2 DEF EventSet, Types, TableType
<1>4. [rows EXCEPT ![e.cid].state = e.state]
        = [rows EXCEPT ![e.cid] = [state |-> e.state, n |-> rows[e.cid].n]]
  <2>1. \A row \in [state : LocalOrderState \cup {"NONE"}, n : Nat] :
           [row EXCEPT !.state = e.state] = [state |-> e.state, n |-> row.n]
    OBVIOUS
  <2> QED
    BY <1>3, <2>1
<1>5. CASE e.op = "upsert_order_from_intent"
  BY <1>1, <1>2, <1>5 DEF Handle, UpsertOrder, Updates, Renames, tables
<1>6. CASE e.op = "update_order_from_execution"
  BY <1>1, <1>2, <1>6 DEF Handle, UpdateOrder, Updates, Renames, tables
<1>7. CASE e.op = "update_order_local_state"
  BY <1>1, <1>2, <1>4, <1>7 DEF Handle, SetLocalState, Updates, Renames, tables
<1>8. CASE e.op = "insert_fill"
  BY <1>1, <1>2, <1>8 DEF Handle
<1> QED
  BY <1>1, <1>5, <1>6, <1>7, <1>8 DEF Handle

\* Applying an event to the tables keeps the types.
LEMMA WriteType ==
  ASSUME Types, Genuine, DbWrite
  PROVE  Types'
<1> DEFINE e == Head(dbq)
<1>1. /\ EngineType /\ StatusType /\ WorldType /\ TableType
      /\ dbq \in Seq(EventSet) /\ Len(dbq) <= QueueMax /\ dbq # <<>> /\ dbq' = Tail(dbq)
      /\ UNCHANGED <<engineVars, exchange, stream, lost>>
  BY DEF Types, EngineType, DbWrite
<1>2. /\ dbq' \in Seq(EventSet) /\ Len(dbq') <= QueueMax /\ e \in EventSet
  BY <1>1, TailIs, StoreAssumption
<1>3. e.cid \in Orders /\ e.n \in Nat /\ e.state \in LocalOrderState \cup {"NEW"}
  BY <1>2 DEF EventSet
<1>4. EngineType' /\ StatusType' /\ WorldType'
  BY <1>1, <1>2, <1>3 DEF EngineType, StatusType, WorldType, engineVars
<1>5. e.op # "insert_fill" => e.state \in LocalOrderState
  <2>1. Justified(e)
    BY <1>1, TailIs DEF Genuine
  <2> QED
    BY <2>1 DEF Justified, Intent, Updates, Renames, Says, Judges, Denies, LocalOrderState
<1> HIDE DEF e
<1>6. TableType'
  <2>1. CASE e.op # "insert_fill" /\ rows' # rows
    <3>1. /\ UNCHANGED fills
          /\ \E n \in Nat : rows' = [rows EXCEPT ![e.cid] = [state |-> e.state, n |-> n]]
      BY <1>1, <1>3, <2>1, WriteIs DEF TableType, tables, Updates, Renames, e
    <3> QED
      BY <1>1, <1>3, <1>5, <2>1, <3>1 DEF TableType
  <2>2. CASE e.op = "insert_fill"
    <3>1. UNCHANGED rows /\ UpsertFill(e)
      BY <2>2, WriteIs DEF e, Updates, Renames
    <3>2. fills[e.cid] \in Seq(Nat) /\ Append(fills[e.cid], e.n) \in Seq(Nat)
      BY <1>1, <1>3 DEF TableType
    <3> QED
      BY <1>1, <3>1, <3>2 DEF UpsertFill, TableType
  <2>3. CASE e.op # "insert_fill" /\ rows' = rows
    BY <1>1, <2>3, WriteIs DEF TableType, tables, e
  <2> QED
    BY <2>1, <2>2, <2>3
<1> QED
  BY <1>4, <1>6 DEF Types

\* Dropping an event keeps the types.
LEMMA WriteFailsType ==
  ASSUME Types, DbWriteFails
  PROVE  Types'
<1>1. /\ dbq \in Seq(EventSet) /\ Len(dbq) <= QueueMax /\ dbq # <<>> /\ dbq' = Tail(dbq)
      /\ lost' = lost \cup {Head(dbq).cid}
      /\ UNCHANGED <<engineVars, exchange, stream, tables>>
  BY DEF Types, EngineType, DbWriteFails
<1>2. dbq' \in Seq(EventSet) /\ Len(dbq') <= QueueMax /\ Head(dbq).cid \in Orders
  <2>1. Head(dbq) \in EventSet
    BY <1>1
  <2> QED
    BY <1>1, <2>1, TailIs, StoreAssumption DEF EventSet
<1> QED
  BY <1>1, <1>2 DEF Types, EngineType, StatusType, WorldType, TableType, engineVars, tables

-----------------------------------------------------------------------------
(* What the exchange does *)

\* An order arrives, trades or is canceled: its state moves on and is reported
\* once or twice.
Reported(o, x) ==
    /\ x.n = exchange[o].n + 1
    /\ \/ exchange[o].state = "none" /\ x.state \in {"open", "expired", "rejected"}
       \/ exchange[o].state = "open" /\ x.state \in {"open", "filled", "canceled"}
    /\ \E r \in ReportSet :
          /\ r.cid = o /\ r.n = x.n /\ Tells(x, r)
          /\ stream' = Append(stream, r) \/ stream' = Append(Append(stream, r), r)

\* An order is lost on its way.
Vanished(o, x) == /\ exchange[o].state = "none" /\ x = [state |-> "lost", n |-> 0]
                  /\ UNCHANGED stream

Sent(o) == \/ /\ exchange[o].state = "none" /\ sendq # <<>>
              /\ o = Head(sendq) /\ sendq' = Tail(sendq)
           \/ exchange[o].state = "open" /\ UNCHANGED sendq

Moved(o, x) ==
    /\ exchange' = [exchange EXCEPT ![o] = x]
    /\ Reported(o, x) \/ Vanished(o, x)
    /\ Sent(o)
    /\ UNCHANGED <<status, belief, submitted, pass, dbq, tables, lost, doubted>>

States == {"none", "open", "filled", "canceled", "expired", "rejected", "lost"}

\* An execution moves the order on the exchange and reports it once or twice.
LEMMA ExecuteIs ==
  ASSUME Types, NEW o \in Orders, Counted(exchange[o]),
         NEW type, NEW state, NEW final, Execute(o, type, state, final),
         \/ /\ exchange[o].state = "none"
            /\ <<type, state, final>> \in {<<"NEW", "NEW", "open">>,
                  <<"EXPIRED", "EXPIRED", "expired">>, <<"REJECTED", "REJECTED", "rejected">>}
         \/ /\ exchange[o].state = "open"
            /\ \/ <<type, state, final>> = <<"TRADE", "PARTIALLY_FILLED", "open">>
                  /\ exchange[o].n # Parts
               \/ <<type, state, final>> = <<"TRADE", "FILLED", "filled">>
                  /\ exchange[o].n = Parts
               \/ <<type, state, final>> = <<"CANCELED", "CANCELED", "canceled">>
  PROVE  LET x == [state |-> final, n |-> exchange[o].n + 1]
         IN  /\ exchange' = [exchange EXCEPT ![o] = x] /\ Reported(o, x)
             /\ Counted(x) /\ x \in [state : States, n : 0 .. Parts + 2]
<1> DEFINE x == [state |-> final, n |-> exchange[o].n + 1]
           r == Report(o, type, state, exchange[o].n + 1)
<1>1. /\ exchange \in ExchangeSet /\ stream \in Seq(ReportSet)
      /\ exchange[o].n \in Nat /\ exchange[o].n <= Parts /\ Parts \in Nat \ {0}
  BY StoreAssumption DEF Types, WorldType, ExchangeSet, Counted
<1>2. /\ final \in {"open", "filled", "canceled", "expired", "rejected"}
      /\ type \in {"NEW", "TRADE", "CANCELED", "EXPIRED", "REJECTED"}
      /\ state \in {"NEW", "PARTIALLY_FILLED", "FILLED", "CANCELED", "EXPIRED", "REJECTED"}
  OBVIOUS
<1>3. r \in ReportSet /\ r.cid = o /\ r.n = x.n /\ r.type = type /\ r.state = state
  BY <1>1, <1>2 DEF Report, ReportSet
<1>4. x.state = final /\ x.n = exchange[o].n + 1
  OBVIOUS
<1>5. exchange' = [exchange EXCEPT ![o] = x]
  BY <1>1 DEF Execute, ExchangeSet
<1>6. stream' = Append(stream, r) \/ stream' = Append(Append(stream, r), r)
  <2>1. stream' = Append(stream, r) \/ stream' = stream \o <<r, r>>
    BY DEF Execute, Publish
  <2>2. \A e \in ReportSet : stream \o <<e, e>> = Append(Append(stream, e), e)
    BY <1>1
  <2> QED
    BY <1>3, <2>1, <2>2
<1> HIDE DEF x, r
<1>7. Tells(x, r) /\ Counted(x)
  BY <1>1, <1>3, <1>4 DEF Tells, Counted
<1>8. x \in [state : States, n : 0 .. Parts + 2]
  BY <1>1, <1>2, <1>4 DEF x, States
<1>9. \/ exchange[o].state = "none" /\ x.state \in {"open", "expired", "rejected"}
      \/ exchange[o].state = "open" /\ x.state \in {"open", "filled", "canceled"}
  BY <1>4
<1>10. Reported(o, x)
  BY <1>3, <1>4, <1>6, <1>7, <1>9 DEF Reported
<1> QED
  BY <1>5, <1>7, <1>8, <1>10 DEF x

\* Each of the exchange's actions moves one order.
LEMMA MovedIs ==
  ASSUME Types, Genuine, Sending, Arrive \/ \E o \in Orders : Trade(o) \/ Cancel(o)
  PROVE  \E o \in Orders, x \in [state : States, n : 0 .. Parts + 2] :
            Moved(o, x) /\ Counted(x)
<1>1. \A o \in Orders : Counted(exchange[o])
  BY DEF Genuine
<1>2. CASE Arrive
  <2> DEFINE o == Head(sendq)
  <2>1. /\ sendq # <<>> /\ sendq' = Tail(sendq) /\ o \in Orders
        /\ UNCHANGED <<status, belief, submitted, pass, dbq, tables, lost, doubted>>
    BY <1>2 DEF Arrive, Environment, Types, EngineType
  <2>2. exchange[o].state = "none"
    <3>1. 1 \in DOMAIN sendq /\ o = sendq[1]
      BY <2>1 DEF Types, EngineType
    <3> QED
      BY <3>1 DEF Sending
  <2>3. Sent(o)
    BY <2>1, <2>2 DEF Sent
  <2>4. \/ Execute(o, "NEW", "NEW", "open")
        \/ Execute(o, "EXPIRED", "EXPIRED", "expired")
        \/ Execute(o, "REJECTED", "REJECTED", "rejected")
        \/ exchange' = [exchange EXCEPT ![o].state = "lost"] /\ UNCHANGED stream
    BY <1>2 DEF Arrive
  <2> HIDE DEF o
  <2>5. ASSUME NEW t, NEW s, NEW f, Execute(o, t, s, f),
               <<t, s, f>> \in {<<"NEW", "NEW", "open">>,
                  <<"EXPIRED", "EXPIRED", "expired">>, <<"REJECTED", "REJECTED", "rejected">>}
        PROVE  \E x \in [state : States, n : 0 .. Parts + 2] : Moved(o, x) /\ Counted(x)
    <3> DEFINE x == [state |-> f, n |-> exchange[o].n + 1]
    <3>1. /\ exchange' = [exchange EXCEPT ![o] = x] /\ Reported(o, x)
          /\ Counted(x) /\ x \in [state : States, n : 0 .. Parts + 2]
      BY <1>1, <2>1, <2>2, <2>5, ExecuteIs
    <3> HIDE DEF x
    <3> QED
      BY <2>1, <2>3, <3>1 DEF Moved
  <2>6. CASE exchange' = [exchange EXCEPT ![o].state = "lost"] /\ UNCHANGED stream
    <3> DEFINE x == [state |-> "lost", n |-> 0]
    <3>1. exchange \in ExchangeSet /\ exchange[o].n = 0
      BY <1>1, <2>1, <2>2 DEF Types, WorldType, Counted
    <3>2. [exchange EXCEPT ![o].state = "lost"] = [exchange EXCEPT ![o] = x]
      <4>1. \A y \in [state : States, n : 0 .. Parts + 2] :
               [y EXCEPT !.state = "lost"] = [state |-> "lost", n |-> y.n]
        OBVIOUS
      <4> QED
        BY <2>1, <3>1, <4>1 DEF ExchangeSet, States
    <3>3. Counted(x) /\ x \in [state : States, n : 0 .. Parts + 2] /\ Vanished(o, x)
      BY <2>2, <2>6, StoreAssumption DEF Counted, States, Vanished
    <3> HIDE DEF x
    <3> QED
      BY <2>1, <2>3, <2>6, <3>2, <3>3 DEF Moved
  <2> QED
    BY <2>1, <2>4, <2>5, <2>6
<1>3. ASSUME NEW o \in Orders, Trade(o) \/ Cancel(o)
      PROVE  \E x \in [state : States, n : 0 .. Parts + 2] : Moved(o, x) /\ Counted(x)
  <2>1. /\ exchange[o].state = "open" /\ Sent(o)
        /\ UNCHANGED <<status, belief, submitted, pass, dbq, tables, lost, doubted>>
    BY <1>3 DEF Trade, Cancel, Environment, Sent
  <2>2. \E t, s, f :
           /\ Execute(o, t, s, f)
           /\ \/ <<t, s, f>> = <<"TRADE", "PARTIALLY_FILLED", "open">> /\ exchange[o].n # Parts
              \/ <<t, s, f>> = <<"TRADE", "FILLED", "filled">> /\ exchange[o].n = Parts
              \/ <<t, s, f>> = <<"CANCELED", "CANCELED", "canceled">>
    BY <1>3 DEF Trade, Cancel
  <2>3. PICK t, s, f :
           /\ Execute(o, t, s, f)
           /\ \/ <<t, s, f>> = <<"TRADE", "PARTIALLY_FILLED", "open">> /\ exchange[o].n # Parts
              \/ <<t, s, f>> = <<"TRADE", "FILLED", "filled">> /\ exchange[o].n = Parts
              \/ <<t, s, f>> = <<"CANCELED", "CANCELED", "canceled">>
    BY <2>2
  <2> DEFINE x == [state |-> f, n |-> exchange[o].n + 1]
  <2>4. /\ exchange' = [exchange EXCEPT ![o] = x] /\ Reported(o, x)
        /\ Counted(x) /\ x \in [state : States, n : 0 .. Parts + 2]
    BY <1>1, <2>1, <2>3, ExecuteIs
  <2> HIDE DEF x
  <2> QED
    BY <2>1, <2>4 DEF Moved
<1> QED
  BY <1>2, <1>3

\* A move of an order on the exchange keeps the types.
LEMMA MovedType ==
  ASSUME Types, NEW o \in Orders, NEW x \in [state : States, n : 0 .. Parts + 2], Moved(o, x)
  PROVE  Types'
<1>1. EngineType' /\ StatusType' /\ TableType'
  <2>1. sendq \in Seq(Orders)
    BY DEF Types, EngineType
  <2>2. sendq' = sendq \/ (sendq # <<>> /\ sendq' = Tail(sendq))
    BY DEF Moved, Sent
  <2>3. sendq # <<>> => Tail(sendq) \in Seq(Orders)
    BY <2>1, TailIs, Zenon
  <2>4. sendq' \in Seq(Orders)
    BY <2>1, <2>2, <2>3
  <2> QED
    BY <2>4 DEF Types, EngineType, StatusType, TableType, Moved, tables
<1>2. exchange' \in ExchangeSet
  BY DEF Types, WorldType, ExchangeSet, Moved, States
<1>3. stream' \in Seq(ReportSet)
  <2>1. stream \in Seq(ReportSet)
    BY DEF Types, WorldType
  <2>2. \/ stream' = stream
        \/ \E r \in ReportSet :
              stream' = Append(stream, r) \/ stream' = Append(Append(stream, r), r)
    BY DEF Moved, Reported, Vanished
  <2>3. \A r \in ReportSet : /\ Append(stream, r) \in Seq(ReportSet)
                              /\ Append(Append(stream, r), r) \in Seq(ReportSet)
    BY <2>1
  <2> QED
    BY <2>1, <2>2, <2>3
<1> QED
  BY <1>1, <1>2, <1>3 DEF Types, WorldType

\* The emergency stop keeps the types.
LEMMA StopType ==
  ASSUME Types, EmergencyStop
  PROVE  Types'
BY DEF Types, EmergencyStop, EngineType, StatusType, WorldType, TableType, tables

-----------------------------------------------------------------------------
(* What the engine does *)

\* Event e repeats what has happened, or what the dispatcher has just read.
NewEvent(e) ==
    \/ e = Intent(e.cid)
    \/ Renames(e) /\ (Judges(exchange[e.cid], e.state)
                       \/ (e.cid \in doubted' /\ e.state = "REJECTED"))
    \/ e.op = "insert_fill" /\ e.n \in Trades(e.cid)
    \/ stream # <<>> /\ stream' = Tail(stream) /\ e = Up(Head(stream))

Grown(q, C) ==
    /\ q \in Seq(EventSet) /\ Extends(dbq, q)
    /\ \A i \in DOMAIN q \ DOMAIN dbq : q[i].cid \in C /\ NewEvent(q[i])

\* Order p is submitted, or lost for want of room.
Submits(p) ==
    /\ p \notin submitted /\ submitted' = submitted \cup {p}
    /\ \/ /\ sendq' = Append(sendq, p) /\ belief'[p] = "placed"
          /\ \E i \in DOMAIN dbq' :
                dbq'[i] = Intent(p) /\ \A j \in DOMAIN dbq' : dbq'[j].cid = p => i <= j
          /\ \A i \in DOMAIN dbq' : dbq'[i].cid = p => ~Renames(dbq'[i])
       \/ sendq' = sendq /\ belief'[p] = belief[p] /\ p \in lost'

\* Order h is given up: lost it is, or doubted from now on.
GivesUp(h) ==
    /\ exchange[h].state = "lost" \/ h \in doubted'
    /\ belief'[h] \in {"freed", "missed"} /\ UNCHANGED stream
    /\ \E i \in DOMAIN dbq' : Renames(dbq'[i]) /\ dbq'[i].cid = h

\* The reconciliation clears the line of order h, whose row has told its end.
Clears(h) ==
    /\ pass[h] \in {"ended", "canceled"} /\ UNCHANGED <<stream, dbq, doubted>>
    /\ belief'[h] = IF pass[h] = "canceled" THEN "freed" ELSE "missed"

\* A report of order h is stored and handled.
TakesReport(h) ==
    LET r == Head(stream)
    IN  /\ stream # <<>> /\ h = r.cid /\ stream' = Tail(stream)
        /\ Added(dbq, dbq', Up(r))
        /\ r.type = "TRADE" => Added(dbq, dbq', InsertFill(r))
        /\ r.type = "EXPIRED" =>
              IF status = "RUNNING"
              THEN /\ belief'[h] = "missed"
                   /\ \E j \in DOMAIN dbq' : /\ Renames(dbq'[j]) /\ dbq'[j].cid = h
                                             /\ \A i \in DOMAIN dbq' : i <= j
              ELSE /\ belief'[h] = belief[h]
                   /\ \A i \in DOMAIN dbq' \ DOMAIN dbq : ~Renames(dbq'[i])

\* A handler runs: it takes something of order h for granted and may submit order p.
EngineStep(h, p) ==
    /\ UNCHANGED <<status, exchange, tables>>
    /\ lost \subseteq lost' /\ Grown(dbq', {h, p})
    /\ doubted \subseteq doubted' /\ doubted' \subseteq doubted \cup {h}
    /\ \A o \in Orders : pass'[o] = pass[o] \/ pass'[o] = "none"
    /\ \A o \in Orders \ {h, p} : belief'[o] = belief[o]
    /\ \/ stream' = stream
       \/ stream # <<>> /\ h = Head(stream).cid /\ stream' = Tail(stream)
    /\ \/ p = h /\ UNCHANGED <<submitted, sendq>>
       \/ Submits(p)
    /\ \/ h = p /\ Submits(p) /\ UNCHANGED <<stream, doubted>>
       \/ h \in submitted /\ (h \in lost' \/ GivesUp(h) \/ Clears(h) \/ TakesReport(h))

\* The reconciliation looks at order o, or at its row.
Looks(o) ==
    /\ o \in submitted
    /\ UNCHANGED <<status, belief, submitted, sendq, exchange, stream, dbq, rows, fills, lost,
                   doubted>>
    /\ \A p \in Orders \ {o} : pass'[p] = pass[p]
    /\ pass'[o] = "ended" => belief[o] = "placed" /\ rows[o].state \in {"REJECTED", "EXPIRED"}
    /\ pass'[o] = "canceled" => rows[o].state \in {"CANCELED", "EXTERNAL_CANCELED"}

\* The queue as it stands has grown by nothing.
LEMMA GrownSelf ==
  ASSUME Types, NEW C
  PROVE  Grown(dbq, C)
<1>1. dbq \in Seq(EventSet)
  BY DEF Types, EngineType
<1> QED
  BY <1>1 DEF Grown, Extends

\* A queue grown for some orders may grow by a new event of one of them.
LEMMA GrownAppend ==
  ASSUME NEW C, NEW q, Grown(q, C), NEW e \in EventSet, e.cid \in C, NewEvent(e)
  PROVE  /\ Grown(Append(q, e), C) /\ Extends(q, Append(q, e))
         /\ Added(dbq, Append(q, e), e)
         /\ \A i \in DOMAIN Append(q, e) \ DOMAIN dbq :
               (i \in DOMAIN q \ DOMAIN dbq /\ Append(q, e)[i] = q[i]) \/ Append(q, e)[i] = e
<1> DEFINE q2 == Append(q, e)
<1>1. q \in Seq(EventSet) /\ Extends(dbq, q)
  BY DEF Grown
<1>2. /\ q2 \in Seq(EventSet) /\ Extends(q, q2) /\ Added(q, q2, e)
      /\ \A i \in DOMAIN q2 \ DOMAIN q : q2[i] = e
  BY <1>1, AppendIs, ExtendsAppend
<1> HIDE DEF q2
<1>3. /\ Extends(dbq, q2)
      /\ \A i \in DOMAIN q2 \ DOMAIN dbq :
            (i \in DOMAIN q \ DOMAIN dbq /\ q2[i] = q[i]) \/ i \in DOMAIN q2 \ DOMAIN q
  BY <1>1, <1>2, ExtendsTwice
<1>4. Added(dbq, q2, e)
  BY <1>1, <1>2 DEF Added, Extends
<1> QED
  BY <1>2, <1>3, <1>4 DEF Grown, q2

\* A new event survives the puts that follow.
LEMMA AddedKept ==
  ASSUME NEW q, NEW q1, NEW q2, NEW e, Added(q, q1, e), Extends(q1, q2)
  PROVE  Added(q, q2, e)
BY DEF Added, Extends

\* Submitting order p, of which nobody has heard, after the puts of queue q.
LEMMA SubmitsIs ==
  ASSUME Types, NEW C, NEW q, Grown(q, C), NEW b \in BeliefSet, NEW p \in Orders,
         SubmitAfter(q, b, p), b[p] = belief[p], \A i \in DOMAIN q : q[i].cid # p
  PROVE  /\ Submits(p) /\ lost \subseteq lost' /\ Extends(q, dbq')
         /\ Grown(dbq', C \cup {p})
         /\ \A o \in Orders \ {p} : belief'[o] = b[o]
<1>1. /\ p \notin submitted /\ submitted' = submitted \cup {p}
      /\ q \in Seq(EventSet) /\ Grown(q, C \cup {p}) /\ Intent(p) \in EventSet
  BY IntentType DEF SubmitAfter, Grown
<1>2. CASE /\ dbq' = Append(q, Intent(p)) /\ sendq' = Append(sendq, p)
           /\ belief' = [b EXCEPT ![p] = "placed"] /\ UNCHANGED lost
  <2>1. Intent(p).cid = p /\ NewEvent(Intent(p))
    BY DEF Intent, NewEvent
  <2>2. Grown(dbq', C \cup {p}) /\ Extends(q, dbq')
    BY <1>1, <1>2, <2>1, GrownAppend
  <2>3. /\ Len(q) + 1 \in DOMAIN dbq' /\ dbq'[Len(q) + 1] = Intent(p)
        /\ \A j \in DOMAIN dbq' : (j \in DOMAIN q /\ dbq'[j] = q[j]) \/ j = Len(q) + 1
    BY <1>1, <1>2, AppendIs
  <2>4. /\ \E i \in DOMAIN dbq' :
              dbq'[i] = Intent(p) /\ \A j \in DOMAIN dbq' : dbq'[j].cid = p => i <= j
        /\ \A i \in DOMAIN dbq' : dbq'[i].cid = p => ~Renames(dbq'[i])
    <3>1. ~Renames(Intent(p))
      BY DEF Renames, Intent
    <3> QED
      BY <1>1, <2>3, <3>1
  <2> QED
    BY <1>1, <1>2, <2>2, <2>4 DEF Submits, BeliefSet
<1>3. CASE dbq' = q /\ belief' = b /\ lost' = lost \cup {p} /\ UNCHANGED sendq
  BY <1>1, <1>3 DEF Submits, Extends
<1> QED
  BY <1>2, <1>3 DEF SubmitAfter

\* What the oldest report says of its order.
LEMMA ReportIs ==
  ASSUME Types, Genuine, stream # <<>>, NEW r, r = Head(stream)
  PROVE  /\ r \in ReportSet /\ r.cid \in Orders
         /\ Tells(exchange[r.cid], r) /\ Counted(exchange[r.cid])
         /\ exchange[r.cid].state \notin {"none", "lost"}
         /\ Updates(Up(r)) /\ ~Renames(Up(r)) /\ Up(r).op # "insert_fill"
         /\ Up(r).cid = r.cid /\ Up(r).n = r.n /\ Up(r) # Intent(r.cid)
         /\ Says(exchange[r.cid], r.n, Up(r).state)
         /\ r.type = "TRADE" => r.n \in Trades(r.cid)
         /\ r.n \in Trades(r.cid) => r.type = "TRADE"
         /\ r.type = "EXPIRED" <=> exchange[r.cid].state = "expired"
         /\ r.type = "REJECTED" => exchange[r.cid].state = "rejected"
         /\ status = "RUNNING" => Up(r).state # "CANCELED"
         /\ status # "RUNNING" => Up(r).state # "EXTERNAL_CANCELED"
<1> DEFINE x == exchange[r.cid]
<1>1. r \in ReportSet /\ r.cid \in Orders /\ r.n \in Nat /\ Tells(x, r)
  <2>1. /\ stream \in Seq(ReportSet) /\ 1 \in DOMAIN stream /\ r = stream[1]
        /\ r \in ReportSet
    BY TailIs DEF Types, WorldType
  <2> QED
    BY <2>1 DEF Genuine, ReportSet
<1>2. /\ x \in [state : States, n : 0 .. Parts + 2] /\ Counted(x)
      /\ Parts \in Nat /\ Parts # 0
  BY <1>1, StoreAssumption DEF Types, WorldType, ExchangeSet, States, Genuine
<1>3. /\ Updates(Up(r)) /\ ~Renames(Up(r)) /\ Up(r).op # "insert_fill"
      /\ Up(r).cid = r.cid /\ Up(r).n = r.n /\ Up(r) # Intent(r.cid)
      /\ Up(r).state = NewLocalState(r, LocalCancel(r))
  BY DEF Updates, Renames, Up, OrderUpdate, Intent
<1>4. LET s == Up(r).state
      IN  /\ r.type = "TRADE" /\ r.state = "FILLED" => s = "FILLED"
          /\ r.type = "TRADE" /\ r.state # "FILLED" => s = "PARTIALLY_FILLED"
          /\ r.type = "NEW" => s = "WORKING"
          /\ r.type = "REJECTED" => s = "REJECTED"
          /\ r.type = "EXPIRED" => s = "EXPIRED"
          /\ r.type = "CANCELED" => s = IF LocalCancel(r) THEN "CANCELED" ELSE "EXTERNAL_CANCELED"
  BY <1>1, <1>3, LocalStateOf DEF LocalCancel
<1>5. /\ r.type = "CANCELED" => (LocalCancel(r) <=> status # "RUNNING")
      /\ r.type \in {"NEW", "TRADE", "CANCELED", "EXPIRED", "REJECTED"}
  BY <1>1 DEF LocalCancel, ReportSet, Types, StatusType
<1> HIDE DEF x
<1>6. x.n \in Nat /\ x.state \in States
  BY <1>2
<1>7. Says(x, r.n, Up(r).state)
  BY <1>1, <1>4, <1>5, <1>6 DEF Says, Tells
<1>8. /\ status = "RUNNING" => Up(r).state # "CANCELED"
      /\ status # "RUNNING" => Up(r).state # "EXTERNAL_CANCELED"
  BY <1>4, <1>5
<1>9. x.state \notin {"none", "lost"}
  BY <1>1, <1>2, <1>6 DEF Tells, Counted
<1>10. /\ r.type = "EXPIRED" <=> x.state = "expired"
       /\ r.type = "REJECTED" => x.state = "rejected"
  BY <1>1, <1>2, <1>6 DEF Tells, Counted
<1>11. Trades(r.cid) = IF x.state = "canceled" THEN 2 .. x.n - 1 ELSE 2 .. x.n
  BY DEF Trades, x
<1>12. /\ r.type = "TRADE" => r.n \in Trades(r.cid)
       /\ r.n \in Trades(r.cid) => r.type = "TRADE"
  BY <1>1, <1>2, <1>6, <1>11 DEF Tells, Counted
<1> QED
  BY <1>1, <1>2, <1>3, <1>7, <1>8, <1>9, <1>10, <1>12 DEF x

\* Of an order nobody has submitted there is nothing to hear.
LEMMA UntouchedIs ==
  ASSUME Types, Genuine, Sending, NEW p \in Orders, p \notin submitted
  PROVE  /\ exchange[p].state = "none" /\ exchange[p].n = 0 /\ belief[p] = "none"
         /\ rows[p] = NoRow /\ fills[p] = <<>>
         /\ pass[p] = "none" /\ p \notin doubted
         /\ \A i \in DOMAIN dbq : dbq[i].cid # p
         /\ \A i \in DOMAIN sendq : sendq[i] # p
BY DEF Sending, Untouched, Genuine, Counted

\* SubmitOrder is a step of the engine for the order it submits.
LEMMA SubmitStepIs ==
  ASSUME Types, Genuine, Sending, NEW p \in Orders, SubmitOrder(p)
  PROVE  EngineStep(p, p)
<1>1. /\ SubmitAfter(dbq, belief, p)
      /\ UNCHANGED <<status, pass, exchange, stream, tables, doubted>>
      /\ p \notin submitted /\ belief \in BeliefSet
  BY DEF SubmitOrder, SubmitAfter, Types, EngineType
<1>2. \A i \in DOMAIN dbq : dbq[i].cid # p
  BY <1>1, UntouchedIs
<1>3. Grown(dbq, {p})
  BY GrownSelf
<1>4. /\ Submits(p) /\ lost \subseteq lost' /\ Grown(dbq', {p} \cup {p})
      /\ \A o \in Orders \ {p} : belief'[o] = belief[o]
  BY <1>1, <1>2, <1>3, SubmitsIs
<1> QED
  BY <1>1, <1>4, {p} \cup {p} = {p, p} DEF EngineStep

\* GhostOverride is a step of the engine for the ghost and its successor.
LEMMA GhostStepIs ==
  ASSUME Types, Genuine, Sending, NEW h \in Orders, NEW p \in Orders, GhostOverride(h, p)
  PROVE  EngineStep(h, h) \/ EngineStep(h, p)
<1> DEFINE freed == [belief EXCEPT ![h] = "freed"]
           e == LocalState(h, "REJECTED")
           q == Append(dbq, e)
<1>1. /\ belief \in BeliefSet /\ freed \in BeliefSet /\ freed[h] = "freed"
      /\ \A o \in Orders \ {h} : freed[o] = belief[o]
  BY DEF Types, EngineType, BeliefSet
<1>2. h \in submitted /\ UNCHANGED <<status, pass, exchange, stream, tables>>
  BY UntouchedIs DEF GhostOverride
<1>3. \/ SubmitAfter(q, freed, p) /\ GivenUp(h)
      \/ belief' = freed /\ lost' = lost \cup {h} /\ UNCHANGED <<submitted, sendq, dbq, doubted>>
  BY DEF GhostOverride
<1> HIDE DEF freed, e, q
<1>4. CASE SubmitAfter(q, freed, p) /\ GivenUp(h)
  <2>1. /\ exchange[h].state = "lost" \/ h \in doubted'
        /\ doubted \subseteq doubted' /\ doubted' \subseteq doubted \cup {h}
    BY <1>4 DEF GivenUp
  <2>2. e \in EventSet /\ Renames(e) /\ e.cid = h /\ NewEvent(e)
    BY <2>1, IntentType DEF e, LocalState, Renames, NewEvent, Judges
  <2>3. /\ Grown(q, {h}) /\ Added(dbq, q, e)
        /\ \A i \in DOMAIN q \ DOMAIN dbq : q[i] = e
    BY <2>2, GrownSelf, GrownAppend DEF q
  <2>4. /\ p \notin submitted /\ p # h /\ \A i \in DOMAIN dbq : dbq[i].cid # p
    BY <1>2, <1>4, UntouchedIs DEF SubmitAfter
  <2>5. \A i \in DOMAIN q : q[i].cid # p
    BY <2>2, <2>3, <2>4 DEF Grown, Extends
  <2>6. /\ Submits(p) /\ lost \subseteq lost' /\ Extends(q, dbq')
        /\ Grown(dbq', {h} \cup {p}) /\ \A o \in Orders \ {p} : belief'[o] = freed[o]
    <3>1. SubmitAfter(q, freed, p) /\ freed[p] = belief[p]
      BY <1>1, <1>4, <2>4
    <3> QED
      BY <1>1, <2>3, <2>5, <3>1, SubmitsIs
  <2>7. Added(dbq, dbq', e)
    BY <2>3, <2>6, AddedKept
  <2>8. GivesUp(h)
    BY <1>1, <1>2, <2>1, <2>2, <2>4, <2>6, <2>7 DEF GivesUp, Added
  <2>9. /\ \A o \in Orders \ {h, p} : belief'[o] = belief[o]
        /\ Grown(dbq', {h, p})
    BY <1>1, <2>6, {h} \cup {p} = {h, p}
  <2> QED
    BY <1>2, <2>1, <2>6, <2>8, <2>9 DEF EngineStep
<1>5. CASE /\ belief' = freed /\ lost' = lost \cup {h}
           /\ UNCHANGED <<submitted, sendq, dbq, doubted>>
  <2>1. Grown(dbq', {h, h})
    BY <1>5, GrownSelf
  <2> QED
    BY <1>1, <1>2, <1>5, <2>1 DEF EngineStep
<1> QED
  BY <1>3, <1>4, <1>5

\* The reconciliation's Clear is a step of the engine for its order.
LEMMA ClearStepIs ==
  ASSUME Types, MarkType, Genuine, Sending, NEW h \in Orders, Clear(h)
  PROVE  EngineStep(h, h)
<1> DEFINE b == IF pass[h] = "canceled" THEN "freed" ELSE "missed"
           e == LocalState(h, "REJECTED")
<1>1. /\ UNCHANGED <<status, submitted, sendq, exchange, stream, tables>>
      /\ pass[h] \in {"queued", "ended", "canceled"} /\ pass' = [pass EXCEPT ![h] = "none"]
      /\ belief' = [belief EXCEPT ![h] = b]
  BY DEF Clear, Reconciles
<1>2. /\ h \in submitted /\ \A o \in Orders : pass'[o] = pass[o] \/ pass'[o] = "none"
      /\ belief'[h] = b /\ \A o \in Orders \ {h, h} : belief'[o] = belief[o]
  BY <1>1, UntouchedIs DEF MarkType, Types, EngineType, BeliefSet
<1>3. CASE pass[h] # "queued" /\ UNCHANGED <<dbq, lost, doubted>>
  <2>1. Clears(h)
    BY <1>1, <1>2, <1>3 DEF Clears
  <2>2. Grown(dbq', {h, h})
    BY <1>3, GrownSelf
  <2> QED
    BY <1>1, <1>2, <1>3, <2>1, <2>2 DEF EngineStep
<1>4. CASE dbq' = Append(dbq, e) /\ GivenUp(h) /\ UNCHANGED lost
  <2>1. /\ exchange[h].state = "lost" \/ h \in doubted'
        /\ doubted \subseteq doubted' /\ doubted' \subseteq doubted \cup {h}
    BY <1>4 DEF GivenUp
  <2>2. e \in EventSet /\ Renames(e) /\ e.cid = h /\ NewEvent(e)
    BY <2>1, IntentType DEF LocalState, Renames, NewEvent, Judges
  <2> HIDE DEF e
  <2>3. Grown(dbq', {h, h}) /\ Added(dbq, dbq', e)
    BY <1>4, <2>2, GrownSelf, GrownAppend
  <2>4. GivesUp(h)
    BY <1>1, <1>2, <2>1, <2>2, <2>3 DEF GivesUp, Added
  <2> QED
    BY <1>1, <1>2, <1>4, <2>1, <2>3, <2>4 DEF EngineStep
<1>5. CASE lost' = lost \cup {h} /\ UNCHANGED <<dbq, doubted>>
  <2>1. Grown(dbq', {h, h})
    BY <1>5, GrownSelf
  <2> QED
    BY <1>1, <1>2, <1>5, <2>1 DEF EngineStep
<1> QED
  BY <1>3, <1>4, <1>5 DEF Clear

\* The first two steps of the reconciliation only look.
LEMMA LooksIs ==
  ASSUME Types, MarkType, Genuine, Sending, NEW o \in Orders, Absent(o) \/ LookUp(o)
  PROVE  Looks(o)
<1>1. /\ UNCHANGED <<status, belief, submitted, sendq, exchange, stream, dbq, rows, fills, lost,
                    doubted>>
      /\ \E s : pass' = [pass EXCEPT ![o] = s]
  BY DEF Absent, LookUp, Reconciles, tables
<1>2. \A p \in Orders \ {o} : pass'[p] = pass[p]
  BY <1>1 DEF MarkType
<1>3. o \in submitted
  BY UntouchedIs DEF Absent, LookUp
<1>4. /\ pass'[o] = "ended" => belief[o] = "placed" /\ rows[o].state \in {"REJECTED", "EXPIRED"}
      /\ pass'[o] = "canceled" => rows[o].state \in {"CANCELED", "EXTERNAL_CANCELED"}
  BY DEF MarkType, Absent, LookUp
<1> QED
  BY <1>1, <1>2, <1>3, <1>4 DEF Looks

\* Dispatch is a step of the engine for the report's order and the answer.
LEMMA DispatchStepIs ==
  ASSUME Types, Genuine, Sending, Dispatch
  PROVE  \E h, p \in Orders : EngineStep(h, p)
<1> DEFINE r == Head(stream)
           h == r.cid
           up == Up(r)
           q1 == Q1(r)
           q2 == Q2(r)
<1>1. /\ r \in ReportSet /\ stream # <<>> /\ stream' = Tail(stream)
      /\ UNCHANGED <<status, pass, exchange, tables, doubted>>
      /\ up \in EventSet
      /\ \/ Len(q2) <= QueueMax /\ EngineHandles(r, q2)
         \/ /\ dbq' = dbq \/ dbq' = q1
            /\ lost' = lost \cup {h} /\ UNCHANGED <<belief, submitted, sendq>>
  BY DispatchIs
<1>2. /\ h \in Orders /\ h \in submitted /\ up.cid = h
      /\ ~Renames(up) /\ NewEvent(up)
      /\ r.type = "TRADE" => r.n \in Trades(h)
      /\ r.type = "EXPIRED" => exchange[h].state = "expired"
      /\ r.type = "REJECTED" => exchange[h].state = "rejected"
  BY <1>1, ReportIs, UntouchedIs DEF NewEvent
<1>3. /\ Grown(q1, {h}) /\ Added(dbq, q1, up)
      /\ \A i \in DOMAIN q1 \ DOMAIN dbq : q1[i] = up
  <2>1. Grown(dbq, {h}) /\ q1 = Append(dbq, up) /\ up.cid \in {h}
    BY <1>2, GrownSelf DEF Q1
  <2> HIDE DEF up, q1, h
  <2> QED
    BY <1>1, <1>2, <2>1, GrownAppend
<1>4. /\ Grown(q2, {h}) /\ Added(dbq, q2, up)
      /\ r.type = "TRADE" => Added(dbq, q2, InsertFill(r))
      /\ \A i \in DOMAIN q2 \ DOMAIN dbq : ~Renames(q2[i])
  <2>1. CASE r.type = "TRADE"
    <3> DEFINE f == InsertFill(r)
    <3>1. f \in EventSet /\ f.cid = h /\ NewEvent(f) /\ ~Renames(f)
      BY <1>1, <1>2, <2>1, WritesType DEF InsertFill, NewEvent, Renames
    <3>2. q2 = Append(q1, f)
      BY <2>1 DEF Q2
    <3> HIDE DEF f, q1, q2
    <3>3. /\ Grown(q2, {h}) /\ Extends(q1, q2) /\ Added(dbq, q2, f)
          /\ \A i \in DOMAIN q2 \ DOMAIN dbq :
                (i \in DOMAIN q1 \ DOMAIN dbq /\ q2[i] = q1[i]) \/ q2[i] = f
      BY <1>3, <3>1, <3>2, GrownAppend
    <3>4. Added(dbq, q2, up)
      BY <1>3, <3>3, AddedKept
    <3> QED
      BY <1>2, <1>3, <3>1, <3>3, <3>4 DEF f
  <2>2. CASE r.type # "TRADE"
    BY <1>2, <1>3, <2>2 DEF Q2
  <2> QED
    BY <2>1, <2>2
<1>5. /\ belief \in BeliefSet
      /\ \A s \in {"filled", "missed", "freed"} :
            /\ [belief EXCEPT ![h] = s] \in BeliefSet /\ [belief EXCEPT ![h] = s][h] = s
            /\ \A o \in Orders \ {h} : [belief EXCEPT ![h] = s][o] = belief[o]
  BY <1>2 DEF Types, EngineType, BeliefSet
<1>6. \A p \in Orders \ submitted : p # h /\ \A i \in DOMAIN q2 : q2[i].cid # p
  BY <1>2, <1>4, UntouchedIs DEF Grown, Extends
<1>7. (r.type = "TRADE" <=> r.state \in {"PARTIALLY_FILLED", "FILLED"})
      /\ (r.type = "EXPIRED" => r.state = "EXPIRED")
  <2>1. Tells(exchange[h], r)
    BY <1>1, ReportIs
  <2> QED
    BY <2>1 DEF Tells
<1>0. h = Head(stream).cid
  OBVIOUS
<1> HIDE DEF r, h, up, q1, q2
<1>8. CASE dbq' \in {dbq, q1} /\ lost' = lost \cup {h} /\ UNCHANGED <<belief, submitted, sendq>>
  <2>1. Grown(dbq', {h, h})
    BY <1>3, <1>8, GrownSelf
  <2>2. EngineStep(h, h)
    BY <1>0, <1>1, <1>2, <1>8, <2>1 DEF EngineStep
  <2> QED
    BY <1>2, <2>2
<1>9. ASSUME NEW b, b = belief \/ b = [belief EXCEPT ![h] = "filled"],
             b = belief \/ r.state = "FILLED",
             status = "RUNNING" => r.type # "EXPIRED",
             SubmitNothing(q2, b) \/ \E p \in Orders : SubmitAfter(q2, b, p)
      PROVE  \E p \in Orders : EngineStep(h, p)
  <2>1. b \in BeliefSet /\ \A o \in Orders \ {h} : b[o] = belief[o]
    BY <1>5, <1>9
  <2>2. r.type = "EXPIRED" => b = belief /\ status # "RUNNING"
    BY <1>7, <1>9
  <2>3. CASE SubmitNothing(q2, b)
    <3>1. dbq' = q2 /\ belief' = b /\ UNCHANGED <<submitted, sendq, lost>> /\ {h} = {h, h}
      BY <2>3 DEF SubmitNothing
    <3>2. TakesReport(h)
      BY <1>1, <1>4, <2>2, <3>1 DEF TakesReport, r, h, up
    <3>3. EngineStep(h, h)
      BY <1>0, <1>1, <1>2, <1>4, <2>1, <3>1, <3>2 DEF EngineStep
    <3> QED
      BY <1>2, <3>3
  <2>4. ASSUME NEW p \in Orders, SubmitAfter(q2, b, p) PROVE EngineStep(h, p)
    <3>1. p \notin submitted /\ p # h /\ b[p] = belief[p] /\ \A i \in DOMAIN q2 : q2[i].cid # p
      BY <1>6, <2>1, <2>4 DEF SubmitAfter, BeliefSet
    <3>2. /\ Submits(p) /\ lost \subseteq lost' /\ Extends(q2, dbq') /\ Grown(dbq', {h} \cup {p})
          /\ \A o \in Orders \ {p} : belief'[o] = b[o]
      <4>1. /\ Grown(q2, {h}) /\ b \in BeliefSet /\ SubmitAfter(q2, b, p)
            /\ b[p] = belief[p] /\ \A i \in DOMAIN q2 : q2[i].cid # p
        BY <1>4, <2>1, <2>4, <3>1
      <4> QED
        BY <4>1, SubmitsIs
    <3>3. {h} \cup {p} = {h, p} /\ \A o \in Orders \ {h, p} : belief'[o] = belief[o]
      BY <2>1, <3>2
    <3>4. Added(dbq, dbq', up) /\ (r.type = "TRADE" => Added(dbq, dbq', InsertFill(r)))
      BY <1>4, <3>2, AddedKept
    <3>5. r.type = "EXPIRED" => /\ status # "RUNNING" /\ belief'[h] = belief[h]
                                /\ \A i \in DOMAIN dbq' \ DOMAIN dbq : ~Renames(dbq'[i])
      <4>1. r.type = "EXPIRED" => belief'[h] = belief[h]
        BY <1>2, <2>2, <3>1, <3>2
      <4>2. \A i \in DOMAIN dbq' \ DOMAIN dbq : Renames(dbq'[i]) => i \notin DOMAIN q2
        BY <1>4, <3>2 DEF Extends
      <4>3. \A i \in DOMAIN dbq' \ DOMAIN q2 : ~Renames(dbq'[i])
        <5>1. \/ Extends(q2, dbq') /\ dbq' = q2
              \/ dbq' = Append(q2, Intent(p))
          BY <2>4, <3>2 DEF SubmitAfter
        <5>2. q2 \in Seq(EventSet) /\ Intent(p) \in EventSet /\ ~Renames(Intent(p))
          BY <1>4, IntentType DEF Grown, Renames, Intent
        <5> QED
          BY <5>1, <5>2, ExtendsAppend
      <4> QED
        BY <2>2, <4>1, <4>2, <4>3
    <3>6. TakesReport(h)
      BY <1>1, <3>4, <3>5 DEF TakesReport, r, h, up
    <3> QED
      BY <1>0, <1>1, <1>2, <3>2, <3>3, <3>6 DEF EngineStep
  <2> QED
    BY <1>9, <2>3, <2>4
<1>10. CASE RefusalHandled(r, q2) /\ status = "RUNNING" /\ r.type \in {"EXPIRED", "REJECTED"}
  <2>1. UNCHANGED <<submitted, sendq>> /\ {h} = {h, h}
    BY <1>1, <1>10, RefusalIs
  <2>2. ASSUME NEW s \in {"REJECTED", "MISSED"}, NEW t \in {"freed", "missed"},
               dbq' = Append(q2, LocalState(h, s)), belief' = [belief EXCEPT ![h] = t],
               Judges(exchange[h], s), r.type = "EXPIRED" => t = "missed", UNCHANGED lost
        PROVE  EngineStep(h, h)
    <3> DEFINE e == LocalState(h, s)
    <3>1. e \in EventSet /\ e.cid = h /\ Renames(e) /\ NewEvent(e)
      BY <1>1, <2>2, WritesType DEF LocalState, Renames, NewEvent, h
    <3> HIDE DEF e
    <3>2. /\ dbq' = Append(q2, e) /\ q2 \in Seq(EventSet)
      BY <1>4, <2>2 DEF e, Grown
    <3>3. Grown(dbq', {h}) /\ Extends(q2, dbq')
      BY <1>4, <3>1, <3>2, GrownAppend
    <3>4. \E j \in DOMAIN dbq' : /\ Renames(dbq'[j]) /\ dbq'[j].cid = h
                                 /\ \A i \in DOMAIN dbq' : i <= j
      <4>1. /\ Len(q2) + 1 \in DOMAIN dbq' /\ dbq'[Len(q2) + 1] = e
            /\ \A i \in DOMAIN dbq' : i <= Len(q2) + 1
        BY <3>1, <3>2
      <4> QED
        BY <3>1, <4>1
    <3>5. Added(dbq, dbq', up) /\ (r.type = "TRADE" => Added(dbq, dbq', InsertFill(r)))
      BY <1>4, <3>3, AddedKept
    <3>6. TakesReport(h)
      BY <1>1, <1>5, <1>10, <2>2, <3>4, <3>5 DEF TakesReport, r, h, up
    <3> QED
      BY <1>0, <1>1, <1>2, <1>5, <2>1, <2>2, <3>3, <3>6 DEF EngineStep
  <2>3. ASSUME dbq' = q2 /\ lost' = lost \cup {h} /\ belief' = [belief EXCEPT ![h] = "freed"]
        PROVE  EngineStep(h, h)
    <3>1. Grown(dbq', {h, h})
      BY <1>4, <2>1, <2>3
    <3>2. \A o \in Orders \ {h, h} : belief'[o] = belief[o]
      BY <1>5, <2>3
    <3> QED
      BY <1>0, <1>1, <1>2, <2>1, <2>3, <3>1, <3>2 DEF EngineStep
  <2>4. \/ dbq' = Append(q2, LocalState(h, "MISSED")) /\ belief' = [belief EXCEPT ![h] = "missed"]
           /\ r.type = "EXPIRED" /\ UNCHANGED lost
        \/ dbq' = Append(q2, LocalState(h, "REJECTED")) /\ belief' = [belief EXCEPT ![h] = "freed"]
           /\ r.type # "EXPIRED" /\ UNCHANGED lost
        \/ dbq' = q2 /\ lost' = lost \cup {h} /\ belief' = [belief EXCEPT ![h] = "freed"]
    BY <1>1, <1>10, RefusalIs DEF h
  <2>5. EngineStep(h, h)
    <3>1. CASE /\ dbq' = Append(q2, LocalState(h, "MISSED")) /\ r.type = "EXPIRED"
               /\ belief' = [belief EXCEPT ![h] = "missed"] /\ UNCHANGED lost
      <4>1. Judges(exchange[h], "MISSED")
        BY <1>2, <3>1 DEF Judges
      <4> QED
        BY <2>2, <3>1, <4>1
    <3>2. CASE /\ dbq' = Append(q2, LocalState(h, "REJECTED")) /\ r.type # "EXPIRED"
               /\ belief' = [belief EXCEPT ![h] = "freed"] /\ UNCHANGED lost
      <4>1. Judges(exchange[h], "REJECTED")
        BY <1>2, <1>10, <3>2 DEF Judges
      <4> QED
        BY <2>2, <3>2, <4>1
    <3> QED
      BY <2>3, <2>4, <3>1, <3>2
  <2> QED
    BY <1>2, <2>5
<1>11. StatusType
  BY DEF Types
<1>12. CASE EngineHandles(r, q2)
  <2>1. \/ /\ r.state = "FILLED" /\ status = "RUNNING"
           /\ LET b == [belief EXCEPT ![h] = "filled"]
              IN  SubmitNothing(q2, b) \/ \E p \in Orders : SubmitAfter(q2, b, p)
        \/ r.type \in {"EXPIRED", "REJECTED"} /\ status = "RUNNING" /\ RefusalHandled(r, q2)
        \/ /\ status = "RUNNING" => r.type \notin {"EXPIRED", "REJECTED"} \/ r.state = "PARTIALLY_FILLED"
           /\ SubmitNothing(q2, belief)
    BY <1>1, <1>11, <1>12, HandlesIs DEF h
  <2>2. r.state \in {"FILLED", "PARTIALLY_FILLED"} => r.type # "EXPIRED"
    BY <1>7
  <2> QED
    BY <1>2, <1>9, <1>10, <2>1, <2>2
<1> QED
  BY <1>1, <1>8, <1>12, <1>2 DEF h

-----------------------------------------------------------------------------
(* Everything repeats what the exchange did *)

\* An order goes from x to y on the exchange.
Advances(x, y) ==
    \/ /\ y.n = x.n + 1
       /\ \/ x.state = "none" /\ y.state \in {"open", "expired", "rejected"}
          \/ x.state = "open" /\ y.state \in {"open", "filled", "canceled"}
    \/ x.state = "none" /\ y.state = "lost" /\ y.n = 0

\* What was true of an order's executions stays true.
LEMMA AdvancesKeeps ==
  ASSUME NEW x \in [state : States, n : Nat], NEW y \in [state : States, n : Nat],
         Counted(x), Counted(y), Advances(x, y)
  PROVE  /\ \A r \in ReportSet : Tells(x, r) => Tells(y, r)
         /\ \A n \in Nat : \A s : Says(x, n, s) => Says(y, n, s)
         /\ \A s : ~Judges(x, s)
         /\ x.n <= y.n
<1>1. /\ x.n \in Nat /\ y.n \in Nat /\ Parts \in Nat
      /\ x.state \in States /\ y.state \in States
  BY StoreAssumption
<1>2. ASSUME NEW r \in ReportSet, Tells(x, r) PROVE Tells(y, r)
  <2>1. r.n \in Nat
    BY DEF ReportSet
  <2> QED
    BY <1>1, <1>2, <2>1 DEF Tells, Counted, Advances
<1>3. ASSUME NEW n \in Nat, NEW s, Says(x, n, s) PROVE Says(y, n, s)
  BY <1>1, <1>3 DEF Says, Counted, Advances
<1>4. \A s : ~Judges(x, s)
  BY DEF Judges, Advances
<1>5. x.n <= y.n
  BY <1>1 DEF Advances, Counted
<1> QED
  BY <1>2, <1>3, <1>4, <1>5

\* A move advances one order, and its trades only become more.
LEMMA MovedAdvances ==
  ASSUME Types, Genuine, NEW o \in Orders,
         NEW x \in [state : States, n : 0 .. Parts + 2], Moved(o, x), Counted(x)
  PROVE  /\ exchange[o] \in [state : States, n : Nat] /\ x \in [state : States, n : Nat]
         /\ Counted(exchange[o]) /\ Advances(exchange[o], x)
         /\ exchange' = [exchange EXCEPT ![o] = x] /\ exchange'[o] = x
         /\ \A p \in Orders \ {o} : exchange'[p] = exchange[p]
         /\ Trades(o) \subseteq Trades(o)'
         /\ \A p \in Orders \ {o} : Trades(p)' = Trades(p)
<1>1. /\ exchange[o] \in [state : States, n : Nat] /\ x \in [state : States, n : Nat]
      /\ exchange' = [exchange EXCEPT ![o] = x] /\ Parts \in Nat
  BY StoreAssumption DEF Types, WorldType, ExchangeSet, States, Moved
<1>2. exchange'[o] = x /\ \A p \in Orders \ {o} : exchange'[p] = exchange[p]
  BY <1>1 DEF Types, WorldType, ExchangeSet
<1>3. Advances(exchange[o], x)
  BY DEF Moved, Reported, Vanished, Advances
<1>4. Counted(exchange[o])
  BY DEF Genuine
<1>5. \A p \in Orders \ {o} : Trades(p)' = Trades(p)
  BY <1>2 DEF Trades
<1>6. Trades(o) \subseteq Trades(o)'
  <2> DEFINE y == exchange[o]
  <2>1. y.n \in Nat /\ x.n \in Nat
    BY <1>1
  <2>2. Trades(o) = IF y.state = "canceled" THEN 2 .. y.n - 1 ELSE 2 .. y.n
    BY DEF Trades
  <2>3. Trades(o)' = IF x.state = "canceled" THEN 2 .. x.n - 1 ELSE 2 .. x.n
    BY <1>2 DEF Trades
  <2> HIDE DEF y
  <2>4. Counted(y) /\ Advances(y, x)
    BY <1>3, <1>4 DEF y
  <2>5. Trades(o) \subseteq 2 .. y.n /\ y.n <= x.n
    BY <2>1, <2>2, <2>4 DEF Advances, Counted
  <2>6. x.state = "canceled" => x.n - 1 = y.n
    BY <2>1, <2>4 DEF Advances
  <2> QED
    BY <2>1, <2>3, <2>5, <2>6
<1> QED
  BY <1>1, <1>2, <1>3, <1>4, <1>5, <1>6

\* What was repeated of an order stays true when the order advances.
LEMMA GenuineMoved ==
  ASSUME Types, Genuine, NEW o \in Orders,
         NEW x \in [state : States, n : 0 .. Parts + 2], Moved(o, x), Counted(x)
  PROVE  Genuine'
<1>1. /\ exchange[o] \in [state : States, n : Nat] /\ x \in [state : States, n : Nat]
      /\ Counted(exchange[o]) /\ Advances(exchange[o], x)
      /\ exchange'[o] = x /\ \A p \in Orders \ {o} : exchange'[p] = exchange[p]
      /\ Trades(o) \subseteq Trades(o)' /\ \A p \in Orders \ {o} : Trades(p)' = Trades(p)
  BY MovedAdvances
<1>2. /\ \A r \in ReportSet : Tells(exchange[o], r) => Tells(x, r)
      /\ \A n \in Nat : \A s : Says(exchange[o], n, s) => Says(x, n, s)
      /\ \A s : ~Judges(exchange[o], s)
      /\ exchange[o].n <= x.n /\ exchange[o].n \in Nat /\ x.n \in Nat
  BY <1>1, AdvancesKeeps
<1>3. UNCHANGED <<status, belief, submitted, dbq, rows, fills, lost, doubted>>
  BY DEF Moved, tables
<1>4. /\ dbq \in Seq(EventSet) /\ stream \in Seq(ReportSet)
      /\ rows \in [Orders -> [state : LocalOrderState \cup {"NONE"}, n : Nat]]
  BY DEF Types, EngineType, WorldType, TableType
<1>5. \A p \in Orders : Counted(exchange[p])' /\ RowJustified(p)'
  <2>1. ASSUME NEW p \in Orders PROVE Counted(exchange[p])' /\ RowJustified(p)'
    <3>1. Counted(exchange[p]) /\ RowJustified(p) /\ rows[p].n \in Nat /\ rows'[p] = rows[p]
      BY <1>3, <1>4 DEF Genuine
    <3>2. CASE p = o
      BY <1>1, <1>2, <1>3, <3>1, <3>2 DEF RowJustified, Denies, Counted
    <3>3. CASE p # o
      BY <1>1, <1>3, <3>1, <3>3 DEF RowJustified, Denies, Counted
    <3> QED
      BY <3>2, <3>3
  <2> QED
    BY <2>1
<1>6. \A r \in ReportSet : Tells(exchange[r.cid], r) => Tells(exchange'[r.cid], r)
  <2>1. \A r \in ReportSet : r.cid \in Orders
    BY DEF ReportSet
  <2> QED
    BY <1>1, <1>2, <2>1
<1>7. \A i \in DOMAIN stream' : Tells(exchange'[stream'[i].cid], stream'[i])
  <2>1. \A i \in DOMAIN stream : stream[i] \in ReportSet
    BY <1>4
  <2>2. \A i \in DOMAIN stream : Tells(exchange'[stream[i].cid], stream[i])
    BY <1>6, <2>1 DEF Genuine
  <2>3. ASSUME NEW r \in ReportSet, Tells(exchange'[r.cid], r),
               stream' = Append(stream, r) \/ stream' = Append(Append(stream, r), r)
        PROVE  \A i \in DOMAIN stream' : Tells(exchange'[stream'[i].cid], stream'[i])
    <3>1. \A i \in DOMAIN stream' : (i \in DOMAIN stream /\ stream'[i] = stream[i]) \/ stream'[i] = r
      <4>1. /\ Append(stream, r) \in Seq(ReportSet)
            /\ \A i \in DOMAIN Append(stream, r) :
                  \/ i \in DOMAIN stream /\ Append(stream, r)[i] = stream[i]
                  \/ Append(stream, r)[i] = r
        BY <1>4
      <4>2. \A i \in DOMAIN Append(Append(stream, r), r) :
                  \/ i \in DOMAIN Append(stream, r)
                     /\ Append(Append(stream, r), r)[i] = Append(stream, r)[i]
                  \/ Append(Append(stream, r), r)[i] = r
        BY <4>1
      <4> QED
        BY <2>3, <4>1, <4>2
    <3> QED
      BY <2>2, <2>3, <3>1
  <2>4. \/ stream' = stream
        \/ \E r \in ReportSet :
              /\ Tells(exchange'[r.cid], r)
              /\ stream' = Append(stream, r) \/ stream' = Append(Append(stream, r), r)
    BY <1>1 DEF Moved, Reported, Vanished
  <2> QED
    BY <2>2, <2>3, <2>4
<1>8. \A i \in DOMAIN dbq : Justified(dbq[i])'
  <2>1. ASSUME NEW e \in EventSet, Justified(e)
        PROVE  \/ e = Intent(e.cid)
               \/ Updates(e) /\ Says(exchange'[e.cid], e.n, e.state)
               \/ Renames(e) /\ (Judges(exchange'[e.cid], e.state) \/ Denies(e.cid, e.state))
               \/ e.op = "insert_fill" /\ e.n \in Trades(e.cid)'
    <3>1. e.cid \in Orders /\ e.n \in Nat
      BY DEF EventSet
    <3> QED
      BY <1>1, <1>2, <2>1, <3>1 DEF Justified
  <2>2. \A i \in DOMAIN dbq : dbq[i] \in EventSet /\ Justified(dbq[i]) /\ dbq'[i] = dbq[i]
    BY <1>3, <1>4 DEF Genuine
  <2>3. ASSUME NEW i \in DOMAIN dbq PROVE Justified(dbq[i])'
    <3> DEFINE e == dbq[i]
    <3>1. e \in EventSet /\ Justified(e) /\ e' = e
      BY <2>2, <2>3
    <3>2. \/ e = Intent(e.cid)
          \/ Updates(e) /\ Says(exchange'[e.cid], e.n, e.state)
          \/ Renames(e) /\ (Judges(exchange'[e.cid], e.state) \/ Denies(e.cid, e.state))
          \/ e.op = "insert_fill" /\ e.n \in Trades(e.cid)'
      BY <2>1, <3>1
    <3> QED
      BY <1>3, <3>1, <3>2 DEF Justified, Denies, Updates, Renames, Intent, Trades
  <2> QED
    BY <2>3
<1>9. \A p \in Orders : \A i, j \in DOMAIN fills[p] :
         fills[p][i] \in Trades(p)' /\ (fills[p][i] = fills[p][j] => i = j)
  BY <1>1 DEF Genuine
<1> QED
  BY <1>3, <1>5, <1>7, <1>8, <1>9 DEF Genuine

\* The engine only queues what has happened.
LEMMA GenuineEngine ==
  ASSUME Types, Genuine, NEW h \in Orders, NEW p \in Orders, EngineStep(h, p)
  PROVE  Genuine'
<1>1. /\ UNCHANGED <<status, exchange, rows, fills>> /\ Grown(dbq', {h, p})
      /\ stream' = stream \/ (stream # <<>> /\ stream' = Tail(stream))
      /\ dbq \in Seq(EventSet) /\ stream \in Seq(ReportSet) /\ doubted \subseteq doubted'
  BY DEF EngineStep, tables, Types, EngineType, WorldType
<1> DEFINE Holds(e) == \/ e = Intent(e.cid)
                       \/ Updates(e) /\ Says(exchange[e.cid], e.n, e.state)
                       \/ Renames(e) /\ (Judges(exchange[e.cid], e.state)
                                          \/ (e.cid \in doubted' /\ e.state = "REJECTED"))
                       \/ e.op = "insert_fill" /\ e.n \in Trades(e.cid)
<1>3. \A i \in DOMAIN dbq' : Holds(dbq'[i])
  <2>1. ASSUME NEW i \in DOMAIN dbq' PROVE Holds(dbq'[i])
    <3>1. CASE i \in DOMAIN dbq
      <4>1. Justified(dbq[i]) /\ dbq'[i] = dbq[i]
        BY <1>1, <3>1 DEF Genuine, Grown, Extends
      <4> QED
        BY <1>1, <4>1 DEF Justified, Denies
    <3>2. CASE i \notin DOMAIN dbq
      <4>1. NewEvent(dbq'[i])
        BY <1>1, <2>1, <3>2 DEF Grown
      <4>2. CASE stream # <<>> /\ dbq'[i] = Up(Head(stream))
        <5> DEFINE r == Head(stream)
        <5>1. /\ Updates(Up(r)) /\ Up(r).cid = r.cid /\ Up(r).n = r.n
              /\ Says(exchange[r.cid], r.n, Up(r).state)
          BY <4>2, ReportIs
        <5> QED
          BY <4>2, <5>1
      <4> QED
        BY <4>1, <4>2 DEF NewEvent
    <3> QED
      BY <3>1, <3>2
  <2> QED
    BY <2>1
<1>4. \A i \in DOMAIN dbq' : Justified(dbq[i])'
  BY <1>1, <1>3 DEF Justified, Denies, Updates, Renames, Trades, Intent
<1>5. \A i \in DOMAIN stream' : Tells(exchange[stream'[i].cid], stream'[i])
  <2>1. \A i \in DOMAIN stream : Tells(exchange[stream[i].cid], stream[i])
    BY DEF Genuine
  <2>2. CASE stream # <<>> /\ stream' = Tail(stream)
    BY <1>1, <2>1, <2>2, TailIs
  <2> QED
    BY <1>1, <2>1, <2>2
<1>6. \A o \in Orders : Counted(exchange[o])' /\ RowJustified(o)'
  BY <1>1 DEF Genuine, Counted, RowJustified, Denies
<1>7. \A o \in Orders : \A i, j \in DOMAIN fills'[o] :
         fills'[o][i] \in Trades(o)' /\ (fills'[o][i] = fills'[o][j] => i = j)
  BY <1>1 DEF Genuine, Trades
<1> QED
  BY <1>1, <1>4, <1>5, <1>6, <1>7 DEF Genuine, Tells

\* The tail of a queue holds nothing new.
LEMMA GenuineTail ==
  ASSUME Types, Genuine, dbq # <<>>, dbq' = Tail(dbq), UNCHANGED <<exchange, stream, doubted>>
  PROVE  \A i \in DOMAIN dbq' : Justified(dbq[i])'
<1>1. \A i \in DOMAIN dbq' : i + 1 \in DOMAIN dbq /\ dbq'[i] = dbq[i + 1]
  BY TailIs DEF Types, EngineType
<1>2. \A i \in DOMAIN dbq' : Justified(dbq'[i])
  BY <1>1 DEF Genuine
<1> QED
  BY <1>2 DEF Justified, Denies, Updates, Renames, Trades, Intent

\* Dropping an event leaves the others true.
LEMMA GenuineFails ==
  ASSUME Types, Genuine, DbWriteFails
  PROVE  Genuine'
<1>1. /\ dbq # <<>> /\ dbq' = Tail(dbq)
      /\ UNCHANGED <<status, belief, submitted, sendq, exchange, stream, rows, fills, doubted>>
  BY DEF DbWriteFails, engineVars, tables
<1>2. \A i \in DOMAIN dbq' : Justified(dbq[i])'
  BY <1>1, GenuineTail
<1> QED
  BY <1>1, <1>2 DEF Genuine, Counted, RowJustified, Trades, Tells, Says, Judges, Denies

\* The emergency stop changes nothing of what is told.
LEMMA GenuineStop ==
  ASSUME Genuine, EmergencyStop
  PROVE  Genuine'
BY DEF Genuine, EmergencyStop, tables, Counted, RowJustified, Trades, Tells, Says, Judges, Denies,
       Justified, Updates, Renames, Intent

\* A true event makes a true row, and adds a trade at most once.
LEMMA GenuineWrite ==
  ASSUME Types, Genuine, DbWrite
  PROVE  Genuine'
<1> DEFINE e == Head(dbq)
<1>1. /\ e \in EventSet /\ dbq # <<>> /\ dbq \in Seq(EventSet) /\ dbq' = Tail(dbq)
      /\ UNCHANGED <<status, belief, submitted, sendq, exchange, stream, lost, doubted>>
  BY WriteIs DEF engineVars
<1>2. /\ e.cid \in Orders /\ e.n \in Nat /\ Justified(e)
      /\ e.state \in LocalOrderState \cup {"NEW"}
  BY <1>1, TailIs DEF EventSet, Genuine
<1>3. \A i \in DOMAIN dbq' : Justified(dbq[i])'
  BY <1>1, GenuineTail
<1>4. \A o \in Orders : RowJustified(o) /\ rows[o].n \in Nat
  BY DEF Genuine, Types, TableType
<1>5. /\ \A o \in Orders : Counted(exchange[o]) /\ Trades(o)' = Trades(o)
      /\ \A o \in Orders : exchange[o].n \in Nat
      /\ rows \in [Orders -> [state : LocalOrderState \cup {"NONE"}, n : Nat]]
      /\ fills \in [Orders -> Seq(Nat)]
  BY <1>1, StoreAssumption DEF Genuine, Trades, Types, WorldType, TableType, ExchangeSet
<1> HIDE DEF e
<1>6. \A o \in Orders : RowJustified(o)'
  <2>1. ASSUME NEW row \in [state : LocalOrderState \cup {"NEW"}, n : Nat], rows' = [rows EXCEPT ![e.cid] = row],
               \/ row = [state |-> "SUBMIT_QUEUED", n |-> 0]
               \/ Says(exchange[e.cid], row.n, row.state)
               \/ /\ Judges(exchange[e.cid], row.state) \/ Denies(e.cid, row.state)
                  /\ row.n <= exchange[e.cid].n
        PROVE  \A o \in Orders : RowJustified(o)'
    BY <1>1, <1>2, <1>4, <1>5, <2>1 DEF RowJustified, Denies
  <2>2. CASE rows' = rows
    BY <1>1, <1>4, <2>2 DEF RowJustified, Says, Judges, Denies
  <2>3. CASE /\ ~Updates(e) /\ ~Renames(e) /\ e.op # "insert_fill"
             /\ rows' = [rows EXCEPT ![e.cid] = [state |-> e.state, n |-> 0]]
    <3>1. e = Intent(e.cid)
      BY <1>2, <2>3 DEF Justified
    <3>2. e.state = "SUBMIT_QUEUED"
      BY <3>1 DEF Intent
    <3> DEFINE row == [state |-> "SUBMIT_QUEUED", n |-> 0]
    <3>3. row \in [state : LocalOrderState \cup {"NEW"}, n : Nat] /\ rows' = [rows EXCEPT ![e.cid] = row]
      BY <2>3, <3>2 DEF LocalOrderState
    <3> QED
      BY <2>1, <3>3
  <2>4. CASE Updates(e) /\ rows' = [rows EXCEPT ![e.cid] = [state |-> e.state, n |-> e.n]]
    <3> DEFINE row == [state |-> e.state, n |-> e.n]
    <3>1. Says(exchange[e.cid], e.n, e.state)
      BY <1>2, <2>4 DEF Justified, Updates, Renames, Intent, Says
    <3>2. row \in [state : LocalOrderState \cup {"NEW"}, n : Nat] /\ row.state = e.state /\ row.n = e.n
      BY <1>2, <3>1
    <3> HIDE DEF row
    <3> QED
      BY <2>1, <2>4, <3>1, <3>2 DEF row
  <2>5. CASE /\ Renames(e) /\ rows[e.cid] # NoRow
             /\ rows' = [rows EXCEPT ![e.cid] = [state |-> e.state, n |-> rows[e.cid].n]]
    <3> DEFINE row == [state |-> e.state, n |-> rows[e.cid].n]
    <3>1. Judges(exchange[e.cid], e.state) \/ Denies(e.cid, e.state)
      BY <1>2, <2>5 DEF Justified, Updates, Renames, Intent
    <3>2. row \in [state : LocalOrderState \cup {"NEW"}, n : Nat] /\ row.state = e.state /\ row.n = rows[e.cid].n
      BY <1>2, <1>4, <3>1
    <3>3. rows[e.cid].n <= exchange[e.cid].n
      <4>1. /\ RowJustified(e.cid) /\ rows[e.cid].n \in Nat /\ exchange[e.cid].n \in Nat
        BY <1>2, <1>4, <1>5
      <4>2. CASE rows[e.cid].n = 0
        BY <4>1, <4>2
      <4>3. CASE Says(exchange[e.cid], rows[e.cid].n, rows[e.cid].state)
        BY <4>1, <4>3 DEF Says
      <4> QED
        BY <2>5, <4>1, <4>2, <4>3 DEF RowJustified
    <3> HIDE DEF row
    <3> QED
      BY <2>1, <2>5, <3>1, <3>2, <3>3 DEF row
  <2> QED
    BY <2>2, <2>3, <2>4, <2>5, WriteIs DEF e, tables
<1>7. \A o \in Orders : \A i, j \in DOMAIN fills'[o] :
         fills'[o][i] \in Trades(o) /\ (fills'[o][i] = fills'[o][j] => i = j)
  <2>1. \A o \in Orders : \A i, j \in DOMAIN fills[o] :
           fills[o][i] \in Trades(o) /\ (fills[o][i] = fills[o][j] => i = j)
    BY DEF Genuine
  <2>2. CASE fills' = fills
    BY <2>1, <2>2
  <2>3. CASE e.op = "insert_fill" /\ UpsertFill(e)
    <3> DEFINE f == fills[e.cid]
    <3>1. e.n \in Trades(e.cid)
      BY <1>2, <2>3 DEF Justified, Updates, Renames, Intent
    <3>2. f \in Seq(Nat)
      BY <1>2, <1>5
    <3>3. \/ fills' = fills
          \/ /\ fills' = [fills EXCEPT ![e.cid] = Append(f, e.n)]
             /\ \A i \in DOMAIN f : f[i] # e.n
      BY <1>2, <1>5, <2>3 DEF UpsertFill
    <3>4. CASE /\ fills' = [fills EXCEPT ![e.cid] = Append(f, e.n)]
               /\ \A i \in DOMAIN f : f[i] # e.n
      <4> DEFINE g == Append(f, e.n)
      <4>1. \A i, j \in DOMAIN f : f[i] \in Trades(e.cid) /\ (f[i] = f[j] => i = j)
        BY <1>2, <2>1
      <4>2. fills'[e.cid] = g /\ \A o \in Orders \ {e.cid} : fills'[o] = fills[o]
        BY <1>2, <1>5, <3>4
      <4> HIDE DEF f
      <4>3. \A i \in DOMAIN g :
               \/ i \in DOMAIN f /\ g[i] = f[i]
               \/ i = Len(f) + 1 /\ g[i] = e.n
        BY <1>2, <3>2, AppendIs
      <4> HIDE DEF g
      <4>4. \A i, j \in DOMAIN g : g[i] \in Trades(e.cid) /\ (g[i] = g[j] => i = j)
        BY <3>1, <3>4, <4>1, <4>3
      <4> QED
        BY <2>1, <4>2, <4>4
    <3> QED
      BY <2>1, <3>3, <3>4
  <2> QED
    BY <2>2, <2>3, WriteIs DEF e, tables
<1>8. \A i \in DOMAIN stream : Tells(exchange[stream[i].cid], stream[i])
  BY DEF Genuine
<1> QED
  BY <1>1, <1>3, <1>5, <1>6, <1>7, <1>8 DEF Genuine, Counted, Tells

-----------------------------------------------------------------------------
(* Submitting, sending, arriving *)

\* The engine submits an id once, and touches no other id.
LEMMA SendingEngine ==
  ASSUME Types, Genuine, Sending, NEW h \in Orders, NEW p \in Orders, EngineStep(h, p)
  PROVE  Sending'
<1>1. /\ UNCHANGED <<exchange, rows, fills>> /\ Grown(dbq', {h, p})
      /\ \A o \in Orders \ {h, p} : belief'[o] = belief[o]
      /\ \/ p = h /\ UNCHANGED <<submitted, sendq>>
         \/ Submits(p)
      /\ (h = p /\ Submits(p)) \/ h \in submitted
      /\ \A o \in Orders : pass'[o] = pass[o] \/ pass'[o] = "none"
      /\ doubted' \subseteq doubted \cup {h}
      /\ sendq \in Seq(Orders)
  BY DEF EngineStep, tables, Types, EngineType
<1>3. Submits(p) => /\ p \notin submitted /\ submitted' = submitted \cup {p}
                    /\ exchange[p].state = "none"
                    /\ \A i \in DOMAIN sendq : sendq[i] # p
                    /\ sendq' = sendq \/ sendq' = Append(sendq, p)
  BY UntouchedIs DEF Submits
<1>4. h \in submitted' /\ p \in submitted' /\ submitted \subseteq submitted'
  BY <1>1, <1>3
<1>5. \A i \in DOMAIN sendq' :
         \/ i \in DOMAIN sendq /\ sendq'[i] = sendq[i]
         \/ Submits(p) /\ i = Len(sendq) + 1 /\ sendq'[i] = p
  BY <1>1, <1>3
<1>6. \A o \in Orders \ submitted' : Untouched(o)'
  <2>1. ASSUME NEW o \in Orders \ submitted' PROVE Untouched(o)'
    <3>1. Untouched(o) /\ o # h /\ o # p
      BY <1>4, <2>1 DEF Sending
    <3>2. \A i \in DOMAIN dbq' : dbq'[i].cid # o
      BY <1>1, <3>1 DEF Untouched, Grown, Extends
    <3>3. \A i \in DOMAIN sendq' : sendq'[i] # o
      BY <1>5, <3>1 DEF Untouched
    <3>4. pass'[o] = "none" /\ o \notin doubted' /\ belief'[o] = "none"
      BY <1>1, <3>1 DEF Untouched
    <3> QED
      BY <1>1, <3>1, <3>2, <3>3, <3>4 DEF Untouched
  <2> QED
    BY <2>1
<1>8. \A i, j \in DOMAIN sendq' : /\ exchange'[sendq'[i]].state = "none"
                                  /\ sendq'[i] = sendq'[j] => i = j
  BY <1>1, <1>3, <1>5 DEF Sending
<1> QED
  BY <1>6, <1>8 DEF Sending

\* A look changes nothing of an order nobody has submitted.
LEMMA SendingLooks ==
  ASSUME Types, Sending, NEW o \in Orders, Looks(o)
  PROVE  Sending'
<1>1. \A p \in Orders \ submitted : Untouched(p)'
  <2>1. ASSUME NEW p \in Orders \ submitted PROVE Untouched(p)'
    <3>1. Untouched(p) /\ pass'[p] = pass[p]
      BY <2>1 DEF Sending, Looks
    <3> QED
      BY <3>1 DEF Untouched, Looks
  <2> QED
    BY <2>1
<1> QED
  BY <1>1 DEF Sending, Looks

\* An order arrives only from the send queue.
LEMMA SendingMoved ==
  ASSUME Types, Genuine, Sending, NEW o \in Orders,
         NEW x \in [state : States, n : 0 .. Parts + 2], Moved(o, x), Counted(x)
  PROVE  Sending'
<1>1. /\ x.state # "none" /\ exchange'[o] = x
      /\ \A p \in Orders \ {o} : exchange'[p] = exchange[p]
      /\ UNCHANGED <<belief, submitted, pass, dbq, rows, fills, doubted>> /\ sendq \in Seq(Orders)
      /\ Sent(o)
  BY MovedAdvances DEF Moved, tables, Types, EngineType, Advances
<1>2. o \in submitted
  <2>1. CASE sendq # <<>> /\ o = Head(sendq)
    <3>1. 1 \in DOMAIN sendq /\ o = sendq[1]
      BY <1>1, <2>1, TailIs
    <3> QED
      BY <3>1, UntouchedIs
  <2>2. CASE exchange[o].state = "open"
    BY <2>2, UntouchedIs
  <2> QED
    BY <1>1, <2>1, <2>2 DEF Sent
<1>3. /\ \A i \in DOMAIN sendq' : sendq'[i] # o /\ sendq'[i] \in Orders
      /\ \A i \in DOMAIN sendq' : /\ exchange[sendq'[i]].state = "none"
                                  /\ \A j \in DOMAIN sendq' : sendq'[i] = sendq'[j] => i = j
      /\ \A p \in Orders \ submitted : \A i \in DOMAIN sendq' : sendq'[i] # p
  <2>1. /\ \A i \in DOMAIN sendq : exchange[sendq[i]].state = "none" /\ sendq[i] \in Orders
        /\ \A i, j \in DOMAIN sendq : sendq[i] = sendq[j] => i = j
        /\ \A p \in Orders \ submitted : \A i \in DOMAIN sendq : sendq[i] # p
    BY <1>1 DEF Sending, Untouched
  <2>2. CASE sendq # <<>> /\ o = Head(sendq) /\ sendq' = Tail(sendq)
    <3>1. /\ 1 \in DOMAIN sendq /\ o = sendq[1] /\ DOMAIN Tail(sendq) \subseteq Int
          /\ \A i \in DOMAIN Tail(sendq) : i + 1 \in DOMAIN sendq /\ Tail(sendq)[i] = sendq[i + 1]
          /\ \A i \in DOMAIN Tail(sendq) : i >= 1
      BY <1>1, <2>2
    <3>2. \A i \in DOMAIN Tail(sendq) : i + 1 # 1
      BY <3>1
    <3>3. \A i \in DOMAIN Tail(sendq) : Tail(sendq)[i] # o
      BY <2>1, <3>1, <3>2
    <3>4. \A i, j \in DOMAIN Tail(sendq) : Tail(sendq)[i] = Tail(sendq)[j] => i = j
      <4>1. ASSUME NEW i \in DOMAIN Tail(sendq), NEW j \in DOMAIN Tail(sendq),
                   Tail(sendq)[i] = Tail(sendq)[j]
            PROVE  i = j
        <5>1. i + 1 = j + 1
          BY <2>1, <3>1, <4>1
        <5> QED
          BY <3>1, <5>1
      <4> QED
        BY <4>1
    <3> QED
      BY <2>1, <2>2, <3>1, <3>3, <3>4
  <2>3. CASE exchange[o].state = "open" /\ UNCHANGED sendq
    BY <2>1, <2>3
  <2> QED
    BY <1>1, <2>2, <2>3 DEF Sent
<1>4. \A p \in Orders \ submitted : Untouched(p)'
  BY <1>1, <1>2, <1>3 DEF Sending, Untouched
<1> QED
  BY <1>1, <1>3, <1>4 DEF Sending

\* The writer changes nothing of an order nobody has submitted.
LEMMA SendingWrite ==
  ASSUME Types, Genuine, Sending, DbWrite \/ DbWriteFails
  PROVE  Sending'
<1> DEFINE e == Head(dbq)
<1>1. /\ dbq # <<>> /\ dbq' = Tail(dbq) /\ dbq \in Seq(EventSet)
      /\ UNCHANGED <<belief, submitted, pass, sendq, exchange, doubted>>
  BY DEF DbWrite, DbWriteFails, engineVars, Types, EngineType
<1>2. /\ 1 \in DOMAIN dbq /\ e = dbq[1] /\ e.cid \in Orders
      /\ \A i \in DOMAIN dbq' : i + 1 \in DOMAIN dbq /\ dbq'[i] = dbq[i + 1]
  <2>1. /\ 1 \in DOMAIN dbq /\ e = dbq[1] /\ e \in EventSet
        /\ \A i \in DOMAIN dbq' : i + 1 \in DOMAIN dbq /\ dbq'[i] = dbq[i + 1]
    BY <1>1, TailIs
  <2> QED
    BY <2>1 DEF EventSet
<1>3. e.cid \in submitted
  BY <1>2, UntouchedIs
<1>4. \A p \in Orders \ {e.cid} : rows'[p] = rows[p] /\ fills'[p] = fills[p]
  <2>1. CASE DbWriteFails
    BY <2>1 DEF DbWriteFails, tables
  <2>2. CASE DbWrite
    <3>1. \/ rows' = rows
          \/ \E row : rows' = [rows EXCEPT ![e.cid] = row]
      BY <2>2, WriteIs DEF tables
    <3>2. \/ fills' = fills
          \/ \E s : fills' = [fills EXCEPT ![e.cid] = s]
      BY <2>2, WriteIs DEF tables, UpsertFill
    <3> QED
      BY <1>2, <3>1, <3>2 DEF Types, TableType
  <2> QED
    BY <2>1, <2>2
<1> HIDE DEF e
<1>5. \A p \in Orders \ submitted : Untouched(p)'
  BY <1>1, <1>2, <1>3, <1>4 DEF Sending, Untouched
<1> QED
  BY <1>1, <1>5 DEF Sending

\* The emergency stop submits nothing.
LEMMA SendingStop ==
  ASSUME Sending, EmergencyStop
  PROVE  Sending'
BY DEF Sending, Untouched, EmergencyStop, tables

-----------------------------------------------------------------------------
(* Row, queue and stream tell an order's executions in turn *)

\* Neither the row nor what the queue and the stream say is ahead of the exchange.
LEMMA NothingAhead ==
  ASSUME Types, Genuine
  PROVE  /\ \A o \in Orders : rows[o].n <= exchange[o].n
         /\ \A i \in DOMAIN stream : stream[i].n <= exchange[stream[i].cid].n
         /\ \A i \in DOMAIN dbq : Updates(dbq[i]) => dbq[i].n <= exchange[dbq[i].cid].n
<1>1. /\ stream \in Seq(ReportSet) /\ dbq \in Seq(EventSet)
      /\ \A o \in Orders : exchange[o].n \in Nat /\ rows[o].n \in Nat
  BY StoreAssumption DEF Types, EngineType, WorldType, TableType, ExchangeSet
<1>2. \A o \in Orders : rows[o].n <= exchange[o].n
  <2>1. ASSUME NEW o \in Orders PROVE rows[o].n <= exchange[o].n
    <3>1. RowJustified(o)
      BY DEF Genuine
    <3> QED
      BY <1>1, <3>1 DEF RowJustified, NoRow, Says
  <2> QED
    BY <2>1
<1>3. \A i \in DOMAIN stream : stream[i].n <= exchange[stream[i].cid].n
  <2>1. ASSUME NEW i \in DOMAIN stream PROVE stream[i].n <= exchange[stream[i].cid].n
    <3>1. /\ Tells(exchange[stream[i].cid], stream[i]) /\ stream[i] \in ReportSet
      BY <1>1 DEF Genuine
    <3> QED
      BY <1>1, <3>1 DEF Tells, ReportSet
  <2> QED
    BY <2>1
<1>4. \A i \in DOMAIN dbq : Updates(dbq[i]) => dbq[i].n <= exchange[dbq[i].cid].n
  <2>1. ASSUME NEW i \in DOMAIN dbq, Updates(dbq[i])
        PROVE  dbq[i].n <= exchange[dbq[i].cid].n
    <3> DEFINE e == dbq[i]
    <3>1. Justified(e) /\ e \in EventSet
      BY <1>1 DEF Genuine
    <3>2. Says(exchange[e.cid], e.n, e.state) /\ e.cid \in Orders /\ e.n \in Nat
      BY <2>1, <3>1 DEF Justified, Updates, Renames, Intent, EventSet
    <3> HIDE DEF e
    <3>3. e.n <= exchange[e.cid].n
      BY <1>1, <3>2 DEF Says
    <3> QED
      BY <3>3 DEF e
  <2> QED
    BY <2>1
<1> QED
  BY <1>2, <1>3, <1>4

\* The engine queues what the oldest report says behind all earlier events.
LEMMA InTurnEngine ==
  ASSUME Types, Genuine, InTurn(dbq, stream),
         NEW h \in Orders, NEW p \in Orders, EngineStep(h, p)
  PROVE  InTurn(dbq, stream)'
<1> DEFINE r == Head(stream)
           st == stream
           q == dbq
<1>1. /\ UNCHANGED <<status, rows>> /\ Grown(dbq', {h, p})
      /\ stream' = stream \/ (stream # <<>> /\ stream' = Tail(stream))
      /\ q \in Seq(EventSet) /\ st \in Seq(ReportSet) /\ dbq' \in Seq(EventSet)
      /\ Extends(q, dbq') /\ StatusType
  BY DEF EngineStep, tables, Types, EngineType, WorldType, Grown
<1>2. \A j \in DOMAIN stream' : \E k \in DOMAIN st : stream'[j] = st[k]
  <2>1. stream # <<>> =>
           \A i \in DOMAIN Tail(st) : i + 1 \in DOMAIN st /\ Tail(st)[i] = st[i + 1]
    BY <1>1, TailIs
  <2> QED
    BY <1>1, <2>1
<1>3. \A i, j \in DOMAIN stream' : i <= j /\ stream'[i].cid = stream'[j].cid
                                     => stream'[i].n <= stream'[j].n
  <2>1. CASE stream' = stream
    BY <2>1 DEF InTurn
  <2>2. CASE stream # <<>> /\ stream' = Tail(stream)
    <3>1. /\ DOMAIN Tail(st) \subseteq Int
          /\ \A i \in DOMAIN Tail(st) : i + 1 \in DOMAIN st /\ Tail(st)[i] = st[i + 1]
      BY <1>1, <2>2, TailIs
    <3>2. ASSUME NEW i \in DOMAIN Tail(st), NEW j \in DOMAIN Tail(st), i <= j,
                 Tail(st)[i].cid = Tail(st)[j].cid
          PROVE  Tail(st)[i].n <= Tail(st)[j].n
      <4>1. i + 1 <= j + 1 /\ i + 1 \in DOMAIN st /\ j + 1 \in DOMAIN st
            /\ Tail(st)[i] = st[i + 1] /\ Tail(st)[j] = st[j + 1]
        BY <3>1, <3>2
      <4> QED
        BY <3>2, <4>1 DEF InTurn
    <3> QED
      BY <2>2, <3>2
  <2> QED
    BY <1>1, <2>1, <2>2
<1>4. \A i \in DOMAIN dbq' : Updates(dbq'[i]) =>
         \/ i \in DOMAIN q /\ dbq'[i] = q[i]
         \/ /\ i \notin DOMAIN q /\ dbq'[i] = Up(r)
            /\ stream # <<>> /\ stream' = Tail(stream)
  BY <1>1 DEF Grown, Extends, NewEvent, Updates, Renames, Intent
<1>5. stream # <<>> =>
         /\ r \in ReportSet /\ r.cid \in Orders /\ r.n \in Nat /\ Up(r).cid = r.cid /\ Up(r).n = r.n
         /\ status = "RUNNING" => Up(r).state # "CANCELED"
         /\ status # "RUNNING" => Up(r).state # "EXTERNAL_CANCELED"
         /\ \A i \in DOMAIN q : Updates(q[i]) /\ q[i].cid = r.cid => q[i].n <= r.n
         /\ rows[r.cid].n <= r.n
         /\ \A j \in DOMAIN Tail(st) : Tail(st)[j].cid = r.cid => r.n <= Tail(st)[j].n
  <2>1. ASSUME stream # <<>>
        PROVE  /\ 1 \in DOMAIN st /\ r = st[1] /\ DOMAIN st \subseteq Int
               /\ \A i \in DOMAIN st : 1 <= i
               /\ \A i \in DOMAIN Tail(st) : i + 1 \in DOMAIN st /\ Tail(st)[i] = st[i + 1]
    BY <1>1, <2>1, TailIs
  <2>2. stream # <<>> =>
         /\ r \in ReportSet /\ r.cid \in Orders /\ Up(r).cid = r.cid /\ Up(r).n = r.n
         /\ status = "RUNNING" => Up(r).state # "CANCELED"
         /\ status # "RUNNING" => Up(r).state # "EXTERNAL_CANCELED"
    BY ReportIs
  <2> QED
    BY <2>1, <2>2 DEF InTurn, ReportSet
<1> HIDE DEF r
<1>6. stream # <<>> =>
         /\ Before(rows[r.cid], Up(r)) /\ Before(Up(r), Up(r))
         /\ \A i \in DOMAIN q : Updates(q[i]) /\ q[i].cid = r.cid => Before(q[i], Up(r))
  BY <1>1, <1>5 DEF Before, InTurn, StatusType
<1>7. \A i, j \in DOMAIN dbq' :
         i <= j /\ Updates(dbq'[i]) /\ Updates(dbq'[j]) /\ dbq'[i].cid = dbq'[j].cid
            => Before(dbq'[i], dbq'[j])
  <2>1. ASSUME NEW i \in DOMAIN dbq', NEW j \in DOMAIN dbq', i <= j,
               Updates(dbq'[i]), Updates(dbq'[j]), dbq'[i].cid = dbq'[j].cid
        PROVE  Before(dbq'[i], dbq'[j])
    <3>1. j \in DOMAIN q => i \in DOMAIN q
      BY <1>1, <2>1 DEF Extends
    <3>2. CASE i \in DOMAIN q /\ j \in DOMAIN q
      BY <1>1, <2>1, <3>2 DEF InTurn, Extends
    <3>3. CASE j \notin DOMAIN q
      BY <1>4, <1>5, <1>6, <2>1, <3>3
    <3> QED
      BY <3>1, <3>2, <3>3
  <2> QED
    BY <2>1
<1>8. \A i \in DOMAIN dbq', j \in DOMAIN stream' :
         Updates(dbq'[i]) /\ dbq'[i].cid = stream'[j].cid => dbq'[i].n <= stream'[j].n
  <2>1. ASSUME NEW i \in DOMAIN dbq', NEW j \in DOMAIN stream',
               Updates(dbq'[i]), dbq'[i].cid = stream'[j].cid
        PROVE  dbq'[i].n <= stream'[j].n
    <3>1. CASE i \in DOMAIN q /\ dbq'[i] = q[i]
      BY <1>2, <2>1, <3>1 DEF InTurn
    <3>2. CASE dbq'[i] = Up(r) /\ stream # <<>> /\ stream' = Tail(stream)
      BY <1>5, <2>1, <3>2
    <3> QED
      BY <1>4, <2>1, <3>1, <3>2
  <2> QED
    BY <2>1
<1>9. \A i \in DOMAIN dbq' : Updates(dbq'[i]) => Before(rows[dbq'[i].cid], dbq'[i])
  BY <1>4, <1>5, <1>6 DEF InTurn
<1>10. \A j \in DOMAIN stream' : rows[stream'[j].cid].n <= stream'[j].n
  BY <1>2 DEF InTurn
<1>11. status = "RUNNING" => /\ \A i \in DOMAIN dbq' : Updates(dbq'[i]) => dbq'[i].state # "CANCELED"
                             /\ \A o \in Orders : rows[o].state # "CANCELED"
  BY <1>4, <1>5 DEF InTurn
<1> HIDE DEF st, q
<1> QED
  BY <1>1, <1>3, <1>7, <1>8, <1>9, <1>10, <1>11 DEF InTurn, Updates, Before

\* Shortening the queue leaves the rest of it in turn.
LEMMA InTurnTail ==
  ASSUME Types, InTurn(dbq, stream), dbq # <<>>
  PROVE  LET t == Tail(dbq)
         IN  /\ \A i \in DOMAIN t : \E k \in DOMAIN dbq : t[i] = dbq[k]
             /\ \A i, j \in DOMAIN t :
                   i <= j /\ Updates(t[i]) /\ Updates(t[j]) /\ t[i].cid = t[j].cid
                      => Before(t[i], t[j])
             /\ \A i \in DOMAIN t, j \in DOMAIN stream :
                   Updates(t[i]) /\ t[i].cid = stream[j].cid => t[i].n <= stream[j].n
             /\ \A i \in DOMAIN t :
                   Updates(Head(dbq)) /\ Updates(t[i]) /\ t[i].cid = Head(dbq).cid
                      => Before(Head(dbq), t[i])
<1> DEFINE t == Tail(dbq)
<1>1. /\ 1 \in DOMAIN dbq /\ Head(dbq) = dbq[1] /\ DOMAIN t \subseteq Int /\ DOMAIN dbq \subseteq Int
      /\ \A i \in DOMAIN dbq : 1 <= i
      /\ \A i \in DOMAIN t : i + 1 \in DOMAIN dbq /\ t[i] = dbq[i + 1]
  BY TailIs DEF Types, EngineType
<1> HIDE DEF t
<1>2. ASSUME NEW i \in DOMAIN t, NEW j \in DOMAIN t, i <= j, Updates(t[i]), Updates(t[j]),
             t[i].cid = t[j].cid
      PROVE  Before(t[i], t[j])
  <2>1. /\ i + 1 <= j + 1 /\ i + 1 \in DOMAIN dbq /\ j + 1 \in DOMAIN dbq
        /\ t[i] = dbq[i + 1] /\ t[j] = dbq[j + 1]
    BY <1>1, <1>2
  <2> QED
    BY <1>2, <2>1 DEF InTurn
<1>3. ASSUME NEW i \in DOMAIN t, Updates(Head(dbq)), Updates(t[i]), t[i].cid = Head(dbq).cid
      PROVE  Before(Head(dbq), t[i])
  <2>1. 1 <= i + 1 /\ i + 1 \in DOMAIN dbq /\ t[i] = dbq[i + 1]
    BY <1>1, <1>3
  <2> QED
    BY <1>1, <1>3, <2>1 DEF InTurn
<1>4. \A i \in DOMAIN t : \E k \in DOMAIN dbq : t[i] = dbq[k]
  BY <1>1
<1>5. \A i \in DOMAIN t, j \in DOMAIN stream :
         Updates(t[i]) /\ t[i].cid = stream[j].cid => t[i].n <= stream[j].n
  BY <1>4 DEF InTurn
<1> QED
  BY <1>2, <1>3, <1>4, <1>5 DEF t

\* A queue stays in turn without its oldest event.
LEMMA InTurnFails ==
  ASSUME Types, InTurn(dbq, stream), DbWriteFails
  PROVE  InTurn(dbq, stream)'
<1>1. /\ dbq # <<>> /\ dbq' = Tail(dbq) /\ UNCHANGED <<status, stream, rows>>
  BY DEF DbWriteFails, engineVars, tables
<1> DEFINE t == Tail(dbq)
<1>2. /\ \A i \in DOMAIN t : \E k \in DOMAIN dbq : t[i] = dbq[k]
      /\ \A i, j \in DOMAIN t :
            i <= j /\ Updates(t[i]) /\ Updates(t[j]) /\ t[i].cid = t[j].cid
               => Before(t[i], t[j])
      /\ \A i \in DOMAIN t, j \in DOMAIN stream :
            Updates(t[i]) /\ t[i].cid = stream[j].cid => t[i].n <= stream[j].n
  BY <1>1, InTurnTail
<1>3. /\ \A i \in DOMAIN t : Updates(t[i]) => Before(rows[t[i].cid], t[i])
      /\ status = "RUNNING" => \A i \in DOMAIN t : Updates(t[i]) => t[i].state # "CANCELED"
  BY <1>2 DEF InTurn
<1> HIDE DEF t
<1>4. dbq' = t
  BY <1>1 DEF t
<1> QED
  BY <1>1, <1>2, <1>3, <1>4 DEF InTurn, Updates, Before

\* The row takes over the oldest event, so the queue stays ahead of it.
LEMMA InTurnWrite ==
  ASSUME Types, Genuine, InTurn(dbq, stream), DbWrite
  PROVE  InTurn(dbq, stream)'
<1> DEFINE e == Head(dbq)
           t == Tail(dbq)
           row == rows'[e.cid]
<1>1. /\ dbq # <<>> /\ dbq' = t /\ UNCHANGED <<status, stream>> /\ dbq \in Seq(EventSet)
      /\ stream \in Seq(ReportSet)
      /\ rows \in [Orders -> [state : LocalOrderState \cup {"NONE"}, n : Nat]]
  BY WriteIs DEF engineVars, Types, TableType, WorldType
<1>2. /\ \A i \in DOMAIN t : \E k \in DOMAIN dbq : t[i] = dbq[k]
      /\ \A i, j \in DOMAIN t :
            i <= j /\ Updates(t[i]) /\ Updates(t[j]) /\ t[i].cid = t[j].cid
               => Before(t[i], t[j])
      /\ \A i \in DOMAIN t, j \in DOMAIN stream :
            Updates(t[i]) /\ t[i].cid = stream[j].cid => t[i].n <= stream[j].n
      /\ \A i \in DOMAIN t : Updates(e) /\ Updates(t[i]) /\ t[i].cid = e.cid => Before(e, t[i])
  BY <1>1, InTurnTail
<1>3. /\ e.cid \in Orders /\ e.n \in Nat /\ Justified(e)
      /\ \A j \in DOMAIN stream : Updates(e) /\ e.cid = stream[j].cid => e.n <= stream[j].n
      /\ status = "RUNNING" => (Updates(e) => e.state # "CANCELED")
  <2>1. e \in EventSet /\ 1 \in DOMAIN dbq /\ e = dbq[1]
    BY <1>1, TailIs
  <2> QED
    BY <2>1 DEF EventSet, Genuine, InTurn
<1>4. /\ \A i \in DOMAIN t : t[i] \in EventSet
      /\ \A i \in DOMAIN stream : stream[i] \in ReportSet
  BY <1>1, <1>2
<1>5. \/ rows' = rows
      \/ /\ \A o \in Orders \ {e.cid} : rows'[o] = rows[o]
         /\ \/ row = [state |-> "SUBMIT_QUEUED", n |-> 0]
            \/ Updates(e) /\ row = [state |-> e.state, n |-> e.n]
            \/ /\ row = [state |-> e.state, n |-> rows[e.cid].n]
               /\ e.state \in {"REJECTED", "MISSED"}
  <2>1. Renames(e) => e.state \in {"REJECTED", "MISSED"}
    BY <1>3 DEF Justified, Updates, Renames, Intent, Judges, Denies
  <2>2. ~Updates(e) /\ ~Renames(e) /\ e.op # "insert_fill" => e.state = "SUBMIT_QUEUED"
    BY <1>3 DEF Justified, Intent
  <2>3. \/ rows' = rows
        \/ /\ ~Updates(e) /\ ~Renames(e) /\ e.op # "insert_fill"
           /\ rows' = [rows EXCEPT ![e.cid] = [state |-> e.state, n |-> 0]]
        \/ Updates(e) /\ rows' = [rows EXCEPT ![e.cid] = [state |-> e.state, n |-> e.n]]
        \/ /\ Renames(e)
           /\ rows' = [rows EXCEPT ![e.cid] = [state |-> e.state, n |-> rows[e.cid].n]]
    BY WriteIs DEF tables
  <2> HIDE DEF e
  <2>4. \A v : rows' = [rows EXCEPT ![e.cid] = v] =>
           rows'[e.cid] = v /\ \A o \in Orders \ {e.cid} : rows'[o] = rows[o]
    BY <1>1, <1>3
  <2> QED
    BY <2>1, <2>2, <2>3, <2>4 DEF row
<1> HIDE DEF e, t, row
<1>6. \A i \in DOMAIN t : Updates(t[i]) => Before(rows'[t[i].cid], t[i])
  <2>1. \A i \in DOMAIN t : Updates(t[i]) => Before(rows[t[i].cid], t[i])
    BY <1>2 DEF InTurn
  <2>2. ASSUME NEW i \in DOMAIN t, Updates(t[i]), t[i].cid = e.cid,
               \/ row = [state |-> "SUBMIT_QUEUED", n |-> 0]
               \/ Updates(e) /\ row = [state |-> e.state, n |-> e.n]
               \/ /\ row = [state |-> e.state, n |-> rows[e.cid].n]
                  /\ e.state \in {"REJECTED", "MISSED"}
        PROVE  Before(row, t[i])
    <3>1. t[i].n \in Nat
      BY <1>4 DEF EventSet
    <3> QED
      BY <1>2, <2>1, <2>2, <3>1 DEF Before
  <2>3. \A i \in DOMAIN t : t[i].cid \in Orders
    BY <1>4 DEF EventSet
  <2> QED
    BY <1>5, <2>1, <2>2, <2>3 DEF row
<1>7. \A j \in DOMAIN stream : rows'[stream[j].cid].n <= stream[j].n
  <2>1. ASSUME NEW j \in DOMAIN stream PROVE rows'[stream[j].cid].n <= stream[j].n
    <3>1. /\ rows[stream[j].cid].n <= stream[j].n /\ stream[j].cid \in Orders /\ stream[j].n \in Nat
      BY <1>4 DEF InTurn, ReportSet
    <3> QED
      BY <1>3, <1>5, <3>1 DEF row
  <2> QED
    BY <2>1
<1>8. status = "RUNNING" => /\ \A i \in DOMAIN t : Updates(t[i]) => t[i].state # "CANCELED"
                            /\ \A o \in Orders : rows'[o].state # "CANCELED"
  BY <1>2, <1>3, <1>5 DEF InTurn, row
<1>9. \A i, j \in DOMAIN stream : i <= j /\ stream[i].cid = stream[j].cid
                                    => stream[i].n <= stream[j].n
  BY DEF InTurn
<1> QED
  BY <1>1, <1>2, <1>6, <1>7, <1>8, <1>9 DEF InTurn, Updates, Before

\* The emergency stop reorders nothing; the bot has canceled nothing before it.
LEMMA InTurnStop ==
  ASSUME InTurn(dbq, stream), EmergencyStop
  PROVE  InTurn(dbq, stream)'
BY DEF InTurn, EmergencyStop, tables, Updates, Before

\* A new report tells a later execution than all that went before.
LEMMA InTurnMoved ==
  ASSUME Types, Genuine, InTurn(dbq, stream), NEW o \in Orders,
         NEW x \in [state : States, n : 0 .. Parts + 2], Moved(o, x), Counted(x)
  PROVE  InTurn(dbq, stream)'
<1>1. /\ UNCHANGED <<status, dbq, rows>> /\ stream \in Seq(ReportSet)
      /\ \A p \in Orders : exchange[p].n \in Nat /\ rows[p].n \in Nat
      /\ dbq \in Seq(EventSet)
  <2>1. UNCHANGED <<status, dbq, rows>>
    BY DEF Moved, tables
  <2>2. \A p \in Orders : exchange[p].n \in Nat /\ rows[p].n \in Nat
    BY StoreAssumption DEF Types, WorldType, TableType, ExchangeSet
  <2> QED
    BY <2>1, <2>2 DEF Types, EngineType, WorldType
<1>2. CASE UNCHANGED stream
  BY <1>1, <1>2 DEF InTurn, Updates, Before
<1>3. ASSUME NEW r \in ReportSet, r.cid = o, r.n = exchange[o].n + 1,
             stream' = Append(stream, r) \/ stream' = Append(Append(stream, r), r)
      PROVE  InTurn(dbq, stream)'
  <2>1. /\ \A i \in DOMAIN stream' : (i \in DOMAIN stream /\ stream'[i] = stream[i]) \/ stream'[i] = r
        /\ \A i, j \in DOMAIN stream' : i <= j /\ j \in DOMAIN stream => i \in DOMAIN stream
        /\ \A i \in DOMAIN stream : stream'[i] = stream[i]
    <3>1. /\ Append(stream, r) \in Seq(ReportSet)
          /\ \A i \in DOMAIN Append(stream, r) :
                (i \in DOMAIN stream /\ Append(stream, r)[i] = stream[i]) \/ Append(stream, r)[i] = r
          /\ \A i \in DOMAIN stream : Append(stream, r)[i] = stream[i] /\ i \in DOMAIN Append(stream, r)
          /\ \A i, j \in DOMAIN Append(stream, r) : i <= j /\ j \in DOMAIN stream => i \in DOMAIN stream
      BY <1>1
    <3> DEFINE s == Append(stream, r)
    <3> HIDE DEF s
    <3>2. \A q \in Seq(ReportSet) :
             /\ \A i \in DOMAIN Append(q, r) :
                   (i \in DOMAIN q /\ Append(q, r)[i] = q[i]) \/ Append(q, r)[i] = r
             /\ \A i \in DOMAIN q : Append(q, r)[i] = q[i]
             /\ DOMAIN Append(q, r) \subseteq Nat \ {0}
             /\ \A i \in Nat \ {0}, j \in DOMAIN q : i <= j => i \in DOMAIN q
      OBVIOUS
    <3>3. CASE stream' = Append(stream, r)
      BY <3>1, <3>3
    <3>4. CASE stream' = Append(s, r) /\ s = Append(stream, r)
      <4>1. /\ s \in Seq(ReportSet)
            /\ \A i \in DOMAIN s : (i \in DOMAIN stream /\ s[i] = stream[i]) \/ s[i] = r
            /\ \A i \in DOMAIN stream : s[i] = stream[i] /\ i \in DOMAIN s
        BY <3>1, <3>4
      <4>2. \A i \in DOMAIN stream' : (i \in DOMAIN s /\ stream'[i] = s[i]) \/ stream'[i] = r
        BY <3>2, <3>4, <4>1
      <4>3. \A i \in DOMAIN s : stream'[i] = s[i]
        BY <3>2, <3>4, <4>1
      <4>4. \A i \in DOMAIN stream', j \in DOMAIN stream : i <= j => i \in DOMAIN stream
        BY <1>1, <3>2, <3>4, <4>1
      <4> QED
        BY <4>1, <4>2, <4>3, <4>4
    <3> QED
      BY <1>3, <3>3, <3>4 DEF s
  <2>2. /\ \A i \in DOMAIN stream : stream[i].cid = o => stream[i].n <= r.n
        /\ \A i \in DOMAIN dbq : Updates(dbq[i]) /\ dbq[i].cid = o => dbq[i].n <= r.n
        /\ rows[o].n <= r.n /\ r.n <= r.n
    <3>1. /\ \A i \in DOMAIN stream : stream[i].n \in Nat
          /\ \A i \in DOMAIN dbq : dbq[i].n \in Nat
      <4>1. /\ \A i \in DOMAIN stream : stream[i] \in ReportSet
            /\ \A i \in DOMAIN dbq : dbq[i] \in EventSet
        BY <1>1
      <4> QED
        BY <4>1 DEF ReportSet, EventSet
    <3>2. \A n \in Nat : n <= exchange[o].n => n <= r.n
      BY <1>1, <1>3
    <3>3. /\ rows[o].n <= exchange[o].n
          /\ \A i \in DOMAIN stream : stream[i].n <= exchange[stream[i].cid].n
          /\ \A i \in DOMAIN dbq : Updates(dbq[i]) => dbq[i].n <= exchange[dbq[i].cid].n
      BY NothingAhead
    <3> QED
      BY <1>1, <1>3, <3>1, <3>2, <3>3
  <2>3. \A i, j \in DOMAIN stream' : i <= j /\ stream'[i].cid = stream'[j].cid
                                       => stream'[i].n <= stream'[j].n
    <3>1. ASSUME NEW i \in DOMAIN stream', NEW j \in DOMAIN stream', i <= j,
                 stream'[i].cid = stream'[j].cid
          PROVE  stream'[i].n <= stream'[j].n
      <4>1. CASE j \in DOMAIN stream
        BY <2>1, <3>1, <4>1 DEF InTurn
      <4>2. CASE j \notin DOMAIN stream
        BY <1>3, <2>1, <2>2, <3>1, <4>2
      <4> QED
        BY <4>1, <4>2
    <3> QED
      BY <3>1
  <2>4. \A i \in DOMAIN dbq, j \in DOMAIN stream' :
           Updates(dbq[i]) /\ dbq[i].cid = stream'[j].cid => dbq[i].n <= stream'[j].n
    BY <1>3, <2>1, <2>2 DEF InTurn
  <2>5. \A j \in DOMAIN stream' : rows[stream'[j].cid].n <= stream'[j].n
    BY <1>3, <2>1, <2>2 DEF InTurn
  <2> QED
    BY <1>1, <2>3, <2>4, <2>5 DEF InTurn, Updates, Before
<1> QED
  BY <1>2, <1>3 DEF Moved, Reported, Vanished

-----------------------------------------------------------------------------
(* What has happened is stored, queued or on its way *)

\* The emergency stop drops no word.
LEMMA ToldStop ==
  ASSUME Told, EmergencyStop
  PROVE  Told'
BY DEF Told, ToldOf, HasRow, LastTold, TradesTold, GhostTold, MissTold, PassTold, Trades,
       Updates, Renames, Intent, EmergencyStop, tables

\* What row and queue can say of an order that has not arrived, or has expired.
LEMMA SilentIs ==
  ASSUME Types, Genuine, NEW o \in Orders
  PROVE  /\ exchange[o].state \in {"none", "lost"} =>
               /\ exchange[o].n = 0
               /\ \A i \in DOMAIN dbq : dbq[i].cid = o => ~Updates(dbq[i])
               /\ \A i \in DOMAIN dbq : dbq[i].cid = o /\ Renames(dbq[i])
                                           => dbq[i].state = "REJECTED"
               /\ rows[o].state \in {"NONE", "SUBMIT_QUEUED", "REJECTED"}
         /\ exchange[o].state = "none" /\ o \notin doubted =>
               /\ rows[o].state \in {"NONE", "SUBMIT_QUEUED"}
               /\ \A i \in DOMAIN dbq : dbq[i].cid = o => ~Renames(dbq[i])
         /\ exchange[o].state = "expired" /\ o \notin doubted =>
               /\ \A i \in DOMAIN dbq : dbq[i].cid = o /\ Updates(dbq[i])
                                           => dbq[i].state = "EXPIRED"
               /\ \A i \in DOMAIN dbq : dbq[i].cid = o /\ Renames(dbq[i])
                                           => dbq[i].state = "MISSED"
<1>1. /\ RowJustified(o) /\ Counted(exchange[o]) /\ \A i \in DOMAIN dbq : Justified(dbq[i])
      /\ exchange[o].n \in Nat /\ dbq \in Seq(EventSet)
  BY StoreAssumption DEF Genuine, Types, EngineType, WorldType, ExchangeSet
<1>2. \A i \in DOMAIN dbq : dbq[i].cid = o =>
         /\ Updates(dbq[i]) => Says(exchange[o], dbq[i].n, dbq[i].state)
         /\ Renames(dbq[i]) => Judges(exchange[o], dbq[i].state) \/ Denies(o, dbq[i].state)
  BY <1>1 DEF Justified, Updates, Renames, Intent
<1>3. exchange[o].state \in {"none", "lost"} =>
         /\ exchange[o].n = 0
         /\ \A n, s : ~Says(exchange[o], n, s)
         /\ \A s : Judges(exchange[o], s) => s = "REJECTED" /\ exchange[o].state = "lost"
  BY <1>1 DEF Counted, Says, Judges
<1>4. exchange[o].state = "expired" =>
         \A s : /\ Judges(exchange[o], s) => s = "MISSED"
                /\ \A n : Says(exchange[o], n, s) => s = "EXPIRED"
  BY <1>1 DEF Counted, Says, Judges
<1>5. exchange[o].state \in {"none", "lost"} =>
         /\ rows[o].state \in {"NONE", "SUBMIT_QUEUED", "REJECTED"}
         /\ exchange[o].state = "none" /\ o \notin doubted => rows[o].state # "REJECTED"
  BY <1>1, <1>3 DEF RowJustified, NoRow, Denies
<1>6. CASE exchange[o].state \in {"none", "lost"}
  BY <1>2, <1>3, <1>5, <1>6 DEF Denies
<1>7. CASE exchange[o].state = "expired"
  BY <1>2, <1>4, <1>7 DEF Denies
<1> QED
  BY <1>6, <1>7

\* The report of a new execution is on its way.
LEMMA ToldMoved ==
  ASSUME Types, Genuine, Sending, Told, NEW o \in Orders,
         NEW x \in [state : States, n : 0 .. Parts + 2], Moved(o, x), Counted(x)
  PROVE  Told'
<1>1. /\ UNCHANGED <<status, belief, submitted, pass, dbq, rows, fills, lost, doubted>>
      /\ exchange'[o] = x /\ \A p \in Orders \ {o} : exchange'[p] = exchange[p]
      /\ Counted(exchange[o]) /\ Advances(exchange[o], x)
      /\ \A p \in Orders \ {o} : Trades(p)' = Trades(p)
      /\ stream \in Seq(ReportSet) /\ submitted \subseteq Orders
  BY MovedAdvances DEF Moved, tables, Types, EngineType, WorldType
<1>2. Extends(stream, stream') /\ (Reported(o, x) => \E r \in ReportSet :
                                      r.cid = o /\ r.n = x.n /\ Added(stream, stream', r))
  <2>1. ASSUME NEW r \in ReportSet,
               stream' = Append(stream, r) \/ stream' = Append(Append(stream, r), r)
        PROVE  Extends(stream, stream') /\ Added(stream, stream', r)
    <3> DEFINE s == Append(stream, r)
    <3>1. s \in Seq(ReportSet) /\ Extends(stream, s) /\ Added(stream, s, r)
      BY <1>1, ExtendsAppend
    <3> HIDE DEF s
    <3>2. Extends(s, Append(s, r))
      BY <3>1, ExtendsAppend
    <3>3. Extends(stream, Append(s, r)) /\ Added(stream, Append(s, r), r)
      BY <3>1, <3>2, ExtendsTwice, AddedKept
    <3> QED
      BY <2>1, <3>1, <3>3 DEF s
  <2>2. CASE Reported(o, x)
    BY <2>1, <2>2 DEF Reported
  <2>3. CASE Vanished(o, x) /\ ~Reported(o, x)
    BY <2>3 DEF Vanished, Extends
  <2> QED
    BY <2>2, <2>3 DEF Moved
<1>3. ASSUME NEW p \in submitted \ lost, p # o PROVE ToldOf(p)'
  <2>1. ToldOf(p) /\ p \in Orders
    BY <1>1, <1>3 DEF Told
  <2>2. /\ exchange'[p] = exchange[p] /\ Trades(p)' = Trades(p)
        /\ \A i \in DOMAIN stream : i \in DOMAIN stream' /\ stream'[i] = stream[i]
    BY <1>1, <1>2, <1>3, <2>1 DEF Extends
  <2>3. HasRow(p, dbq)' /\ GhostTold(p, dbq)' /\ MissTold(p, dbq)' /\ PassTold(p)'
    BY <1>1, <2>1, <2>2
       DEF ToldOf, HasRow, GhostTold, MissTold, PassTold, Updates, Renames, Intent
  <2>4. LastTold(p, dbq, stream)'
    BY <1>1, <2>1, <2>2 DEF ToldOf, LastTold, Updates
  <2>5. TradesTold(p, dbq, stream)'
    BY <1>1, <2>1, <2>2 DEF ToldOf, TradesTold
  <2> QED
    BY <2>3, <2>4, <2>5 DEF ToldOf
<1>4. ASSUME o \in submitted \ lost PROVE ToldOf(o)'
  <2>1. ToldOf(o) /\ x.n \in Nat /\ exchange[o].n \in Nat
    BY <1>4, MovedAdvances DEF Told
  <2>2. \A i \in DOMAIN stream : i \in DOMAIN stream' /\ stream'[i] = stream[i]
    BY <1>2 DEF Extends
  <2>3. /\ Reported(o, x) => \E i \in DOMAIN stream' : stream'[i].cid = o /\ stream'[i].n = x.n
        /\ ~Reported(o, x) => x.n = exchange[o].n /\ x.state = "lost"
    BY <1>1, <1>2 DEF Added, Moved, Vanished, Counted
  <2>4. HasRow(o, dbq)'
    BY <1>1, <2>1 DEF ToldOf, HasRow, Intent
  <2>5. LastTold(o, dbq, stream)'
    BY <1>1, <2>1, <2>2, <2>3 DEF ToldOf, LastTold, Updates
  <2>6. TradesTold(o, dbq, stream)'
    <3>1. \A k \in Trades(o)' : k \in Trades(o) \/ k = x.n
      <4>1. /\ Trades(o) = IF exchange[o].state = "canceled" THEN 2 .. exchange[o].n - 1
                                                             ELSE 2 .. exchange[o].n
            /\ Trades(o)' = IF x.state = "canceled" THEN 2 .. x.n - 1 ELSE 2 .. x.n
        BY <1>1 DEF Trades
      <4> QED
        BY <1>1, <2>1, <4>1 DEF Advances, Counted
    <3>2. ~Reported(o, x) => Trades(o)' = {}
      <4>1. Trades(o)' = IF x.state = "canceled" THEN 2 .. x.n - 1 ELSE 2 .. x.n
        BY <1>1 DEF Trades
      <4> QED
        BY <2>1, <2>3, <4>1 DEF Counted
    <3>3. \A k \in Trades(o) :
             \/ \E i \in DOMAIN fills[o] : fills[o][i] = k
             \/ \E i \in DOMAIN dbq : dbq[i].op = "insert_fill" /\ dbq[i].cid = o /\ dbq[i].n = k
             \/ \E i \in DOMAIN stream' : stream'[i].cid = o /\ stream'[i].n = k
      BY <2>1, <2>2 DEF ToldOf, TradesTold
    <3> QED
      BY <1>1, <2>3, <3>1, <3>2, <3>3 DEF TradesTold
  <2>7. /\ x.state \in {"lost", "expired"} => exchange[o].state = "none"
        /\ x.state # "none" /\ (x.state = "lost" => exchange[o].state = "none")
        /\ exchange[o].state # "canceled"
    BY <1>1 DEF Advances
  <2>8. GhostTold(o, dbq)'
    BY <1>1, <2>1, <2>7 DEF ToldOf, GhostTold, Renames
  <2>9. MissTold(o, dbq)'
    BY <1>1, <2>7, SilentIs DEF MissTold, Renames, Updates
  <2>10. PassTold(o)'
    BY <1>1, <2>1, <2>7 DEF ToldOf, PassTold
  <2> QED
    BY <2>4, <2>5, <2>6, <2>8, <2>9, <2>10 DEF ToldOf
<1> QED
  BY <1>1, <1>3, <1>4 DEF Told

\* The places of an order's events when the queue loses its head.
LEMMA TailPlaces ==
  ASSUME Types, dbq # <<>>
  PROVE  /\ 1 \in DOMAIN dbq /\ Head(dbq) = dbq[1] /\ DOMAIN dbq \subseteq Int
         /\ DOMAIN Tail(dbq) \subseteq Int
         /\ \A i \in DOMAIN Tail(dbq) : i + 1 \in DOMAIN dbq /\ Tail(dbq)[i] = dbq[i + 1]
         /\ \A i \in DOMAIN dbq : i # 1 => 1 < i /\ i - 1 \in DOMAIN Tail(dbq)
                                           /\ Tail(dbq)[i - 1] = dbq[i]
         /\ \A i \in DOMAIN dbq : 1 <= i
BY TailIs DEF Types, EngineType

\* The writer was busy with another order.
LEMMA ToldTail ==
  ASSUME Types, NEW o \in Orders, ToldOf(o), dbq # <<>>, dbq' = Tail(dbq), Head(dbq).cid # o,
         rows'[o] = rows[o], fills'[o] = fills[o],
         UNCHANGED <<status, belief, pass, exchange, stream, doubted>>
  PROVE  ToldOf(o)'
<1> DEFINE t == Tail(dbq)
<1>1. /\ 1 \in DOMAIN dbq /\ Head(dbq) = dbq[1] /\ DOMAIN dbq \subseteq Int /\ DOMAIN t \subseteq Int
      /\ \A i \in DOMAIN t : i + 1 \in DOMAIN dbq /\ t[i] = dbq[i + 1]
      /\ \A i \in DOMAIN dbq : i # 1 => 1 < i /\ i - 1 \in DOMAIN t /\ t[i - 1] = dbq[i]
      /\ dbq' = t
  BY TailPlaces
<1> HIDE DEF t
<1>2. \A i \in DOMAIN dbq : dbq[i].cid = o => i - 1 \in DOMAIN t /\ t[i - 1] = dbq[i]
  BY <1>1
<1>3. HasRow(o, dbq)'
  <2>1. ASSUME NEW i \in DOMAIN dbq, dbq[i] = Intent(o),
               \A j \in DOMAIN dbq : dbq[j].cid = o => i <= j
        PROVE  /\ i - 1 \in DOMAIN t /\ t[i - 1] = Intent(o)
               /\ \A j \in DOMAIN t : t[j].cid = o => i - 1 <= j
    <3>1. dbq[i].cid = o
      BY <2>1 DEF Intent
    <3>2. i - 1 \in DOMAIN t /\ t[i - 1] = Intent(o)
      BY <1>2, <2>1, <3>1
    <3>3. \A j \in DOMAIN t : t[j].cid = o => i <= j + 1
      BY <1>1, <2>1
    <3> QED
      BY <1>1, <3>2, <3>3
  <2>2. \/ rows[o] # NoRow
        \/ \E i \in DOMAIN t : t[i] = Intent(o) /\ \A j \in DOMAIN t : t[j].cid = o => i <= j
    BY <2>1 DEF ToldOf, HasRow
  <2> QED
    BY <1>1, <2>2 DEF HasRow, Intent
<1>4. LastTold(o, dbq, stream)'
  BY <1>1, <1>2 DEF ToldOf, LastTold, Updates
<1>5. TradesTold(o, dbq, stream)'
  <2>1. \A k \in Trades(o) :
           \/ \E i \in DOMAIN fills[o] : fills[o][i] = k
           \/ \E i \in DOMAIN t : t[i].op = "insert_fill" /\ t[i].cid = o /\ t[i].n = k
           \/ \E i \in DOMAIN stream : stream[i].cid = o /\ stream[i].n = k
    BY <1>2 DEF ToldOf, TradesTold
  <2>2. Trades(o)' = Trades(o)
    BY DEF Trades
  <2> QED
    BY <1>1, <2>1, <2>2 DEF TradesTold
<1>6. GhostTold(o, dbq)'
  BY <1>1, <1>2 DEF ToldOf, GhostTold, Renames
<1>7. MissTold(o, dbq)'
  <2>1. CASE exchange[o].state = "expired" /\ o \notin doubted
    <3>1. /\ belief[o] # "missed" => /\ rows[o].state # "MISSED"
                                     /\ \A i \in DOMAIN t : Renames(t[i]) => t[i].cid # o
          /\ status = "RUNNING" => (rows[o].state = "EXPIRED" =>
                \E i \in DOMAIN t : Renames(t[i]) /\ t[i].cid = o)
      BY <1>1, <1>2, <2>1 DEF ToldOf, MissTold
    <3>2. ASSUME status = "RUNNING", NEW i \in DOMAIN t, Updates(t[i]), t[i].cid = o
          PROVE  \E j \in DOMAIN t : i < j /\ Renames(t[j]) /\ t[j].cid = o
      <4>1. i + 1 \in DOMAIN dbq /\ t[i] = dbq[i + 1]
        BY <1>1, <3>2
      <4>2. PICK j \in DOMAIN dbq : i + 1 < j /\ Renames(dbq[j]) /\ dbq[j].cid = o
        BY <2>1, <3>2, <4>1 DEF ToldOf, MissTold
      <4>3. j - 1 \in DOMAIN t /\ t[j - 1] = dbq[j] /\ i < j - 1
        BY <1>1, <1>2, <3>2, <4>2
      <4> QED
        BY <4>2, <4>3
    <3>3. status = "RUNNING" =>
             \A i \in DOMAIN t : Updates(t[i]) /\ t[i].cid = o =>
                \E j \in DOMAIN t : i < j /\ Renames(t[j]) /\ t[j].cid = o
      BY <3>2
    <3>4. UNCHANGED <<status, belief, exchange>> /\ rows'[o] = rows[o] /\ dbq' = t
      BY <1>1
    <3> QED
      BY <3>1, <3>3, <3>4 DEF MissTold, Renames, Updates
  <2>2. CASE exchange[o].state # "expired" \/ o \in doubted
    BY <2>2 DEF MissTold
  <2> QED
    BY <2>1, <2>2
<1>8. PassTold(o)'
  BY DEF ToldOf, PassTold
<1> QED
  BY <1>3, <1>4, <1>5, <1>6, <1>7, <1>8 DEF ToldOf

\* A dropped event concerns only the order that now counts as lost.
LEMMA ToldFails ==
  ASSUME Types, Told, DbWriteFails
  PROVE  Told'
<1>1. /\ dbq # <<>> /\ dbq' = Tail(dbq) /\ lost' = lost \cup {Head(dbq).cid}
      /\ UNCHANGED <<status, belief, submitted, pass, exchange, stream, rows, fills, doubted>>
      /\ submitted \subseteq Orders
  BY DEF DbWriteFails, engineVars, tables, Types, EngineType
<1>2. ASSUME NEW o \in submitted \ lost, o # Head(dbq).cid PROVE ToldOf(o)'
  BY <1>1, <1>2, ToldTail DEF Told
<1> QED
  BY <1>1, <1>2 DEF Told

\* What the oldest event, if it is about order o, makes of the order's row.
LEMMA WritesRow ==
  ASSUME Types, Genuine, DbWrite, NEW o \in Orders, HasRow(o, dbq), Head(dbq).cid = o
  PROVE  LET e == Head(dbq)
         IN  \/ /\ e.op = "insert_fill" /\ ~Updates(e) /\ ~Renames(e)
                /\ rows' = rows /\ rows[o] # NoRow
             \/ /\ e = Intent(o) /\ ~Updates(e) /\ ~Renames(e) /\ rows' = rows
                /\ rows[o] # NoRow
             \/ /\ e = Intent(o) /\ ~Updates(e) /\ ~Renames(e) /\ rows[o] = NoRow
                /\ rows'[o] = [state |-> "SUBMIT_QUEUED", n |-> 0]
             \/ /\ Updates(e) /\ ~Renames(e) /\ rows[o] # NoRow
                /\ rows'[o] = [state |-> e.state, n |-> e.n]
             \/ /\ Renames(e) /\ ~Updates(e) /\ rows[o] # NoRow
                /\ rows'[o] = [state |-> e.state, n |-> rows[o].n]
<1> DEFINE e == Head(dbq)
<1>1. dbq # <<>> /\ e \in EventSet
  BY WriteIs
<1>2. 1 \in DOMAIN dbq /\ e = dbq[1] /\ \A i \in DOMAIN dbq : i # 1 => 1 < i
  BY <1>1, TailPlaces
<1>3. Justified(e)
  BY <1>2 DEF Genuine
<1>4. e = Intent(o) => ~Updates(e) /\ ~Renames(e) /\ e.op # "insert_fill" /\ e.state = "SUBMIT_QUEUED"
  BY DEF Intent, Updates, Renames
<1>5. ~Updates(e) /\ ~Renames(e) /\ e.op # "insert_fill" => e = Intent(o)
  BY <1>3 DEF Justified
<1>6. e = Intent(o) \/ rows[o] # NoRow
  <2>1. ASSUME NEW i \in DOMAIN dbq, dbq[i] = Intent(o),
               \A j \in DOMAIN dbq : dbq[j].cid = o => i <= j
        PROVE  e = Intent(o)
    <3>1. i <= 1 /\ i \in Int
      BY <1>2, <2>1, TailPlaces, <1>1
    <3>2. i = 1
      BY <1>2, <2>1, <3>1
    <3> QED
      BY <1>2, <2>1, <3>2
  <2> QED
    BY <2>1 DEF HasRow
<1>7. \A v : rows' = [rows EXCEPT ![e.cid] = v] => rows'[o] = v
  BY DEF Types, TableType
<1>8. (Updates(e) => ~Renames(e) /\ e.op # "insert_fill") /\ (Renames(e) => e.op # "insert_fill")
  BY DEF Updates, Renames
<1> HIDE DEF e
<1>9. e.cid = o
  BY DEF e
<1> QED
  BY <1>4, <1>5, <1>6, <1>7, <1>8, <1>9, WriteIs DEF e, tables

\* What the oldest event told of its order, the tables tell now.
LEMMA ToldWrite ==
  ASSUME Types, Genuine, InTurn(dbq, stream), Told, DbWrite
  PROVE  Told'
<1> DEFINE e == Head(dbq)
           t == Tail(dbq)
<1>1. /\ dbq # <<>> /\ dbq' = t /\ e \in EventSet
      /\ UNCHANGED <<status, belief, submitted, pass, exchange, stream, lost, doubted>>
      /\ submitted \subseteq Orders
  BY WriteIs DEF engineVars, Types, EngineType
<1>2. /\ 1 \in DOMAIN dbq /\ e = dbq[1] /\ DOMAIN dbq \subseteq Int /\ DOMAIN t \subseteq Int
      /\ \A i \in DOMAIN t : i + 1 \in DOMAIN dbq /\ t[i] = dbq[i + 1]
      /\ \A i \in DOMAIN dbq : i # 1 => 1 < i /\ i - 1 \in DOMAIN t /\ t[i - 1] = dbq[i]
      /\ \A i \in DOMAIN dbq : 1 <= i
  BY <1>1, TailPlaces
<1>3. ASSUME NEW o \in submitted \ lost, e.cid # o PROVE ToldOf(o)'
  <2>1. rows'[o] = rows[o] /\ fills'[o] = fills[o]
    <3>1. \/ rows' = rows
          \/ \E row : rows' = [rows EXCEPT ![e.cid] = row]
      BY WriteIs DEF tables
    <3>2. \/ fills' = fills
          \/ \E s : fills' = [fills EXCEPT ![e.cid] = s]
      BY WriteIs DEF tables, UpsertFill
    <3> QED
      BY <1>1, <1>3, <3>1, <3>2 DEF Types, TableType
  <2> QED
    BY <1>1, <1>3, <2>1, ToldTail DEF Told
<1>4. ASSUME NEW o \in submitted \ lost, e.cid = o PROVE ToldOf(o)'
  <2>1. ToldOf(o) /\ o \in Orders
    BY <1>1, <1>4 DEF Told
  <2>2. \/ /\ e.op = "insert_fill" /\ ~Updates(e) /\ ~Renames(e)
           /\ rows' = rows /\ rows[o] # NoRow
        \/ /\ e = Intent(o) /\ ~Updates(e) /\ ~Renames(e) /\ rows' = rows
           /\ rows[o] # NoRow
        \/ /\ e = Intent(o) /\ ~Updates(e) /\ ~Renames(e) /\ rows[o] = NoRow
           /\ rows'[o] = [state |-> "SUBMIT_QUEUED", n |-> 0]
        \/ /\ Updates(e) /\ ~Renames(e) /\ rows[o] # NoRow
           /\ rows'[o] = [state |-> e.state, n |-> e.n]
        \/ /\ Renames(e) /\ ~Updates(e) /\ rows[o] # NoRow
           /\ rows'[o] = [state |-> e.state, n |-> rows[o].n]
    BY <1>4, <2>1, WritesRow DEF ToldOf
  <2>3. /\ exchange[o].n \in Nat /\ rows[o].n \in Nat /\ e.n \in Nat
        /\ exchange' = exchange /\ Trades(o)' = Trades(o) /\ e.state # "NONE"
    BY <1>1, <2>1, StoreAssumption
       DEF Types, WorldType, TableType, ExchangeSet, EventSet, LocalOrderState, Trades
  <2>4. /\ Updates(e) => rows[o].n <= e.n /\ e.n <= exchange[o].n
        /\ rows[o].n <= exchange[o].n
    BY <1>2, <1>4, <2>1, NothingAhead DEF InTurn, Before
  <2>5. /\ exchange[o].state \in {"none", "lost"} =>
               /\ ~Updates(e) /\ (Renames(e) => e.state = "REJECTED")
        /\ exchange[o].state = "expired" /\ o \notin doubted =>
               /\ Updates(e) => e.state = "EXPIRED"
               /\ Renames(e) => e.state = "MISSED"
    BY <1>2, <1>4, <2>1, SilentIs
  <2>6. UNCHANGED <<status, belief, pass, stream, doubted>> /\ dbq' = t
    BY <1>1
  <2> HIDE DEF e, t
  <2>7. \A i \in DOMAIN dbq :
           \/ i = 1 /\ dbq[i] = e
           \/ i - 1 \in DOMAIN t /\ t[i - 1] = dbq[i]
    <3>1. ASSUME NEW i \in DOMAIN dbq, i # 1 PROVE i - 1 \in DOMAIN t /\ t[i - 1] = dbq[i]
      BY <1>2, <3>1
    <3>2. \A i \in DOMAIN dbq : i = 1 => dbq[i] = e
      BY <1>2
    <3> QED
      BY <3>1, <3>2
  <2>8. HasRow(o, dbq)'
    <3>1. rows'[o] # NoRow
      BY <2>2, <2>3 DEF NoRow
    <3> QED
      BY <3>1 DEF HasRow
  <2>9. LastTold(o, dbq, stream)'
    <3>1. CASE rows[o].n = exchange[o].n
      BY <2>2, <2>3, <2>4, <3>1 DEF LastTold, NoRow
    <3>2. CASE \E i \in DOMAIN dbq : Updates(dbq[i]) /\ dbq[i].cid = o /\ dbq[i].n = exchange[o].n
      <4>1. PICK i \in DOMAIN dbq : Updates(dbq[i]) /\ dbq[i].cid = o /\ dbq[i].n = exchange[o].n
        BY <3>2
      <4>2. CASE dbq[i] = e
        BY <2>2, <2>3, <4>1, <4>2 DEF LastTold, Updates, Intent
      <4>3. CASE i - 1 \in DOMAIN t /\ t[i - 1] = dbq[i]
        BY <2>3, <2>6, <4>1, <4>3 DEF LastTold, Updates
      <4> QED
        BY <2>7, <4>2, <4>3
    <3>3. CASE \E i \in DOMAIN stream : stream[i].cid = o /\ stream[i].n = exchange[o].n
      BY <2>3, <2>6, <3>3 DEF LastTold
    <3> QED
      BY <2>1, <3>1, <3>2, <3>3 DEF ToldOf, LastTold
  <2>10. TradesTold(o, dbq, stream)'
    <3>1. /\ \A i \in DOMAIN fills[o] : i \in DOMAIN fills'[o] /\ fills'[o][i] = fills[o][i]
          /\ e.op = "insert_fill" => \E i \in DOMAIN fills'[o] : fills'[o][i] = e.n
      <4>1. fills[o] \in Seq(Nat) /\ fills \in [Orders -> Seq(Nat)]
        BY <2>1 DEF Types, TableType
      <4> DEFINE f == fills[o]
      <4>2. \/ fills' = fills /\ e.op # "insert_fill"
            \/ fills' = fills /\ \E i \in DOMAIN f : f[i] = e.n
            \/ fills'[o] = Append(f, e.n)
        <5>1. IF e.op = "insert_fill" THEN UpsertFill(e) ELSE fills' = fills
          BY WriteIs DEF e, tables, Updates, Renames
        <5>2. UpsertFill(e) => \/ fills' = fills /\ \E i \in DOMAIN f : f[i] = e.n
                              \/ fills'[o] = Append(f, e.n)
          BY <1>4, <2>1, <4>1 DEF UpsertFill, e
        <5> QED
          BY <5>1, <5>2
      <4>3. /\ \A i \in DOMAIN f : i \in DOMAIN Append(f, e.n) /\ Append(f, e.n)[i] = f[i]
            /\ Len(f) + 1 \in DOMAIN Append(f, e.n) /\ Append(f, e.n)[Len(f) + 1] = e.n
        BY <2>3, <4>1, AppendIs
      <4> QED
        BY <4>2, <4>3
    <3>2. ASSUME NEW k \in Trades(o)
          PROVE  \/ \E i \in DOMAIN fills'[o] : fills'[o][i] = k
                 \/ \E i \in DOMAIN t : t[i].op = "insert_fill" /\ t[i].cid = o /\ t[i].n = k
                 \/ \E i \in DOMAIN stream : stream[i].cid = o /\ stream[i].n = k
      <4>1. \/ \E i \in DOMAIN fills[o] : fills[o][i] = k
            \/ \E i \in DOMAIN dbq : dbq[i].op = "insert_fill" /\ dbq[i].cid = o /\ dbq[i].n = k
            \/ \E i \in DOMAIN stream : stream[i].cid = o /\ stream[i].n = k
        BY <2>1 DEF ToldOf, TradesTold
      <4> QED
        BY <2>7, <3>1, <4>1
    <3> QED
      BY <2>3, <2>6, <3>2 DEF TradesTold
  <2>11. GhostTold(o, dbq)'
    <3>1. CASE exchange[o].state \in {"none", "lost"} /\ belief[o] \in {"freed", "missed"}
      <4>1. \/ rows[o].state = "REJECTED"
            \/ \E i \in DOMAIN dbq : Renames(dbq[i]) /\ dbq[i].cid = o
        BY <2>1, <3>1 DEF ToldOf, GhostTold
      <4>2. \/ rows'[o].state = "REJECTED"
            \/ \E i \in DOMAIN t : Renames(t[i]) /\ t[i].cid = o
        BY <2>2, <2>5, <2>7, <3>1, <4>1 DEF NoRow
      <4> QED
        BY <2>3, <2>6, <3>1, <4>2 DEF GhostTold, Renames
    <3>2. CASE exchange[o].state \in {"none", "lost"} /\ belief[o] \notin {"freed", "missed"}
      <4>1. /\ rows[o].state # "REJECTED"
            /\ \A i \in DOMAIN dbq : Renames(dbq[i]) => dbq[i].cid # o
        BY <2>1, <3>2 DEF ToldOf, GhostTold
      <4>2. /\ ~Renames(e) /\ \A i \in DOMAIN t : Renames(t[i]) => t[i].cid # o
        BY <1>2, <1>4, <4>1
      <4>3. rows'[o].state # "REJECTED"
        BY <2>2, <2>5, <3>2, <4>1, <4>2 DEF NoRow
      <4> QED
        BY <2>3, <2>6, <3>2, <4>2, <4>3 DEF GhostTold, Renames
    <3>3. CASE exchange[o].state \notin {"none", "lost"}
      BY <2>3, <3>3 DEF GhostTold
    <3> QED
      BY <3>1, <3>2, <3>3
  <2>12. MissTold(o, dbq)'
    <3>1. CASE exchange[o].state = "expired" /\ o \notin doubted
      <4>1. belief[o] # "missed" => /\ rows'[o].state # "MISSED"
                                    /\ \A i \in DOMAIN t : Renames(t[i]) => t[i].cid # o
        <5>1. CASE belief[o] # "missed"
          <6>1. /\ rows[o].state # "MISSED"
                /\ \A i \in DOMAIN dbq : Renames(dbq[i]) => dbq[i].cid # o
            BY <2>1, <3>1, <5>1 DEF ToldOf, MissTold
          <6>2. /\ ~Renames(e) /\ \A i \in DOMAIN t : Renames(t[i]) => t[i].cid # o
            BY <1>2, <1>4, <6>1
          <6> QED
            BY <2>2, <2>5, <3>1, <6>1, <6>2
        <5> QED
          BY <5>1
      <4>2. ASSUME status = "RUNNING", rows'[o].state = "EXPIRED"
            PROVE  \E i \in DOMAIN t : Renames(t[i]) /\ t[i].cid = o
        <5>1. ~Renames(e)
          BY <2>2, <2>5, <3>1, <4>2
        <5>2. Updates(e) \/ rows[o].state = "EXPIRED"
          BY <2>2, <4>2, <5>1
        <5>3. \E i \in DOMAIN dbq : Renames(dbq[i]) /\ dbq[i].cid = o
          BY <1>2, <1>4, <2>1, <3>1, <4>2, <5>2 DEF ToldOf, MissTold
        <5> QED
          BY <2>7, <5>1, <5>3
      <4>3. ASSUME status = "RUNNING", NEW i \in DOMAIN t, Updates(t[i]), t[i].cid = o
            PROVE  \E j \in DOMAIN t : i < j /\ Renames(t[j]) /\ t[j].cid = o
        <5>1. i + 1 \in DOMAIN dbq /\ t[i] = dbq[i + 1] /\ 1 <= i + 1 /\ i \in Int
          BY <1>2
        <5>2. PICK j \in DOMAIN dbq : i + 1 < j /\ Renames(dbq[j]) /\ dbq[j].cid = o
          BY <2>1, <3>1, <4>3, <5>1 DEF ToldOf, MissTold
        <5>3. j # 1 /\ j \in Int
          BY <1>2, <5>1, <5>2
        <5>4. j - 1 \in DOMAIN t /\ t[j - 1] = dbq[j] /\ i < j - 1
          BY <1>2, <5>1, <5>2, <5>3
        <5> QED
          BY <5>2, <5>4
      <4>4. status = "RUNNING" =>
               /\ rows'[o].state = "EXPIRED" => \E i \in DOMAIN t : Renames(t[i]) /\ t[i].cid = o
               /\ \A i \in DOMAIN t : Updates(t[i]) /\ t[i].cid = o =>
                     \E j \in DOMAIN t : i < j /\ Renames(t[j]) /\ t[j].cid = o
        BY <4>2, <4>3
      <4> QED
        BY <2>3, <2>6, <4>1, <4>4 DEF MissTold, Renames, Updates
    <3>2. CASE exchange[o].state # "expired" \/ o \in doubted
      BY <2>3, <2>6, <3>2 DEF MissTold
    <3> QED
      BY <3>1, <3>2
  <2>13. PassTold(o)'
    BY <2>1, <2>3, <2>6 DEF ToldOf, PassTold
  <2> QED
    BY <2>8, <2>9, <2>10, <2>11, <2>12, <2>13 DEF ToldOf
<1> QED
  BY <1>1, <1>3, <1>4 DEF Told

\* What a handler leaves of the word about order o.
LEMMA WordKept ==
  ASSUME Types, NEW h \in Orders, NEW p \in Orders, EngineStep(h, p), NEW o \in Orders, ToldOf(o)
  PROVE  /\ UNCHANGED <<status, exchange, rows, fills>> /\ Trades(o)' = Trades(o)
         /\ HasRow(o, dbq)'
         /\ \A i \in DOMAIN dbq : i \in DOMAIN dbq' /\ dbq'[i] = dbq[i]
         /\ \A i \in DOMAIN dbq' \ DOMAIN dbq : dbq'[i].cid \in {h, p} /\ NewEvent(dbq'[i])
         /\ \A i \in DOMAIN stream :
               \/ \E j \in DOMAIN stream' : stream'[j] = stream[i]
               \/ stream # <<>> /\ stream' = Tail(stream) /\ stream[i] = Head(stream)
<1>1. /\ UNCHANGED <<status, exchange, rows, fills>> /\ Grown(dbq', {h, p})
      /\ stream' = stream \/ (stream # <<>> /\ stream' = Tail(stream))
      /\ dbq \in Seq(EventSet) /\ stream \in Seq(ReportSet)
  BY DEF EngineStep, tables, Types, EngineType, WorldType
<1>2. Trades(o)' = Trades(o)
  BY <1>1 DEF Trades
<1>3. /\ \A i \in DOMAIN dbq : i \in DOMAIN dbq' /\ dbq'[i] = dbq[i] /\ i \in Int
      /\ \A i \in DOMAIN dbq' \ DOMAIN dbq : dbq'[i].cid \in {h, p} /\ NewEvent(dbq'[i])
      /\ \A i \in DOMAIN dbq, j \in DOMAIN dbq' \ DOMAIN dbq : i < j
      /\ DOMAIN dbq' \subseteq Int
  BY <1>1 DEF Grown, Extends
<1>4. HasRow(o, dbq)'
  <2>1. ASSUME NEW i \in DOMAIN dbq, dbq[i] = Intent(o),
               \A j \in DOMAIN dbq : dbq[j].cid = o => i <= j
        PROVE  \E k \in DOMAIN dbq' :
                  dbq'[k] = Intent(o) /\ \A j \in DOMAIN dbq' : dbq'[j].cid = o => k <= j
    <3>1. \A j \in DOMAIN dbq' : dbq'[j].cid = o => i <= j
      BY <1>3, <2>1
    <3> QED
      BY <1>3, <2>1, <3>1
  <2>2. \/ rows[o] # NoRow
        \/ \E k \in DOMAIN dbq' :
              dbq'[k] = Intent(o) /\ \A j \in DOMAIN dbq' : dbq'[j].cid = o => k <= j
    BY <2>1 DEF ToldOf, HasRow
  <2> QED
    BY <1>1, <2>2 DEF HasRow, Intent
<1>5. \A i \in DOMAIN stream :
         \/ \E j \in DOMAIN stream' : stream'[j] = stream[i]
         \/ stream # <<>> /\ stream' = Tail(stream) /\ stream[i] = Head(stream)
  <2>1. stream # <<>> =>
           /\ Head(stream) = stream[1]
           /\ \A i \in DOMAIN stream : i # 1 => i - 1 \in DOMAIN Tail(stream)
                                                /\ Tail(stream)[i - 1] = stream[i]
    BY <1>1, TailIs
  <2> QED
    BY <1>1, <2>1
<1> QED
  BY <1>1, <1>2, <1>3, <1>4, <1>5

\* What the oldest report told of its order, the queue tells now.
LEMMA ToldEngine ==
  ASSUME Types, Genuine, Sending, Told, NEW h \in Orders, NEW p \in Orders, EngineStep(h, p)
  PROVE  Told'
<1>1. /\ lost \subseteq lost' /\ submitted \subseteq Orders
      /\ \A o \in Orders \ {h, p} : belief'[o] = belief[o]
      /\ \/ stream' = stream
         \/ stream # <<>> /\ h = Head(stream).cid /\ stream' = Tail(stream)
      /\ \/ p = h /\ UNCHANGED <<submitted, sendq>>
         \/ Submits(p)
      /\ \/ h = p /\ Submits(p) /\ UNCHANGED <<stream, doubted>>
         \/ h \in submitted /\ (h \in lost' \/ GivesUp(h) \/ Clears(h) \/ TakesReport(h))
      /\ \A o \in Orders : pass'[o] = pass[o] \/ pass'[o] = "none"
      /\ doubted \subseteq doubted' /\ doubted' \subseteq doubted \cup {h}
  BY DEF EngineStep, Types, EngineType
<1>2. Submits(p) => p \notin submitted /\ p \notin doubted'
  BY <1>1, UntouchedIs DEF Submits
<1>3. \A o \in submitted' : o \in submitted \/ (o = p /\ Submits(p))
  BY <1>1 DEF Submits
<1>4. ASSUME NEW o \in submitted \ lost, o \notin {h, p} PROVE ToldOf(o)'
  <2>1. /\ ToldOf(o) /\ o \in Orders /\ belief'[o] = belief[o]
        /\ (o \in doubted' <=> o \in doubted) /\ (pass'[o] = pass[o] \/ pass'[o] = "none")
    BY <1>1, <1>4 DEF Told
  <2>2. /\ UNCHANGED <<status, exchange, rows, fills>> /\ Trades(o)' = Trades(o)
        /\ HasRow(o, dbq)'
        /\ \A i \in DOMAIN dbq : i \in DOMAIN dbq' /\ dbq'[i] = dbq[i]
        /\ \A i \in DOMAIN dbq' \ DOMAIN dbq : dbq'[i].cid # o
        /\ \A i \in DOMAIN stream :
              stream[i].cid = o => \E j \in DOMAIN stream' : stream'[j] = stream[i]
    BY <1>1, <1>4, <2>1, WordKept
  <2>3. LastTold(o, dbq, stream)'
    BY <2>1, <2>2 DEF ToldOf, LastTold, Updates
  <2>4. TradesTold(o, dbq, stream)'
    <3>1. \A k \in Trades(o) :
             \/ \E i \in DOMAIN fills[o] : fills[o][i] = k
             \/ \E i \in DOMAIN dbq' : dbq'[i].op = "insert_fill" /\ dbq'[i].cid = o /\ dbq'[i].n = k
             \/ \E i \in DOMAIN stream' : stream'[i].cid = o /\ stream'[i].n = k
      BY <2>1, <2>2 DEF ToldOf, TradesTold
    <3> QED
      BY <2>2, <3>1 DEF TradesTold
  <2>5. GhostTold(o, dbq)'
    BY <2>1, <2>2 DEF ToldOf, GhostTold, Renames
  <2>6. MissTold(o, dbq)'
    <3>1. CASE exchange[o].state = "expired" /\ o \notin doubted
      <4>1. belief[o] # "missed" => /\ rows[o].state # "MISSED"
                                    /\ \A i \in DOMAIN dbq' : Renames(dbq'[i]) => dbq'[i].cid # o
        BY <2>1, <2>2, <3>1 DEF ToldOf, MissTold
      <4>2. status = "RUNNING" =>
               /\ rows[o].state = "EXPIRED" =>
                     \E i \in DOMAIN dbq' : Renames(dbq'[i]) /\ dbq'[i].cid = o
               /\ \A i \in DOMAIN dbq' : Updates(dbq'[i]) /\ dbq'[i].cid = o =>
                     \E j \in DOMAIN dbq' : i < j /\ Renames(dbq'[j]) /\ dbq'[j].cid = o
        BY <2>1, <2>2, <3>1 DEF ToldOf, MissTold
      <4> QED
        BY <2>1, <2>2, <4>1, <4>2 DEF MissTold, Renames, Updates
    <3>2. CASE exchange[o].state # "expired" \/ o \in doubted
      BY <2>1, <2>2, <3>2 DEF MissTold
    <3> QED
      BY <3>1, <3>2
  <2>7. PassTold(o)'
    BY <2>1, <2>2 DEF ToldOf, PassTold
  <2> QED
    BY <2>2, <2>3, <2>4, <2>5, <2>6, <2>7 DEF ToldOf
<1>5. ASSUME Submits(p), p \notin lost' PROVE ToldOf(p)'
  <2>1. /\ exchange[p].state = "none" /\ exchange[p].n = 0 /\ rows[p] = NoRow
        /\ pass[p] = "none" /\ UNCHANGED <<exchange, rows, fills>>
        /\ belief'[p] = "placed" /\ \A i \in DOMAIN dbq' : Renames(dbq'[i]) => dbq'[i].cid # p
    BY <1>5, UntouchedIs DEF Submits, EngineStep, tables
  <2>2. HasRow(p, dbq)'
    BY <1>5 DEF Submits, HasRow, Intent
  <2>3. LastTold(p, dbq, stream)'
    BY <2>1 DEF LastTold, NoRow
  <2>4. TradesTold(p, dbq, stream)'
    <3>1. Trades(p)' = {}
      BY <2>1 DEF Trades
    <3> QED
      BY <3>1 DEF TradesTold
  <2>5. GhostTold(p, dbq)' /\ MissTold(p, dbq)' /\ PassTold(p)'
    BY <1>1, <2>1 DEF GhostTold, MissTold, PassTold, NoRow, Renames
  <2> QED
    BY <2>2, <2>3, <2>4, <2>5 DEF ToldOf
<1>6. ASSUME h \in submitted, h \notin lost' PROVE ToldOf(h)'
  <2>1. ToldOf(h) /\ h \notin lost
    BY <1>1, <1>6 DEF Told
  <2>2. /\ UNCHANGED <<status, exchange, rows, fills>> /\ Trades(h)' = Trades(h)
        /\ HasRow(h, dbq)'
        /\ \A i \in DOMAIN dbq : i \in DOMAIN dbq' /\ dbq'[i] = dbq[i]
        /\ \A i \in DOMAIN stream :
              \/ \E j \in DOMAIN stream' : stream'[j] = stream[i]
              \/ stream # <<>> /\ stream' = Tail(stream) /\ stream[i] = Head(stream)
    BY <2>1, WordKept
  <2>3. GivesUp(h) \/ Clears(h) \/ TakesReport(h)
    BY <1>1, <1>2, <1>6
  <2>0. PassTold(h)'
    BY <1>1, <2>1, <2>2 DEF ToldOf, PassTold
  <2>4. CASE GivesUp(h) \/ Clears(h)
    <3>1. UNCHANGED stream
      BY <2>4 DEF GivesUp, Clears
    <3>2. LastTold(h, dbq, stream)'
      BY <2>1, <2>2, <3>1 DEF ToldOf, LastTold, Updates
    <3>3. TradesTold(h, dbq, stream)'
      <4>1. \A k \in Trades(h) :
               \/ \E i \in DOMAIN fills[h] : fills[h][i] = k
               \/ \E i \in DOMAIN dbq' : dbq'[i].op = "insert_fill" /\ dbq'[i].cid = h /\ dbq'[i].n = k
               \/ \E i \in DOMAIN stream : stream[i].cid = h /\ stream[i].n = k
        BY <2>1, <2>2 DEF ToldOf, TradesTold
      <4> QED
        BY <2>2, <3>1, <4>1 DEF TradesTold
    <3>4. GhostTold(h, dbq)' /\ MissTold(h, dbq)'
      <4>1. CASE GivesUp(h)
        BY <2>2, <4>1 DEF GivesUp, GhostTold, MissTold, Renames
      <4>2. CASE Clears(h)
        <5>1. /\ exchange[h].state \notin {"none", "lost"}
              /\ exchange[h].state = "expired" => belief'[h] = "missed"
              /\ dbq' = dbq /\ doubted' = doubted
          BY <2>1, <4>2 DEF Clears, ToldOf, PassTold
        <5> QED
          BY <2>1, <2>2, <5>1 DEF ToldOf, GhostTold, MissTold, Renames, Updates
      <4> QED
        BY <2>4, <4>1, <4>2
    <3> QED
      BY <2>0, <2>2, <3>2, <3>3, <3>4 DEF ToldOf
  <2>5. CASE TakesReport(h)
    <3> DEFINE r == Head(stream)
    <3>1. /\ stream # <<>> /\ h = r.cid /\ Added(dbq, dbq', Up(r))
          /\ r.type = "TRADE" => Added(dbq, dbq', InsertFill(r))
      BY <2>5 DEF TakesReport
    <3>2. /\ Updates(Up(r)) /\ Up(r).cid = h /\ Up(r).n = r.n
          /\ r.n \in Trades(h) => r.type = "TRADE"
          /\ r.type = "EXPIRED" <=> exchange[h].state = "expired"
          /\ exchange[h].state \notin {"none", "lost"}
      BY <3>1, ReportIs
    <3>3. \E i \in DOMAIN dbq' : Updates(dbq'[i]) /\ dbq'[i].cid = h /\ dbq'[i].n = r.n
      BY <3>1, <3>2 DEF Added
    <3>4. LastTold(h, dbq, stream)'
      <4>1. \/ rows[h].n = exchange[h].n
            \/ \E i \in DOMAIN dbq' : Updates(dbq'[i]) /\ dbq'[i].cid = h /\ dbq'[i].n = exchange[h].n
            \/ \E i \in DOMAIN stream' : stream'[i].cid = h /\ stream'[i].n = exchange[h].n
        BY <2>1, <2>2, <3>3 DEF ToldOf, LastTold
      <4> QED
        BY <2>2, <4>1 DEF LastTold, Updates
    <3>5. TradesTold(h, dbq, stream)'
      <4>1. r.n \in Trades(h) =>
               \E i \in DOMAIN dbq' : dbq'[i].op = "insert_fill" /\ dbq'[i].cid = h /\ dbq'[i].n = r.n
        BY <3>1, <3>2 DEF Added, InsertFill
      <4>2. \A k \in Trades(h) :
               \/ \E i \in DOMAIN fills[h] : fills[h][i] = k
               \/ \E i \in DOMAIN dbq' : dbq'[i].op = "insert_fill" /\ dbq'[i].cid = h /\ dbq'[i].n = k
               \/ \E i \in DOMAIN stream' : stream'[i].cid = h /\ stream'[i].n = k
        BY <2>1, <2>2, <4>1 DEF ToldOf, TradesTold
      <4> QED
        BY <2>2, <4>2 DEF TradesTold
    <3>6. GhostTold(h, dbq)'
      BY <2>2, <3>2 DEF GhostTold
    <3>7. MissTold(h, dbq)'
      <4>1. CASE exchange[h].state # "expired" \/ h \in doubted'
        BY <2>2, <4>1 DEF MissTold
      <4>2. CASE exchange[h].state = "expired" /\ h \notin doubted' /\ status = "RUNNING"
        <5>1. /\ belief'[h] = "missed"
              /\ \E j \in DOMAIN dbq' : /\ Renames(dbq'[j]) /\ dbq'[j].cid = h
                                        /\ \A i \in DOMAIN dbq' : i <= j
          BY <2>5, <3>2, <4>2 DEF TakesReport
        <5>2. DOMAIN dbq' \subseteq Int
          BY DEF EngineStep, Grown
        <5>3. \A i \in DOMAIN dbq' : Updates(dbq'[i]) =>
                 \E j \in DOMAIN dbq' : i < j /\ Renames(dbq'[j]) /\ dbq'[j].cid = h
          <6>1. PICK j \in DOMAIN dbq' : /\ Renames(dbq'[j]) /\ dbq'[j].cid = h
                                         /\ \A i \in DOMAIN dbq' : i <= j
            BY <5>1
          <6>2. ASSUME NEW i \in DOMAIN dbq', Updates(dbq'[i]) PROVE i < j
            <7>1. i # j
              BY <6>1, <6>2 DEF Updates, Renames
            <7> QED
              BY <5>2, <6>1, <7>1
          <6> QED
            BY <6>1, <6>2
        <5> QED
          BY <5>1, <5>3 DEF MissTold, Renames, Updates
      <4>3. CASE exchange[h].state = "expired" /\ h \notin doubted' /\ status # "RUNNING"
        <5>1. /\ belief'[h] = belief[h]
              /\ \A i \in DOMAIN dbq' \ DOMAIN dbq : ~Renames(dbq'[i])
          BY <2>5, <3>2, <4>3 DEF TakesReport
        <5>2. belief[h] # "missed" => /\ rows[h].state # "MISSED"
                                      /\ \A i \in DOMAIN dbq' : Renames(dbq'[i]) => dbq'[i].cid # h
          BY <1>1, <2>1, <2>2, <4>3, <5>1 DEF ToldOf, MissTold
        <5> QED
          BY <2>2, <4>3, <5>1, <5>2 DEF MissTold, Renames
      <4> QED
        BY <4>1, <4>2, <4>3
    <3> QED
      BY <2>0, <2>2, <3>4, <3>5, <3>6, <3>7 DEF ToldOf
  <2> QED
    BY <2>3, <2>4, <2>5
<1>7. ASSUME NEW o \in submitted' \ lost' PROVE ToldOf(o)'
  <2>1. o \notin lost
    BY <1>1, <1>7
  <2>2. CASE o \notin {h, p}
    BY <1>3, <1>4, <1>7, <2>1, <2>2
  <2>3. CASE o \in {h, p}
    BY <1>1, <1>3, <1>5, <1>6, <1>7, <2>3
  <2> QED
    BY <2>2, <2>3
<1> QED
  BY <1>7 DEF Told

\* What the reconciliation sees in a row is so.
LEMMA ToldLooks ==
  ASSUME Types, Genuine, Told, NEW o \in Orders, Looks(o)
  PROVE  Told'
<1>1. /\ UNCHANGED <<status, belief, submitted, exchange, stream, dbq, rows, fills, lost, doubted>>
      /\ \A p \in Orders \ {o} : pass'[p] = pass[p]
      /\ submitted \subseteq Orders
  BY DEF Looks, Types, EngineType
<1>2. ASSUME NEW p \in submitted \ lost PROVE ToldOf(p)'
  <2>1. ToldOf(p) /\ p \in Orders
    BY <1>1, <1>2 DEF Told
  <2>2. HasRow(p, dbq)' /\ LastTold(p, dbq, stream)' /\ TradesTold(p, dbq, stream)'
    BY <1>1, <2>1 DEF ToldOf, HasRow, LastTold, TradesTold, Trades, Updates, Intent
  <2>3. GhostTold(p, dbq)' /\ MissTold(p, dbq)'
    BY <1>1, <2>1 DEF ToldOf, GhostTold, MissTold, Updates, Renames
  <2>4. PassTold(p)'
    <3>1. CASE p # o
      BY <1>1, <2>1, <3>1 DEF ToldOf, PassTold
    <3>2. CASE p = o
      <4>1. /\ RowJustified(o) /\ exchange[o].n \in Nat
            /\ exchange[o].state \in {"none", "lost"} =>
                  rows[o].state \in {"NONE", "SUBMIT_QUEUED", "REJECTED"}
        BY SilentIs, StoreAssumption DEF Genuine, Types, WorldType, ExchangeSet
      <4>2. pass'[o] = "ended" => exchange[o].state \notin {"none", "lost"}
        BY <2>1, <3>2, <4>1 DEF Looks, ToldOf, GhostTold
      <4>3. pass'[o] = "canceled" => exchange[o].state = "canceled"
        BY <4>1 DEF Looks, RowJustified, NoRow, Says, Judges, Denies
      <4> QED
        BY <1>1, <3>2, <4>2, <4>3 DEF PassTold
    <3> QED
      BY <3>1, <3>2
  <2> QED
    BY <2>2, <2>3, <2>4 DEF ToldOf
<1> QED
  BY <1>1, <1>2 DEF Told

-----------------------------------------------------------------------------
(* The invariant *)

\* The invariant holds initially.
LEMMA StoreInitial == Init => StoreInv
<1> SUFFICES ASSUME Init PROVE StoreInv
  OBVIOUS
<1>1. Types
  BY StoreAssumption DEF Init, Types, EngineType, StatusType, WorldType, TableType, BeliefSet,
     ExchangeSet, NoRow
<1>2. Genuine
  BY DEF Init, Genuine, Counted, RowJustified
<1>3. InTurn(dbq, stream)
  BY DEF Init, InTurn, NoRow
<1>4. Sending
  BY DEF Init, Sending, Untouched
<1>5. Told /\ MarkType
  BY DEF Init, Told, MarkType
<1> QED
  BY <1>1, <1>2, <1>3, <1>4, <1>5 DEF StoreInv

\* Every step is one of the engine, the writer, the exchange or the operator.
LEMMA StepIs ==
  ASSUME Types, MarkType, Genuine, Sending, Next
  PROVE  \/ \E h, p \in Orders : EngineStep(h, p)
         \/ \E o \in Orders : Looks(o)
         \/ DbWrite
         \/ DbWriteFails
         \/ \E o \in Orders, x \in [state : States, n : 0 .. Parts + 2] :
               Moved(o, x) /\ Counted(x)
         \/ EmergencyStop
<1>1. ASSUME NEW o \in Orders, SubmitOrder(o) PROVE \E h, p \in Orders : EngineStep(h, p)
  BY <1>1, SubmitStepIs
<1>2. ASSUME NEW o \in Orders, NEW p \in Orders, GhostOverride(o, p)
      PROVE  \E h, q \in Orders : EngineStep(h, q)
  BY <1>2, GhostStepIs
<1>3. CASE Dispatch
  BY <1>3, DispatchStepIs
<1>4. CASE Arrive \/ \E o \in Orders : Trade(o) \/ Cancel(o)
  BY <1>4, MovedIs
<1>5. ASSUME NEW o \in Orders, Absent(o) \/ LookUp(o) PROVE Looks(o)
  BY <1>5, LooksIs
<1>6. ASSUME NEW o \in Orders, Clear(o) PROVE \E h, p \in Orders : EngineStep(h, p)
  BY <1>6, ClearStepIs
<1> QED
  BY <1>1, <1>2, <1>3, <1>4, <1>5, <1>6 DEF Next

\* The marks keep their types.
LEMMA MarkTypeStep ==
  ASSUME Types, MarkType, [Next]_vars
  PROVE  MarkType'
<1>1. ASSUME NEW o \in Orders, SubmitOrder(o) \/ Trade(o) \/ Cancel(o) PROVE MarkType'
  BY <1>1 DEF MarkType, SubmitOrder, Trade, Cancel, Environment
<1>2. ASSUME NEW o \in Orders, \E p \in Orders : GhostOverride(o, p) PROVE MarkType'
  BY <1>2 DEF MarkType, GhostOverride, GivenUp
<1>3. ASSUME NEW o \in Orders, Absent(o) \/ LookUp(o) \/ Clear(o) PROVE MarkType'
  <2>1. acked' = acked /\ (doubted' = doubted \/ doubted' = doubted \cup {o})
    BY <1>3 DEF Absent, LookUp, Clear, Reconciles, GivenUp
  <2>2. \E s \in {"none", "absent", "queued", "ended", "canceled"} :
           pass' = [pass EXCEPT ![o] = s]
    BY <1>3 DEF Absent, LookUp, Clear
  <2> QED
    BY <2>1, <2>2 DEF MarkType
<1>4. CASE Dispatch
  <2>1. Head(stream) \in ReportSet /\ UNCHANGED <<pass, doubted>>
    BY <1>4, DispatchIs
  <2>2. acked' = acked \/ acked' = acked \cup {Head(stream).cid}
    BY <1>4 DEF Dispatch, Acknowledges
  <2> QED
    BY <2>1, <2>2 DEF MarkType, ReportSet
<1>5. CASE DbWrite \/ DbWriteFails \/ Arrive \/ EmergencyStop \/ UNCHANGED vars
  BY <1>5 DEF MarkType, DbWrite, DbWriteFails, Arrive, EmergencyStop, Environment, engineVars, vars
<1> QED
  BY <1>1, <1>2, <1>3, <1>4, <1>5 DEF Next

\* Every step keeps the types.
LEMMA TypesStep ==
  ASSUME Types, MarkType, Genuine, Sending, Next
  PROVE  Types'
<1>1. ASSUME NEW o \in Orders, SubmitOrder(o) \/ \E p \in Orders : GhostOverride(o, p)
      PROVE  Types'
  BY <1>1, SubmissionType
<1>2. CASE Dispatch
  BY <1>2, DispatchType
<1>3. CASE DbWrite
  BY <1>3, WriteType
<1>4. CASE DbWriteFails
  BY <1>4, WriteFailsType
<1>5. CASE EmergencyStop
  BY <1>5, StopType
<1>6. CASE Arrive \/ \E o \in Orders : Trade(o) \/ Cancel(o)
  <2>1. PICK o \in Orders, x \in [state : States, n : 0 .. Parts + 2] : Moved(o, x)
    BY <1>6, MovedIs
  <2> QED
    BY <2>1, MovedType
<1>7. ASSUME NEW o \in Orders, Absent(o) \/ LookUp(o) PROVE Types'
  BY <1>7, LooksIs DEF Looks, Types, EngineType, StatusType, WorldType, TableType
<1>8. ASSUME NEW o \in Orders, Clear(o) PROVE Types'
  BY <1>8, ClearType
<1> QED
  BY <1>1, <1>2, <1>3, <1>4, <1>5, <1>6, <1>7, <1>8 DEF Next

\* Every step keeps the invariant.
LEMMA StoreInductive == StoreInv /\ [Next]_vars => StoreInv'
<1> SUFFICES ASSUME StoreInv, [Next]_vars PROVE StoreInv'
  OBVIOUS
<1>1. Types /\ MarkType /\ Genuine /\ InTurn(dbq, stream) /\ Sending /\ Told
  BY DEF StoreInv
<1>0. MarkType'
  BY <1>1, MarkTypeStep
<1>2. CASE Next
  <2>1. Types'
    BY <1>1, <1>2, TypesStep
  <2>2. ASSUME NEW h \in Orders, NEW p \in Orders, EngineStep(h, p)
        PROVE  Genuine' /\ InTurn(dbq, stream)' /\ Sending' /\ Told'
    BY <1>1, <2>2, GenuineEngine, InTurnEngine, SendingEngine, ToldEngine
  <2>7. ASSUME NEW o \in Orders, Looks(o)
        PROVE  Genuine' /\ InTurn(dbq, stream)' /\ Sending' /\ Told'
    <3>1. UNCHANGED <<status, belief, submitted, sendq, exchange, stream, dbq, rows, fills, lost,
                      doubted>>
      BY <2>7 DEF Looks
    <3>2. Genuine'
      BY <1>1, <3>1 DEF Genuine, Counted, RowJustified, Trades, Tells, Says, Judges, Denies,
                        Justified, Updates, Renames, Intent
    <3>3. InTurn(dbq, stream)'
      BY <1>1, <3>1 DEF InTurn, Updates, Before
    <3> QED
      BY <1>1, <2>7, <3>2, <3>3, SendingLooks, ToldLooks
  <2>3. CASE DbWrite
    BY <1>0, <1>1, <2>1, <2>3, GenuineWrite, InTurnWrite, SendingWrite, ToldWrite DEF StoreInv
  <2>4. CASE DbWriteFails
    BY <1>0, <1>1, <2>1, <2>4, GenuineFails, InTurnFails, SendingWrite, ToldFails DEF StoreInv
  <2>5. ASSUME NEW o \in Orders, NEW x \in [state : States, n : 0 .. Parts + 2],
               Moved(o, x), Counted(x)
        PROVE  Genuine' /\ InTurn(dbq, stream)' /\ Sending' /\ Told'
    BY <1>1, <2>5, GenuineMoved, InTurnMoved, SendingMoved, ToldMoved
  <2>6. CASE EmergencyStop
    BY <1>0, <1>1, <2>1, <2>6, GenuineStop, InTurnStop, SendingStop, ToldStop DEF StoreInv
  <2> QED
    BY <1>0, <1>1, <1>2, <2>1, <2>2, <2>3, <2>4, <2>5, <2>6, <2>7, StepIs DEF StoreInv
<1>3. CASE UNCHANGED vars
  <2>1. UNCHANGED <<status, belief, submitted, pass, sendq, exchange, stream, dbq, rows, fills,
                    lost, doubted>>
    BY <1>3 DEF vars, engineVars, tables
  <2>2. Types'
    BY <1>1, <2>1 DEF Types, EngineType, StatusType, WorldType, TableType
  <2>3. Genuine'
    BY <1>1, <2>1 DEF Genuine, Counted, RowJustified, Trades, Tells, Says, Judges, Denies,
                      Justified, Updates, Renames, Intent
  <2>4. InTurn(dbq, stream)'
    BY <1>1, <2>1 DEF InTurn, Updates, Before
  <2>5. Sending'
    BY <1>1, <2>1 DEF Sending, Untouched
  <2>6. Told'
    BY <1>1, <2>1 DEF Told, ToldOf, HasRow, LastTold, TradesTold, GhostTold, MissTold, PassTold,
                      Trades, Updates, Renames, Intent
  <2> QED
    BY <1>0, <2>2, <2>3, <2>4, <2>5, <2>6 DEF StoreInv
<1> QED
  BY <1>2, <1>3

\* Whatever is lost, delivered twice, dropped or taken for a ghost: what is stored,
\* queued or on its way repeats the exchange, in turn, but for the REJECTED of an
\* order given up alive, and of an order with no write dropped all is there.
THEOREM StoreInvariant == Spec => []StoreInv
BY StoreInitial, StoreInductive, PTL DEF Spec

\* Every variable has its type, for every size of the queue and of the stream.
THEOREM StoreTypeOK == Spec => []StoreType
<1>1. StoreInv => StoreType
  BY TypesSuffice DEF StoreInv
<1> QED
  BY <1>1, StoreInvariant, PTL

-----------------------------------------------------------------------------
(* The tables are exact *)

\* An order that lost no write and has nothing pending is in the tables exactly.
LEMMA ExactOnceDrained ==
  ASSUME StoreInv, NEW o \in submitted \ lost, ~Pending(o)
  PROVE  Exact(o)
<1> DEFINE x == exchange[o]
           row == rows[o]
           f == fills[o]
<1>1. /\ o \in Orders /\ ToldOf(o) /\ Counted(x) /\ RowJustified(o) /\ StatusType
      /\ x.n \in Nat /\ row.n \in Nat /\ belief \in BeliefSet /\ f \in Seq(Nat)
  BY StoreAssumption DEF StoreInv, Types, EngineType, WorldType, TableType, ExchangeSet, Told,
     Genuine
<1>2. /\ \A i \in DOMAIN stream : stream[i].cid # o
      /\ \A i \in DOMAIN dbq : dbq[i].cid # o
  BY DEF Pending
<1>3. row # NoRow
  BY <1>1, <1>2 DEF ToldOf, HasRow, Intent
<1>4. row.n = x.n
  BY <1>1, <1>2 DEF ToldOf, LastTold
<1>5. /\ x.state \in {"none", "lost"} =>
            (belief[o] \in {"freed", "missed"} <=> row.state = "REJECTED")
      /\ x.state = "expired" /\ o \notin doubted =>
            /\ belief[o] # "missed" => row.state # "MISSED"
            /\ status = "RUNNING" => (row.state # "EXPIRED" \/ belief[o] # "missed")
      /\ status = "RUNNING" => row.state # "CANCELED"
  BY <1>1, <1>2 DEF ToldOf, GhostTold, MissTold, StoreInv, InTurn
<1>6. row.state \in StoredStates(o) \/ (o \in doubted /\ row.state = "REJECTED")
  <2> DEFINE missed == IF o \in doubted THEN {"MISSED", "EXPIRED"}
                       ELSE IF belief[o] # "missed" THEN {"EXPIRED"}
                       ELSE IF status = "RUNNING" THEN {"MISSED"} ELSE {"MISSED", "EXPIRED"}
  <2>1. /\ x.state \in {"none", "lost"} =>
              StoredStates(o) = IF belief[o] \in {"freed", "missed"} THEN {"REJECTED"}
                                                                    ELSE {"SUBMIT_QUEUED"}
        /\ x.state = "open"     => StoredStates(o) = IF x.n = 1 THEN {"WORKING"}
                                                     ELSE {"PARTIALLY_FILLED"}
        /\ x.state = "filled"   => StoredStates(o) = {"FILLED"}
        /\ x.state = "canceled" => StoredStates(o) = IF status = "RUNNING" THEN {"EXTERNAL_CANCELED"}
                                                     ELSE {"CANCELED", "EXTERNAL_CANCELED"}
        /\ x.state = "expired"  => StoredStates(o) = missed
        /\ x.state = "rejected" => StoredStates(o) = {"REJECTED"}
    <3>1. \A no, lo, op, fi, ca, ex, re :
             LET m == [none |-> no, lost |-> lo, open |-> op, filled |-> fi, canceled |-> ca,
                       expired |-> ex, rejected |-> re]
             IN  /\ m["none"] = no /\ m["lost"] = lo /\ m["open"] = op /\ m["filled"] = fi
                 /\ m["canceled"] = ca /\ m["expired"] = ex /\ m["rejected"] = re
      OBVIOUS
    <3> DEFINE freed == IF belief[o] \in {"freed", "missed"} THEN {"REJECTED"}
                                                             ELSE {"SUBMIT_QUEUED"}
               first == IF x.n = 1 THEN {"WORKING"} ELSE {"PARTIALLY_FILLED"}
               ended == IF status = "RUNNING" THEN {"EXTERNAL_CANCELED"}
                                              ELSE {"CANCELED", "EXTERNAL_CANCELED"}
    <3>2. StoredStates(o) =
             [none |-> freed, lost |-> freed, open |-> first, filled |-> {"FILLED"},
              canceled |-> ended, expired |-> missed, rejected |-> {"REJECTED"}][x.state]
      BY DEF StoredStates
    <3> HIDE DEF freed, first, ended, missed, x
    <3>3. /\ x.state = "none" => StoredStates(o) = freed
          /\ x.state = "lost" => StoredStates(o) = freed
          /\ x.state = "open" => StoredStates(o) = first
          /\ x.state = "filled" => StoredStates(o) = {"FILLED"}
          /\ x.state = "canceled" => StoredStates(o) = ended
          /\ x.state = "expired" => StoredStates(o) = missed
          /\ x.state = "rejected" => StoredStates(o) = {"REJECTED"}
      BY <3>1, <3>2
    <3> QED
      BY <3>3 DEF freed, first, ended
  <2> HIDE DEF missed
  <2>2. \/ row.state = "SUBMIT_QUEUED" /\ row.n = 0
        \/ Says(x, row.n, row.state)
        \/ Judges(x, row.state)
        \/ o \in doubted /\ row.state = "REJECTED"
    BY <1>1, <1>3 DEF RowJustified, Denies
  <2> HIDE DEF x, row
  <2>3. CASE row.state = "SUBMIT_QUEUED" /\ row.n = 0
    <3>1. x.n = 0 /\ x.state \in {"none", "lost"}
      BY <1>1, <1>4, <2>3, StoreAssumption DEF Counted
    <3> QED
      BY <1>5, <2>1, <2>3, <3>1
  <2>4. CASE Says(x, row.n, row.state)
    <3>1. \/ x.state = "open" /\ x.n = 1 /\ row.state = "WORKING"
          \/ x.state = "open" /\ x.n > 1 /\ row.state = "PARTIALLY_FILLED"
          \/ x.state = "filled" /\ row.state = "FILLED"
          \/ x.state = "canceled" /\ row.state \in {"CANCELED", "EXTERNAL_CANCELED"}
          \/ x.state = "expired" /\ row.state = "EXPIRED"
          \/ x.state = "rejected" /\ row.state = "REJECTED"
      BY <1>1, <1>4, <2>4 DEF Says
    <3>2. CASE x.state = "expired" /\ row.state = "EXPIRED"
      BY <1>1, <1>5, <2>1, <3>2 DEF missed, StatusType
    <3> QED
      BY <1>1, <1>5, <2>1, <3>1, <3>2 DEF StatusType
  <2>5. CASE Judges(x, row.state)
    <3>1. CASE x.state = "expired" /\ row.state = "MISSED"
      <4>1. o \notin doubted => belief[o] = "missed"
        BY <1>5, <3>1
      <4>2. "MISSED" \in missed
        BY <4>1 DEF missed
      <4> QED
        BY <2>1, <3>1, <4>2
    <3> QED
      BY <1>5, <2>1, <2>5, <3>1 DEF Judges
  <2> QED
    BY <2>2, <2>3, <2>4, <2>5
<1>7. /\ \A k \in Trades(o) : \E i \in DOMAIN f : f[i] = k
      /\ \A i \in DOMAIN f : f[i] \in Trades(o)
      /\ \A i, j \in DOMAIN f : f[i] = f[j] => i = j
  BY <1>1, <1>2 DEF ToldOf, TradesTold, StoreInv, Genuine
<1>8. Len(f) = Cardinality(Trades(o))
  <2>1. f \in Bijection(1 .. Len(f), Trades(o)) /\ Len(f) \in Nat
    <3>1. DOMAIN f = 1 .. Len(f) /\ f \in [1 .. Len(f) -> Trades(o)] /\ Len(f) \in Nat
      BY <1>1, <1>7
    <3> QED
      BY <1>7, <3>1 DEF Bijection, Injection, Surjection, IsInjective
  <2>2. IsFiniteSet(1 .. Len(f)) /\ Cardinality(1 .. Len(f)) = Len(f)
    <3>1. 1 \in Int /\ Len(f) \in Int
      BY <2>1
    <3>2. /\ IsFiniteSet(1 .. Len(f))
          /\ Cardinality(1 .. Len(f)) = IF 1 > Len(f) THEN 0 ELSE Len(f) - 1 + 1
      BY <3>1, FS_Interval
    <3> QED
      BY <2>1, <3>2
  <2>3. ExistsBijection(1 .. Len(f), Trades(o))
    BY <2>1 DEF ExistsBijection
  <2> QED
    BY <2>2, <2>3, FS_Bijection
<1>9. {f[i] : i \in DOMAIN f} = Trades(o)
  BY <1>7
<1> QED
  BY <1>4, <1>6, <1>8, <1>9 DEF Exact

\* Once the reports and writes of an order are through and none was dropped, its
\* row and its fills are those of the exchange, each trade once; only the state of an
\* order that was given up while it was alive may be REJECTED instead.
\* (main.py _handle_execution_report, writer.py, repositories.py)
THEOREM TablesExact == Spec => []DrainedExact
<1>1. StoreInv => DrainedExact
  BY ExactOnceDrained DEF DrainedExact
<1> QED
  BY <1>1, StoreInvariant, PTL

-----------------------------------------------------------------------------
(* The orders table implements OrderLife *)

\* The stages of OrderLife, spelled out.
LEMMA StageIs ==
  /\ Life!Stage["NONE"] = 0 /\ Life!Stage["SUBMIT_QUEUED"] = 1
  /\ Life!Stage["WORKING"] = 2 /\ Life!Stage["PARTIALLY_FILLED"] = 3
  /\ \A s \in {"FILLED", "CANCELED", "EXTERNAL_CANCELED", "REJECTED", "EXPIRED", "MISSED"} :
        Life!Stage[s] = 4
  /\ {"SUBMIT_QUEUED", "WORKING", "PARTIALLY_FILLED", "FILLED", "CANCELED", "EXTERNAL_CANCELED",
      "REJECTED", "EXPIRED", "MISSED"} \subseteq DOMAIN Life!Stage
BY DEF Life!Stage

\* What an event can make of a row.
LEMMA RowFollows ==
  ASSUME NEW x \in [state : States, n : Nat], Counted(x),
         NEW row, NEW n \in Nat, NEW s, row.n \in Nat,
         \/ row.state = "SUBMIT_QUEUED" /\ row.n = 0
         \/ Says(x, row.n, row.state)
         \/ Judges(x, row.state),
         \/ Says(x, n, s) /\ row.n <= n /\ ~(row.state = "CANCELED" /\ s = "EXTERNAL_CANCELED")
         \/ Judges(x, s)
  PROVE  s \in DOMAIN Life!Stage /\ (s = row.state \/ Life!Follows(row.state, s))
<1>1. x.n \in Nat /\ Parts \in Nat
  BY StoreAssumption
<1>2. CASE Says(x, n, s)
  <2>1. \/ s = "WORKING" /\ row.state \in {"SUBMIT_QUEUED", "WORKING"}
        \/ s = "PARTIALLY_FILLED"
           /\ row.state \in {"SUBMIT_QUEUED", "WORKING", "PARTIALLY_FILLED"}
        \/ /\ s \in {"FILLED", "CANCELED", "EXTERNAL_CANCELED", "REJECTED", "EXPIRED"}
           /\ \/ row.state \in {"SUBMIT_QUEUED", "WORKING", "PARTIALLY_FILLED", s}
              \/ s = "EXPIRED" /\ row.state = "MISSED"
              \/ s = "CANCELED" /\ row.state = "EXTERNAL_CANCELED"
    BY <1>1, <1>2 DEF Says, Judges, Counted
  <2> QED
    BY <2>1, StageIs DEF Life!Follows, Life!Renamed
<1>3. CASE Judges(x, s)
  <2>1. /\ s \in {"REJECTED", "MISSED"}
        /\ \/ row.state \in {"SUBMIT_QUEUED", s}
           \/ s = "MISSED" /\ row.state = "EXPIRED"
    BY <1>1, <1>3 DEF Says, Judges, Counted
  <2> QED
    BY <2>1, StageIs DEF Life!Follows, Life!Renamed
<1> QED
  BY <1>2, <1>3

\* The writer moves one row, or gives it the state it has.
LEMMA WriteMoves ==
  ASSUME StoreInv, DbWrite
  PROVE  rows' = rows \/ \E o \in Orders, s \in DOMAIN Life!Stage :
            /\ \/ s = rows[o].state \/ Life!Follows(rows[o].state, s)
               \/ o \in doubted /\ "REJECTED" \in {rows[o].state, s}
            /\ \E n \in Nat : rows' = [rows EXCEPT ![o] = [state |-> s, n |-> n]]
<1> DEFINE e == Head(dbq)
           o == e.cid
<1>1. /\ e \in EventSet /\ o \in Orders /\ e.n \in Nat
  <2>1. e \in EventSet
    BY WriteIs DEF StoreInv
  <2> QED
    BY <2>1 DEF EventSet
<1>2. /\ Justified(e) /\ RowJustified(o) /\ Counted(exchange[o])
      /\ Updates(e) => Before(rows[o], e)
  <2>1. 1 \in DOMAIN dbq /\ e = dbq[1]
    BY TailPlaces, WriteIs DEF StoreInv
  <2> QED
    BY <1>1, <2>1 DEF StoreInv, Genuine, InTurn
<1>3. /\ exchange[o] \in [state : States, n : Nat] /\ rows[o].n \in Nat
  BY <1>1, StoreAssumption DEF StoreInv, Types, WorldType, TableType, ExchangeSet, States
<1> HIDE DEF e
<1>4. CASE /\ ~Updates(e) /\ ~Renames(e) /\ e.op # "insert_fill" /\ rows[o] = NoRow
           /\ rows' = [rows EXCEPT ![o] = [state |-> e.state, n |-> 0]]
  <2>1. e.state = "SUBMIT_QUEUED" /\ rows[o].state = "NONE"
    BY <1>2, <1>4 DEF Justified, Intent, NoRow
  <2>2. e.state \in DOMAIN Life!Stage /\ Life!Follows(rows[o].state, e.state)
    BY <2>1, StageIs DEF Life!Follows
  <2> QED
    BY <1>1, <1>4, <2>2
<1>5. CASE /\ Updates(e) /\ rows[o] # NoRow
           /\ rows' = [rows EXCEPT ![o] = [state |-> e.state, n |-> e.n]]
  <2>1. /\ Says(exchange[o], e.n, e.state) /\ rows[o].n <= e.n
        /\ ~(rows[o].state = "CANCELED" /\ e.state = "EXTERNAL_CANCELED")
    BY <1>2, <1>5 DEF Justified, Updates, Renames, Intent, Before
  <2>2. \/ rows[o].state = "SUBMIT_QUEUED" /\ rows[o].n = 0
        \/ Says(exchange[o], rows[o].n, rows[o].state)
        \/ Judges(exchange[o], rows[o].state)
        \/ Denies(o, rows[o].state)
    BY <1>2, <1>5 DEF RowJustified
  <2>4. e.state \in DOMAIN Life!Stage
    BY <2>1, StageIs DEF Says
  <2>3. \/ e.state = rows[o].state \/ Life!Follows(rows[o].state, e.state)
        \/ Denies(o, rows[o].state)
    BY <1>1, <1>2, <1>3, <2>1, <2>2, RowFollows
  <2> QED
    BY <1>1, <1>5, <2>3, <2>4 DEF Denies
<1>6. CASE /\ Renames(e) /\ rows[o] # NoRow
           /\ rows' = [rows EXCEPT ![o] = [state |-> e.state, n |-> rows[o].n]]
  <2>1. Judges(exchange[o], e.state) \/ Denies(o, e.state)
    BY <1>2, <1>6 DEF Justified, Updates, Renames, Intent
  <2>2. \/ rows[o].state = "SUBMIT_QUEUED" /\ rows[o].n = 0
        \/ Says(exchange[o], rows[o].n, rows[o].state)
        \/ Judges(exchange[o], rows[o].state)
        \/ Denies(o, rows[o].state)
    BY <1>2, <1>6 DEF RowJustified
  <2>4. e.state \in DOMAIN Life!Stage
    BY <2>1, StageIs DEF Judges, Denies
  <2>3. \/ e.state = rows[o].state \/ Life!Follows(rows[o].state, e.state)
        \/ Denies(o, rows[o].state) \/ Denies(o, e.state)
    BY <1>1, <1>2, <1>3, <2>1, <2>2, RowFollows
  <2> QED
    BY <1>1, <1>3, <1>6, <2>3, <2>4 DEF Denies
<1> QED
  BY <1>4, <1>5, <1>6, WriteIs DEF e, tables, StoreInv

\* Every step of the store is a step of OrderLife or a stutter.
LEMMA LifeStep ==
  StoreInv /\ [Next]_vars => [Life!Next]_<<[o \in Orders |-> rows[o].state], doubted>>
<1> DEFINE life == [o \in Orders |-> rows[o].state]
<1> SUFFICES ASSUME StoreInv, [Next]_vars
             PROVE  Life!Next \/ (UNCHANGED life /\ UNCHANGED doubted)
  OBVIOUS
<1>1. CASE UNCHANGED rows /\ UNCHANGED doubted
  BY <1>1
<1>2. CASE DbWrite
  <2>1. /\ rows \in [Orders -> [state : LocalOrderState \cup {"NONE"}, n : Nat]]
        /\ UNCHANGED doubted
    BY <1>2 DEF StoreInv, Types, TableType, DbWrite
  <2>2. ASSUME NEW o \in Orders, NEW s \in DOMAIN Life!Stage, NEW n \in Nat,
               \/ s = rows[o].state \/ Life!Follows(rows[o].state, s)
               \/ o \in doubted /\ "REJECTED" \in {rows[o].state, s},
               rows' = [rows EXCEPT ![o] = [state |-> s, n |-> n]]
        PROVE  Life!Next \/ UNCHANGED life
    <3>1. life' = [life EXCEPT ![o] = s] /\ life[o] = rows[o].state
      BY <2>1, <2>2
    <3>2. CASE s = rows[o].state
      BY <3>1, <3>2
    <3>3. CASE \/ Life!Follows(rows[o].state, s)
               \/ o \in doubted /\ "REJECTED" \in {rows[o].state, s}
      <4>1. Life!Move(o)
        BY <2>1, <2>2, <3>1, <3>3 DEF Life!Move
      <4> QED
        BY <4>1 DEF Life!Next
    <3> QED
      BY <2>2, <3>2, <3>3
  <2> QED
    BY <1>1, <1>2, <2>1, <2>2, WriteMoves
<1>3. ASSUME NEW o \in Orders, Clear(o) \/ \E p \in Orders : GhostOverride(o, p)
      PROVE  Life!Next \/ (UNCHANGED life /\ UNCHANGED doubted)
  <2>1. UNCHANGED rows /\ (UNCHANGED doubted \/ GivenUp(o))
    BY <1>3 DEF Clear, GhostOverride, Reconciles, tables
  <2>2. CASE doubted' = doubted \cup {o}
    <3>1. Life!Doubt(o)
      BY <2>1, <2>2 DEF Life!Doubt
    <3> QED
      BY <3>1 DEF Life!Next
  <2> QED
    BY <2>1, <2>2 DEF GivenUp
<1>4. ASSUME Next
      PROVE  \/ DbWrite \/ UNCHANGED <<rows, doubted>>
             \/ \E o \in Orders : Clear(o) \/ \E p \in Orders : GhostOverride(o, p)
  <2>1. ASSUME NEW o \in Orders, SubmitOrder(o) \/ Trade(o) \/ Cancel(o) \/ Absent(o) \/ LookUp(o)
        PROVE  UNCHANGED <<rows, doubted>>
    BY <2>1 DEF SubmitOrder, Trade, Cancel, Absent, LookUp, Reconciles, Environment, tables
  <2>2. CASE Dispatch \/ DbWriteFails \/ Arrive \/ EmergencyStop
    BY <2>2 DEF Dispatch, DbWriteFails, Arrive, EmergencyStop, Environment, tables
  <2> QED
    BY <1>4, <2>1, <2>2 DEF Next
<1>5. CASE UNCHANGED vars
  BY <1>1, <1>5 DEF vars, tables
<1> QED
  BY <1>1, <1>2, <1>3, <1>4, <1>5

\* Whatever is lost or delivered twice, no row turns back, although each report is
\* taken for the first of its order (main.py:149) and the update is unconditional
\* (repositories.py:76), but from or to the REJECTED of an order given up alive.
THEOREM OrdersImplementLife == Spec => ImplementsOrderLife
<1>1. Init => Life!Init
  BY DEF Init, Life!Init, NoRow
<1> QED
  BY <1>1, LifeStep, StoreInvariant, PTL DEF ImplementsOrderLife, Life!Spec, Spec
===============================================================================
