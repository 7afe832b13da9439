----------------------------- MODULE OrderStore -----------------------------
(***************************************************************************)
(* The way of an order into the database: OrderRouter.submit_order puts    *)
(* the intent into the bounded queue of the database writer and only then  *)
(* sends it, _handle_execution_report (src/app/main.py) puts the writes of *)
(* each report there before the engine sees it, and DbWriter applies them  *)
(* one by one, each in a transaction of its own                            *)
(* (src/persistence/writer.py and repositories.py).  The ghost override of *)
(* the engine and the reconciliation write as well, of orders they only    *)
(* believe to be gone.                                                     *)
(*                                                                         *)
(* Of the engine the module keeps what it believes of an order; grid lines *)
(* and prices are in GridEngine.  A put into a full queue raises, which    *)
(* abandons the handler at that point: an action takes the puts there is   *)
(* room for.  The writes of the log tables (execution_events,              *)
(* external_events, system_events, balances) take no part.                 *)
(***************************************************************************)
EXTENDS Naturals, Sequences, FiniteSets

CONSTANTS
    Orders,           \* client order ids
    Parts,            \* number of trades that fill an order
    QueueMax,         \* maxsize of the database queue
    StreamMax,        \* bound: the exchange waits while that many reports are queued
    MaxLost,          \* bound: no write fails once that many orders have lost one
    Repeated,         \* orders whose reports may be delivered twice
    Env               \* what the environment may do beyond the regular run

EnvKinds == {
    "refuse",         \* the exchange expires or rejects an order
    "cancel",         \* somebody cancels an order by hand on the exchange
    "lose",           \* an order never reaches the exchange
    "slow_ack",       \* a NEW report takes more than 30 s
    "reconcile",      \* the reconciliation runs
    "stop",           \* an emergency stop, with its cancelAll
    "db_error" }      \* a write fails

ASSUME StoreAssumption ==
    /\ IsFiniteSet(Orders)
    /\ Parts \in Nat \ {0} /\ QueueMax \in Nat \ {0} /\ StreamMax \in Nat \ {0} /\ MaxLost \in Nat
    /\ Repeated \subseteq Orders /\ Env \subseteq EnvKinds

VARIABLES
    status,           \* engine.status
    belief,           \* what the engine's maps say of an order
    submitted,        \* router._submitted
    acked,            \* _order_acked_set
    pass,             \* what the reconciliation knows of an order at its await
    sendq,            \* the orders in the send queue
    exchange,         \* the state of an order on the exchange
    stream,           \* executionReports not yet dispatched
    dbq,              \* db_queue
    rows,             \* orders table
    fills,            \* fills table: trade ids of an order, in order of insertion
    lost,             \* history: the orders of which a write was dropped
    doubted           \* history: the orders REJECTED here though not lost out there

engineVars == <<status, belief, submitted, acked, pass, sendq>>
tables     == <<rows, fills>>
vars == <<engineVars, exchange, stream, dbq, tables, lost, doubted>>

-------------------------------------------------------------------------------
(* Reports, states of an order and database events *)

\* The n-th report of an order numbers its execution; a trade's id is the same
\* number.  The columns of a report are execution_type and order_status.
Report(o, type, state, n) == [cid |-> o, type |-> type, state |-> state, n |-> n]

LocalOrderState == {"SUBMIT_QUEUED", "SUBMITTED_UNKNOWN", "WORKING", "PARTIALLY_FILLED",
                    "FILLED", "CANCELED", "EXTERNAL_CANCELED", "REJECTED", "EXPIRED",
                    "MISSED", "UNKNOWN"}

TERMINAL_STATES == {"FILLED", "CANCELED", "EXTERNAL_CANCELED", "REJECTED", "EXPIRED"}

\* Mutant of TransitionFromExecutionReport: every trade is taken for the last one.
TransitionFilledEarly(current, r, localCancel) ==
    IF r.type = "TRADE" THEN "FILLED"
    ELSE [NEW |-> "WORKING", REJECTED |-> "REJECTED", EXPIRED |-> "EXPIRED",
          CANCELED |-> IF localCancel THEN "CANCELED" ELSE "EXTERNAL_CANCELED"][r.type]

\* transition_from_execution_report: the local state a report leads to.
TransitionFromExecutionReport(current, r, localCancel) ==
    IF current \in TERMINAL_STATES THEN current
    ELSE IF r.type = "TRADE"
         THEN IF r.state = "FILLED" THEN "FILLED" ELSE "PARTIALLY_FILLED"
    ELSE [NEW |-> "WORKING", REJECTED |-> "REJECTED", EXPIRED |-> "EXPIRED",
          CANCELED |-> IF localCancel THEN "CANCELED" ELSE "EXTERNAL_CANCELED"][r.type]

\* The dispatcher passes no stored state on: every report is taken for the first.
NewLocalState(r, localCancel) ==
    TransitionFromExecutionReport("SUBMITTED_UNKNOWN", r, localCancel)

Intent(o)         == [op |-> "upsert_order_from_intent", cid |-> o,
                      state |-> "SUBMIT_QUEUED", n |-> 0]
LocalState(o, s)  == [op |-> "update_order_local_state", cid |-> o, state |-> s, n |-> 0]
OrderUpdate(r, s) == [op |-> "update_order_from_execution", cid |-> r.cid,
                      state |-> s, n |-> r.n]
InsertFill(r)     == [op |-> "insert_fill", cid |-> r.cid, state |-> r.state, n |-> r.n]

NoRow == [state |-> "NONE", n |-> 0]

Room(q) == QueueMax - Len(q)

-------------------------------------------------------------------------------
(* Submitting: OrderRouter.submit_order after the puts in q *)

\* The engine submits order o, or nothing; q is the queue the handler has already
\* put its events into, b the beliefs it has already changed.  Without room for
\* the intent the id is used up and the order is neither stored nor sent.
SubmitAfter(q, b, o) ==
    /\ o \notin submitted /\ submitted' = submitted \cup {o}
    /\ \/ /\ Room(q) > 0
          /\ dbq' = Append(q, Intent(o))
          /\ sendq' = Append(sendq, o)
          /\ belief' = [b EXCEPT ![o] = "placed"]
          /\ UNCHANGED lost
       \/ /\ Room(q) = 0
          /\ dbq' = q /\ belief' = b /\ lost' = lost \cup {o}
          /\ UNCHANGED sendq

SubmitNothing(q, b) ==
    /\ dbq' = q /\ belief' = b
    /\ UNCHANGED <<submitted, sendq, lost>>

\* An order of the initial grid, or the retry of a missed level.
SubmitOrder(o) ==
    /\ status = "RUNNING"
    /\ SubmitAfter(dbq, belief, o)
    /\ UNCHANGED <<status, acked, pass, exchange, stream, tables, doubted>>

\* Order o is REJECTED here, whatever it is on the exchange.
GivenUp(o) ==
    doubted' = IF exchange[o].state = "lost" THEN doubted ELSE doubted \cup {o}

\* An order without a NEW report for more than 30 s gives its line to order p.
GhostOverride(o, p) ==
    /\ status = "RUNNING"
    /\ belief[o] = "placed" /\ o \notin acked
    /\ exchange[o].state = "lost" \/ "slow_ack" \in Env
    /\ LET freed == [belief EXCEPT ![o] = "freed"]
       IN  \/ /\ Room(dbq) > 0
              /\ SubmitAfter(Append(dbq, LocalState(o, "REJECTED")), freed, p)
              /\ GivenUp(o)
           \/ /\ Room(dbq) = 0
              /\ belief' = freed /\ lost' = lost \cup {o}
              /\ UNCHANGED <<submitted, sendq, dbq, doubted>>
    /\ UNCHANGED <<status, acked, pass, exchange, stream, tables>>

-------------------------------------------------------------------------------
(* The reconciliation: _do_reconcile and _detect_ghost_cids.  Two orders    *)
(* meet nowhere in it but in the queue, so each is followed by itself.      *)

Reconciles(o) ==
    UNCHANGED <<status, submitted, acked, sendq, exchange, stream, tables>>

\* The exchange answers with the open orders: o is not among them.
Absent(o) ==
    /\ "reconcile" \in Env
    /\ pass[o] = "none" /\ belief[o] = "placed" /\ exchange[o].state # "open"
    /\ pass' = [pass EXCEPT ![o] = "absent"]
    /\ UNCHANGED <<belief, dbq, lost, doubted>> /\ Reconciles(o)

\* The answer arrives: an order the engine holds is looked up.  Without a row its
\* intent is still on its way; of a fill that seems lost only a log line is written.
LookUp(o) ==
    /\ pass[o] = "absent"
    /\ LET s == rows[o].state
           seen == IF belief[o] # "placed" THEN "none"
                   ELSE IF s = "SUBMIT_QUEUED" THEN "queued"
                   ELSE IF s \in {"REJECTED", "EXPIRED"} THEN "ended"
                   ELSE IF s \in {"CANCELED", "EXTERNAL_CANCELED"} THEN "canceled"
                   ELSE "none"
       IN  pass' = [pass EXCEPT ![o] = seen]
    /\ UNCHANGED <<belief, dbq, lost, doubted>> /\ Reconciles(o)

\* Mutant of Clear: a queued order is not written off.
ClearSilently(o) ==
    /\ pass[o] \in {"queued", "ended", "canceled"}
    /\ pass' = [pass EXCEPT ![o] = "none"]
    /\ belief' = [belief EXCEPT ![o] = IF pass[o] = "canceled" THEN "freed" ELSE "missed"]
    /\ UNCHANGED <<dbq, lost, doubted>> /\ Reconciles(o)

\* The look-up returns: the line is freed or becomes a missed one, and an order that
\* was queued is written off.
Clear(o) ==
    /\ pass[o] \in {"queued", "ended", "canceled"}
    /\ pass' = [pass EXCEPT ![o] = "none"]
    /\ belief' = [belief EXCEPT ![o] = IF pass[o] = "canceled" THEN "freed" ELSE "missed"]
    /\ \/ pass[o] # "queued" /\ UNCHANGED <<dbq, lost, doubted>>
       \/ /\ pass[o] = "queued" /\ Room(dbq) > 0
          /\ dbq' = Append(dbq, LocalState(o, "REJECTED"))
          /\ GivenUp(o) /\ UNCHANGED lost
       \/ /\ pass[o] = "queued" /\ Room(dbq) = 0
          /\ lost' = lost \cup {o} /\ UNCHANGED <<dbq, doubted>>
    /\ Reconciles(o)

-------------------------------------------------------------------------------
(* Execution reports: _handle_execution_report *)

\* A cancellation while the bot stops is taken for its own.
LocalCancel(r) == status = "EMERGENCY_STOPPING" /\ r.type = "CANCELED"

\* Mutant of ReportWrites: the trades are not stored.
ReportWritesNoFill(r) ==
    <<OrderUpdate(r, NewLocalState(r, LocalCancel(r)))>>

\* What a report puts into the queue before the engine sees it.
ReportWrites(r) ==
    <<OrderUpdate(r, NewLocalState(r, LocalCancel(r)))>>
    \o (IF r.type = "TRADE" THEN <<InsertFill(r)>> ELSE <<>>)

\* on_execution_report: a fill is answered by a new order, unless its line is
\* occupied or off the grid: also when it is dispatched again, or its order has been
\* given up.
FillHandled(r, q) ==
    LET b == [belief EXCEPT ![r.cid] = "filled"]
    IN  \/ \E p \in Orders : SubmitAfter(q, b, p)
        \/ SubmitNothing(q, b)

\* on_order_rejected: the line is freed before the put and becomes a missed one
\* after it.
RefusalHandled(r, q) ==
    LET state == IF r.type = "EXPIRED" THEN "MISSED" ELSE "REJECTED"
    IN  /\ UNCHANGED <<submitted, sendq>>
        /\ \/ /\ Room(q) > 0
              /\ dbq' = Append(q, LocalState(r.cid, state))
              /\ belief' = [belief EXCEPT ![r.cid] =
                              IF r.type = "EXPIRED" THEN "missed" ELSE "freed"]
              /\ UNCHANGED lost
           \/ /\ Room(q) = 0
              /\ dbq' = q /\ lost' = lost \cup {r.cid}
              /\ belief' = [belief EXCEPT ![r.cid] = "freed"]

\* The engine's handlers return at once while the bot stops.
EngineHandles(r, q) ==
    LET stopping == status = "EMERGENCY_STOPPING"
    IN  \/ r.state = "FILLED" /\ ~stopping /\ FillHandled(r, q)
        \/ r.type \in {"EXPIRED", "REJECTED"} /\ ~stopping /\ RefusalHandled(r, q)
        \/ /\ r.type \in {"NEW", "CANCELED"} \/ r.state = "PARTIALLY_FILLED" \/ stopping
           /\ SubmitNothing(q, belief)

Acknowledges(r) == acked' = IF r.type = "NEW" THEN acked \cup {r.cid} ELSE acked

\* Mutant of Dispatch: the queue has no bound.
DispatchUnbounded ==
    /\ stream # <<>>
    /\ stream' = Tail(stream)
    /\ EngineHandles(Head(stream), dbq \o ReportWrites(Head(stream)))
    /\ Acknowledges(Head(stream))
    /\ UNCHANGED <<status, pass, exchange, tables, doubted>>

\* The dispatcher takes the oldest report.  When the queue has no room for all
\* of its writes the rest of them is dropped and the engine never sees it.
Dispatch ==
    /\ stream # <<>>
    /\ LET r == Head(stream)
           writes == ReportWrites(r)
       IN  /\ stream' = Tail(stream)
           /\ IF Len(writes) <= Room(dbq)
              THEN EngineHandles(r, dbq \o writes) /\ Acknowledges(r)
              ELSE /\ dbq' = dbq \o SubSeq(writes, 1, Room(dbq))
                   /\ lost' = lost \cup {r.cid}
                   /\ UNCHANGED <<belief, submitted, acked, sendq>>
    /\ UNCHANGED <<status, pass, exchange, tables, doubted>>

-------------------------------------------------------------------------------
(* DbWriter.run: one event, one transaction *)

\* INSERT ... ON CONFLICT DO NOTHING.
UpsertOrder(e) ==
    rows' = IF rows[e.cid] = NoRow THEN [rows EXCEPT ![e.cid] = [state |-> e.state, n |-> 0]]
                                   ELSE rows

\* update_from_execution_report: an unconditional UPDATE, of no row when there is
\* none yet.
UpdateOrder(e) ==
    rows' = IF rows[e.cid] = NoRow THEN rows
            ELSE [rows EXCEPT ![e.cid] = [state |-> e.state, n |-> e.n]]

SetLocalState(e) ==
    rows' = IF rows[e.cid] = NoRow THEN rows
            ELSE [rows EXCEPT ![e.cid].state = e.state]

\* Mutant of UpsertFill: no constraint uq_fill.
UpsertFillTwice(e) == fills' = [fills EXCEPT ![e.cid] = Append(@, e.n)]

\* FillRepo.upsert: nothing happens when uq_fill knows the trade.
UpsertFill(e) ==
    fills' = [fills EXCEPT ![e.cid] =
                IF \E i \in DOMAIN @ : @[i] = e.n THEN @ ELSE Append(@, e.n)]

\* DbWriter._handle and the repositories.
Handle(e) ==
    \/ /\ e.op = "upsert_order_from_intent"
       /\ UpsertOrder(e) /\ UNCHANGED fills
    \/ /\ e.op = "update_order_from_execution"
       /\ UpdateOrder(e) /\ UNCHANGED fills
    \/ /\ e.op = "update_order_local_state"
       /\ SetLocalState(e) /\ UNCHANGED fills
    \/ /\ e.op = "insert_fill"
       /\ UpsertFill(e) /\ UNCHANGED rows

DbWrite ==
    /\ dbq # <<>>
    /\ dbq' = Tail(dbq)
    /\ Handle(Head(dbq))
    /\ UNCHANGED <<engineVars, exchange, stream, lost, doubted>>

\* A write that raises is rolled back and gone.  is_degraded, which the watchdog
\* only logs, is left out.
DbWriteFails ==
    /\ "db_error" \in Env /\ dbq # <<>>
    /\ Cardinality(lost) < MaxLost
    /\ dbq' = Tail(dbq)
    /\ lost' = lost \cup {Head(dbq).cid}
    /\ UNCHANGED <<engineVars, exchange, stream, tables, doubted>>

-------------------------------------------------------------------------------
(* The environment: writer loop and exchange *)

\* The exchange reports once, or twice in a row.
Publish(r) ==
    \/ stream' = Append(stream, r)
    \/ r.cid \in Repeated /\ stream' = stream \o <<r, r>>

Execute(o, type, state, final) ==
    /\ Len(stream) < StreamMax
    /\ exchange' = [exchange EXCEPT ![o] = [state |-> final, n |-> @.n + 1]]
    /\ Publish(Report(o, type, state, exchange[o].n + 1))

Environment == UNCHANGED <<status, belief, submitted, acked, pass, dbq, tables, lost, doubted>>

\* The oldest order of the send queue arrives, or is lost.
Arrive ==
    /\ sendq # <<>> /\ sendq' = Tail(sendq)
    /\ LET o == Head(sendq)
       IN  \/ Execute(o, "NEW", "NEW", "open")
           \/ "refuse" \in Env /\ Execute(o, "EXPIRED", "EXPIRED", "expired")
           \/ "refuse" \in Env /\ Execute(o, "REJECTED", "REJECTED", "rejected")
           \/ /\ "lose" \in Env
              /\ exchange' = [exchange EXCEPT ![o].state = "lost"] /\ UNCHANGED stream
    /\ Environment

Trade(o) ==
    /\ exchange[o].state = "open"
    /\ IF exchange[o].n = Parts THEN Execute(o, "TRADE", "FILLED", "filled")
                                ELSE Execute(o, "TRADE", "PARTIALLY_FILLED", "open")
    /\ UNCHANGED sendq /\ Environment

Cancel(o) ==
    /\ exchange[o].state = "open"
    /\ "cancel" \in Env \/ status = "EMERGENCY_STOPPING"
    /\ Execute(o, "CANCELED", "CANCELED", "canceled")
    /\ UNCHANGED sendq /\ Environment

EmergencyStop ==
    /\ "stop" \in Env /\ status = "RUNNING"
    /\ status' = "EMERGENCY_STOPPING"
    /\ UNCHANGED <<belief, submitted, acked, pass, sendq, exchange, stream, dbq, tables, lost,
                   doubted>>

-------------------------------------------------------------------------------

Init ==
    /\ status = "RUNNING"
    /\ belief = [o \in Orders |-> "none"]
    /\ submitted = {} /\ acked = {} /\ sendq = <<>>
    /\ pass = [o \in Orders |-> "none"]
    /\ exchange = [o \in Orders |-> [state |-> "none", n |-> 0]]
    /\ stream = <<>> /\ dbq = <<>>
    /\ rows = [o \in Orders |-> NoRow]
    /\ fills = [o \in Orders |-> <<>>]
    /\ lost = {} /\ doubted = {}

Next ==
    \/ \E o \in Orders : SubmitOrder(o) \/ Trade(o) \/ Cancel(o)
    \/ \E o, p \in Orders : GhostOverride(o, p)
    \/ \E o \in Orders : Absent(o) \/ LookUp(o) \/ Clear(o)
    \/ Dispatch \/ DbWrite \/ DbWriteFails
    \/ Arrive \/ EmergencyStop

Spec == Init /\ [][Next]_vars

\* The dispatcher and the database writer are tasks of the event loop that run
\* whenever their queue is not empty; the writer may fail at every event.
Fairness == WF_vars(Dispatch) /\ WF_vars(DbWrite \/ DbWriteFails)

FairSpec == Spec /\ Fairness

-------------------------------------------------------------------------------
(* Properties *)

\* The type invariant.
StoreType ==
    /\ status \in {"RUNNING", "EMERGENCY_STOPPING"}
    /\ belief \in [Orders -> {"none", "placed", "filled", "missed", "freed"}]
    /\ submitted \subseteq Orders /\ acked \subseteq Orders /\ sendq \in Seq(Orders)
    /\ pass \in [Orders -> {"none", "absent", "queued", "ended", "canceled"}]
    /\ exchange \in [Orders -> [state : {"none", "open", "filled", "canceled", "expired",
                                         "rejected", "lost"}, n : 0 .. Parts + 2]]
    /\ stream \in Seq([cid : Orders, type : {"NEW", "TRADE", "CANCELED", "EXPIRED", "REJECTED"},
                       state : {"NEW", "PARTIALLY_FILLED", "FILLED", "CANCELED",
                                "EXPIRED", "REJECTED"}, n : Nat])
    /\ \A i \in DOMAIN dbq : dbq[i].cid \in Orders
    /\ Len(dbq) <= QueueMax
    /\ rows \in [Orders -> [state : LocalOrderState \cup {"NONE"}, n : Nat]]
    /\ fills \in [Orders -> Seq(Nat)]
    /\ lost \subseteq Orders /\ doubted \subseteq Orders

\* The trades the exchange has made of an order: its executions but for the first
\* and, when it was canceled, the last.
Trades(o) ==
    IF exchange[o].state = "canceled" THEN 2 .. exchange[o].n - 1 ELSE 2 .. exchange[o].n

\* The local states that agree with the exchange and the engine.
StoredStates(o) ==
    LET missed == IF o \in doubted THEN {"MISSED", "EXPIRED"}
                  ELSE IF belief[o] # "missed" THEN {"EXPIRED"}
                  ELSE IF status = "RUNNING" THEN {"MISSED"}
                  ELSE {"MISSED", "EXPIRED"}           \* expiry delivered again
        unsent == IF belief[o] \in {"freed", "missed"} THEN {"REJECTED"}
                                                      ELSE {"SUBMIT_QUEUED"}
    IN  [none     |-> unsent,
         lost     |-> unsent,
         open     |-> IF exchange[o].n = 1 THEN {"WORKING"} ELSE {"PARTIALLY_FILLED"},
         filled   |-> {"FILLED"},
         canceled |-> IF status = "RUNNING" THEN {"EXTERNAL_CANCELED"}
                      ELSE {"CANCELED", "EXTERNAL_CANCELED"},
         expired  |-> missed,
         rejected |-> {"REJECTED"}][exchange[o].state]

\* The tables say of the order what the exchange and the engine say, but for the
\* state of one that was given up.
Exact(o) ==
    /\ rows[o].state \in StoredStates(o) \/ (o \in doubted /\ rows[o].state = "REJECTED")
    /\ rows[o].n = exchange[o].n
    /\ {fills[o][i] : i \in DOMAIN fills[o]} = Trades(o)
    /\ Len(fills[o]) = Cardinality(Trades(o))

Pending(o) == \/ \E i \in DOMAIN stream : stream[i].cid = o
              \/ \E i \in DOMAIN dbq : dbq[i].cid = o

\* The tables are exact: once the reports and writes of an order are through and
\* none was dropped, its row and its fills are those of the exchange, and a level
\* the engine holds for missed is MISSED there, for a restart to find.  An order
\* that was given up while it was alive may be REJECTED instead, but its executed
\* quantity and its fills are exact all the same.
\* (main.py _handle_execution_report, writer.py, repositories.py)
DrainedExact == \A o \in submitted \ lost : ~Pending(o) => Exact(o)

Life == INSTANCE OrderLife WITH life <- [o \in Orders |-> rows[o].state]

\* The orders table implements the life of an order, although each report is
\* taken for the first of its order (main.py:149) and the update is unconditional
\* (repositories.py:76): whatever is lost or delivered twice, no row turns back,
\* unless the order was given up while it was alive, and then only from or to
\* REJECTED.
ImplementsOrderLife == Life!Spec

\* The end of an order gets into the tables, unless one of its writes is dropped.
\* (dispatcher and writer loops)
EndStored ==
    \A o \in Orders :
        exchange[o].state \in {"filled", "canceled", "expired", "rejected"}
        ~> (o \in lost \/ Exact(o))
=============================================================================
