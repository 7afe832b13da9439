------------------------------ MODULE GridEngine ------------------------------
(***************************************************************************)
(* The grid engine (src/grid/engine.py) with its order router              *)
(* (src/grid/order_router.py), the engine's half of the event dispatcher   *)
(* and the command processor (src/app/main.py) and the emergency stop      *)
(* (src/supervisor/emergency.py), closed by the environment they see: the  *)
(* FIFO send queue of the WebSocket API, the exchange's order book, the    *)
(* FIFO user data stream and a price that moves from one gap between grid  *)
(* lines to the next.                                                      *)
(*                                                                         *)
(* A handler of the engine never awaits between its first and its last     *)
(* assignment, so asyncio runs it atomically: one action per handler.  The *)
(* loops that place the orders of many levels are one action per           *)
(* iteration, and nothing else is enabled until the loop (cursor) is over. *)
(***************************************************************************)
EXTENDS Integers, Sequences, FiniteSets

CONSTANTS
    Lo, Hi,           \* lowest and highest grid line; 0 is the anchor
    InventoryMode,    \* settings.bot.inventory_mode
    BootType,         \* settings.bootstrap.order_type
    ExternalPolicy,   \* settings.safety.external_intervention_policy
    SeqMod,           \* modulus of the sequence number in a client order id
    MaxOrders,        \* bound: the environment stops provoking new orders here
    Env               \* what the environment may do beyond the regular run

EnvKinds == {
    "jump",           \* price crosses a grid line whose order is in flight
    "slow_ack",       \* 30 s pass before the NEW report of an order arrives
    "no_report",      \* an order never reaches the book and nobody reports it
    "user_cancel",    \* somebody cancels an order by hand on the exchange
    "pause",          \* pause and resume commands
    "stop",           \* stop and emergency_stop commands
    "short_quote",    \* the quote balance does not cover some BUY level
    "slippage",       \* the bootstrap's base covers fewer SELL levels than planned
    "boot_refused" }  \* the exchange refuses the bootstrap order

ASSUME GridAssumption ==
    /\ Lo \in Int /\ Hi \in Int /\ Lo < 0 /\ 0 < Hi
    /\ InventoryMode \in {"prebalanced", "quote_only_bootstrap"}
    /\ BootType \in {"MARKET", "LIMIT_MAKER"}
    /\ ExternalPolicy \in {"pause", "emergency_stop", "continue_reconcile"}
    /\ SeqMod \in Nat \ {0}
    /\ MaxOrders \in Nat
    /\ Env \subseteq EnvKinds

VARIABLES
    \* the engine
    status,           \* engine.status
    waiter,           \* EmergencyStop: _in_progress and the task it starts
    initialized,      \* initialize() has reached its first assignment of status
    cursor,           \* position of the placing loop under way, 0 when there is none
    budget,           \* SELL levels the loop under way still has base for
    levelOrders,      \* _level_orders: grid line -> client order id
    orders,           \* _order_levels and _order_sides: cid -> level and side
    missed,           \* _missed_levels: grid line -> side that was missed
    acked,            \* _order_acked_set
    cycleSeq,         \* _cycle_seq
    orderSeq,         \* _order_seq
    bootCid,          \* _bootstrap_cid
    \* the environment
    sendq,            \* ws_api.send_queue
    events,           \* executionReports not yet dispatched
    book,             \* open orders of the bot on the exchange
    gap,              \* the price is between grid lines gap and gap + 1
    credit            \* SELL orders paid for: a count of orders, not of base

lifeVars   == <<status, waiter, initialized>>
loopVars   == <<cursor, budget>>
mapVars    == <<levelOrders, orders, orderSeq>>
marketVars == <<book, gap, credit>>
vars == <<lifeVars, loopVars, mapVars, missed, acked, cycleSeq, bootCid,
          sendq, events, marketVars>>

-------------------------------------------------------------------------------
(* Grid lines, client order ids, orders and reports *)

Levels == Lo .. Hi
Sides  == {"BUY", "SELL"}

\* ERROR is never assigned; STOPPING is graceful_shutdown's, after the engine's life.
Statuses == {"INITIALIZING", "RUNNING", "PAUSED", "PAUSED_EXTERNAL_INTERVENTION",
             "EMERGENCY_STOPPING", "EMERGENCY_STOPPED", "STOPPED"}

\* The side the grid map gives a line; the anchor's line has no side of its own.
GridSide(l) == IF l < 0 THEN "BUY" ELSE IF l > 0 THEN "SELL" ELSE "ANCHOR"

Abs(n) == IF n < 0 THEN -n ELSE n

\* A client order id keeps the side's letter and the level's absolute value only.
\* The bootstrap has an id of its own; "ALL" stands for a command without one.
Cid   == [side : {"B", "S", "BOOT", "ALL"}, lvl : Nat, cycle : Nat, seq : Nat]
NoCid == [side |-> "NONE", lvl |-> 0, cycle |-> 0, seq |-> 0]

\* Mutant of MakeClientOrderId: the level keeps its sign.
MakeClientOrderIdSigned(side, l, cycle, n) ==
    [side |-> IF side = "BUY" THEN "B" ELSE "S",
     lvl |-> l, cycle |-> cycle, seq |-> n % SeqMod]

\* Mutant of MakeClientOrderId: every id is of the same cycle.
MakeClientOrderIdOneCycle(side, l, cycle, n) ==
    [side |-> IF side = "BUY" THEN "B" ELSE "S",
     lvl |-> Abs(l), cycle |-> 0, seq |-> n % SeqMod]

MakeClientOrderId(side, l, cycle, n) ==
    [side |-> IF side = "BUY" THEN "B" ELSE "S",
     lvl |-> Abs(l), cycle |-> cycle, seq |-> n % SeqMod]

WireOrder == [cid : Cid, level : Levels,
              side : Sides \cup {"ANCHOR", "MARKET", "LIMIT", "CANCEL_ALL"}]

CancelAll == [cid |-> [side |-> "ALL", lvl |-> 0, cycle |-> 0, seq |-> 0],
              level |-> 0, side |-> "CANCEL_ALL"]

Report == [type : {"NEW", "FILLED", "EXPIRED", "REJECTED", "CANCELED"},
           cid : Cid, qty : 0 .. Hi]

Reports(type, cid) == [type |-> type, cid |-> cid, qty |-> 0]

IsBoot(o)  == o.side \in {"MARKET", "LIMIT"}
OffGrid(o) == IsBoot(o) \/ o.side = "CANCEL_ALL"

\* Mutant of CounterLevel: the answer goes to the line on the wrong side.
CounterLevelFlipped(o) == IF o.side = "BUY" THEN o.level - 1 ELSE o.level + 1

\* Mutant of CounterSide: every fill is answered by a SELL.
CounterSideSell(o) == "SELL"

\* The neighbouring line a fill is answered on, and the side of the answer.
CounterLevel(o) == IF o.side = "BUY" THEN o.level + 1 ELSE o.level - 1
CounterSide(o) == IF o.side = "BUY" THEN "SELL" ELSE "BUY"

Queued == {sendq[i] : i \in DOMAIN sendq}
Pending(type) == {events[i].cid : i \in {j \in DOMAIN events : events[j].type = type}}

-------------------------------------------------------------------------------
(* Submitting an order: _submit_level_order and OrderRouter.submit_order *)

\* cid's NEW report is still to come, or its order is still to be sent.
InFlight(cid) ==
    \/ \E o \in Queued \cup book : o.cid = cid
    \/ \E i \in DOMAIN events : events[i].cid = cid

\* An order without a NEW report for more than 30 s is taken for a ghost.  An
\* order in flight gets that old only in an environment slow to acknowledge.
MayBeGhost(cid) ==
    /\ cid \notin acked
    /\ InFlight(cid) => "slow_ack" \in Env

\* Mutant of SubmitLevelOrder: no anti-double check.
SubmitLevelOrderUnguarded(slots, l, side, cycle) ==
    LET cid == MakeClientOrderId(side, l, cycle, orderSeq + 1)
    IN  /\ orderSeq' = orderSeq + 1
        /\ levelOrders' = [slots EXCEPT ![l] = cid]
        /\ orders' = [c \in DOMAIN orders \cup {cid} |->
                        IF c = cid THEN [level |-> l, side |-> side] ELSE orders[c]]
        /\ sendq' = Append(sendq, [cid |-> cid, level |-> l, side |-> side])

\* Mutant of SubmitLevelOrder: the new order is not registered on its line.
SubmitLevelOrderUnregistered(slots, l, side, cycle) ==
    LET cid == MakeClientOrderId(side, l, cycle, orderSeq + 1)
    IN  /\ slots[l] = NoCid \/ MayBeGhost(slots[l])
        /\ orderSeq' = orderSeq + 1
        /\ levelOrders' = slots
        /\ orders' = [c \in DOMAIN orders \cup {cid} |->
                        IF c = cid THEN [level |-> l, side |-> side] ELSE orders[c]]
        /\ sendq' = Append(sendq, [cid |-> cid, level |-> l, side |-> side])

\* OrderRouter.submit_order: an id that was submitted before is dropped.
SubmitOrder(o) ==
    sendq' = IF o.cid \in DOMAIN orders THEN sendq ELSE Append(sendq, o)

\* Place an order of the given side on line l.  slots is the level map the
\* calling handler has already cleaned.  The engine registers the id even when
\* the router drops it.
SubmitLevelOrder(slots, l, side, cycle) ==
    \/ /\ slots[l] # NoCid                          \* skip duplicate
       /\ levelOrders' = slots
       /\ UNCHANGED <<orders, orderSeq, sendq>>
    \/ /\ slots[l] = NoCid \/ MayBeGhost(slots[l])  \* free, or ghost override
       /\ LET cid == MakeClientOrderId(side, l, cycle, orderSeq + 1)
          IN  /\ orderSeq' = orderSeq + 1
              /\ levelOrders' = [slots EXCEPT ![l] = cid]
              /\ orders' = [c \in DOMAIN orders \cup {cid} |->
                              IF c = cid THEN [level |-> l, side |-> side]
                                         ELSE orders[c]]
              /\ SubmitOrder([cid |-> cid, level |-> l, side |-> side])

\* _execute_bootstrap: one market or limit buy under an id of its own.
ExecuteBootstrap(type) ==
    LET cid == [side |-> "BOOT", lvl |-> 0, cycle |-> 0, seq |-> orderSeq + 1]
    IN  /\ orderSeq' = orderSeq + 1
        /\ bootCid' = cid
        /\ sendq' = Append(sendq, [cid |-> cid, level |-> 0,
                                   side |-> IF type = "MARKET" THEN "MARKET" ELSE "LIMIT"])
        /\ UNCHANGED <<levelOrders, orders>>

-------------------------------------------------------------------------------
(* Start-up *)

Init ==
    /\ status = "INITIALIZING" /\ waiter = "idle" /\ initialized = FALSE
    /\ cursor = 0 /\ budget = 0
    /\ levelOrders = [l \in Levels |-> NoCid]
    /\ orders = [c \in {} |-> [level |-> 0, side |-> "BUY"]]
    /\ missed = [l \in Levels |-> "NONE"]
    /\ acked = {} /\ cycleSeq = 0 /\ orderSeq = 0 /\ bootCid = NoCid
    /\ sendq = <<>> /\ events = <<>> /\ book = {}
    /\ gap \in {-1, 0}
    /\ credit = IF InventoryMode = "prebalanced" THEN Hi ELSE 0

\* initialize() once its awaited queries are answered: status is set whatever it
\* has become meanwhile, and _place_initial_orders follows without a break.
Initialize ==
    /\ ~initialized /\ cursor = 0
    /\ initialized' = TRUE
    /\ status' = "RUNNING"
    /\ cursor' = -1
    /\ budget' = IF InventoryMode = "prebalanced" THEN Hi ELSE 0
    /\ UNCHANGED <<waiter, mapVars, missed, acked, cycleSeq, bootCid,
                   sendq, events, marketVars>>

\* One BUY level of the initial placement.
PlaceBuy ==
    /\ cursor \in Lo .. -1
    /\ cursor' = cursor - 1
    /\ \/ SubmitLevelOrder(levelOrders, cursor, "BUY", 0)
       \/ "short_quote" \in Env /\ UNCHANGED <<mapVars, sendq>>
    /\ UNCHANGED <<lifeVars, budget, missed, acked, cycleSeq, bootCid,
                   events, marketVars>>

\* After the last BUY: the SELL loop, or the bootstrap that earns its base.
PlaceBootstrap ==
    /\ cursor = Lo - 1
    /\ \/ /\ InventoryMode = "prebalanced"
          /\ cursor' = 1
          /\ UNCHANGED <<mapVars, bootCid, sendq>>
       \/ /\ InventoryMode = "quote_only_bootstrap"
          /\ cursor' = 0
          /\ ExecuteBootstrap(BootType)
    /\ UNCHANGED <<lifeVars, budget, missed, acked, cycleSeq, events, marketVars>>

\* Mutant of PlaceSell: the loop also breaks when the base just covers the level.
PlaceSellStrict ==
    /\ cursor \in 1 .. Hi
    /\ IF budget <= 1
       THEN cursor' = 0 /\ UNCHANGED <<budget, mapVars, sendq>>
       ELSE /\ cursor' = IF cursor = Hi THEN 0 ELSE cursor + 1
            /\ budget' = IF InventoryMode = "prebalanced" THEN budget ELSE budget - 1
            /\ SubmitLevelOrder(levelOrders, cursor, "SELL", 0)
    /\ UNCHANGED <<lifeVars, missed, acked, cycleSeq, bootCid, events, marketVars>>

\* One SELL level, of the initial placement or after the bootstrap's fill; the
\* loop breaks at the first level the base does not cover.  Only the loop after
\* the bootstrap counts down; has_base_for_sell compares with the whole balance.
PlaceSell ==
    /\ cursor \in 1 .. Hi
    /\ IF budget = 0
       THEN cursor' = 0 /\ UNCHANGED <<budget, mapVars, sendq>>
       ELSE /\ cursor' = IF cursor = Hi THEN 0 ELSE cursor + 1
            /\ budget' = IF InventoryMode = "prebalanced" THEN budget ELSE budget - 1
            /\ SubmitLevelOrder(levelOrders, cursor, "SELL", 0)
    /\ UNCHANGED <<lifeVars, missed, acked, cycleSeq, bootCid, events, marketVars>>

-------------------------------------------------------------------------------
(* Execution reports: event_dispatcher and the engine's handlers *)

Deliver(types) ==
    /\ cursor = 0
    /\ events # <<>> /\ Head(events).type \in types
    /\ events' = Tail(events)
    /\ UNCHANGED <<waiter, initialized, marketVars>>

DispatchNew ==
    /\ Deliver({"NEW"})
    /\ acked' = acked \cup {Head(events).cid}
    /\ UNCHANGED <<status, loopVars, mapVars, missed, cycleSeq, bootCid, sendq>>

\* The bootstrap's fill starts the SELL loop with the base it bought, in any
\* status but EMERGENCY_STOPPING.
OnBootstrapFilled(qty) ==
    /\ bootCid' = NoCid
    /\ cursor' = 1
    /\ budget' = qty
    /\ UNCHANGED <<mapVars, cycleSeq, sendq>>

\* Mutant of OnOrderFilled: the status of the bot is not checked.
OnOrderFilledAlways(cid) ==
    /\ UNCHANGED <<loopVars, bootCid>>
    /\ cid \in DOMAIN orders
    /\ LET o == orders[cid]
       IN  /\ cycleSeq' = cycleSeq + 1
           /\ CounterLevel(o) \in Levels
           /\ SubmitLevelOrder([levelOrders EXCEPT ![o.level] = NoCid],
                               CounterLevel(o), CounterSide(o), cycleSeq + 1)

\* Mutant of OnOrderFilled: the filled order stays registered on its line.
OnOrderFilledKept(cid) ==
    /\ UNCHANGED <<loopVars, bootCid>>
    /\ status = "RUNNING" /\ cid \in DOMAIN orders
    /\ LET o == orders[cid]
       IN  /\ cycleSeq' = cycleSeq + 1
           /\ CounterLevel(o) \in Levels
           /\ SubmitLevelOrder(levelOrders, CounterLevel(o), CounterSide(o), cycleSeq + 1)

\* A fill frees its level and is answered on the neighbouring line; with how much
\* is GridInventory's CounterQuantity.
OnOrderFilled(cid) ==
    /\ UNCHANGED <<loopVars, bootCid>>
    /\ \/ /\ status # "RUNNING" \/ cid \notin DOMAIN orders
          /\ UNCHANGED <<mapVars, cycleSeq, sendq>>
       \/ /\ status = "RUNNING" /\ cid \in DOMAIN orders
          /\ LET o == orders[cid]
                 freed == [levelOrders EXCEPT ![o.level] = NoCid]
             IN  /\ cycleSeq' = cycleSeq + 1
                 /\ IF CounterLevel(o) \in Levels
                    THEN SubmitLevelOrder(freed, CounterLevel(o), CounterSide(o),
                                          cycleSeq + 1)
                    ELSE levelOrders' = freed /\ UNCHANGED <<orders, orderSeq, sendq>>

DispatchFilled ==
    /\ Deliver({"FILLED"})
    /\ LET r == Head(events)
       IN  \/ /\ status = "EMERGENCY_STOPPING"
              /\ UNCHANGED <<loopVars, mapVars, cycleSeq, bootCid, sendq>>
           \/ /\ status # "EMERGENCY_STOPPING" /\ r.cid = bootCid
              /\ OnBootstrapFilled(r.qty)
           \/ /\ status # "EMERGENCY_STOPPING" /\ r.cid # bootCid
              /\ OnOrderFilled(r.cid)
    /\ UNCHANGED <<status, missed, acked>>

\* A refused LIMIT bootstrap falls back to MARKET; the setting is restored
\* afterwards, so a refused fallback falls back again.
OnBootstrapRejected ==
    /\ \/ BootType # "MARKET" /\ ExecuteBootstrap("MARKET")
       \/ BootType = "MARKET" /\ UNCHANGED <<mapVars, bootCid, sendq>>
    /\ UNCHANGED missed

\* Mutant of OnOrderRejected: the refused order stays registered on its line.
OnOrderRejectedKept(cid, type) ==
    /\ UNCHANGED <<levelOrders, orders, orderSeq, bootCid, sendq>>
    /\ missed' = IF type = "EXPIRED" /\ cid \in DOMAIN orders
                 THEN [missed EXCEPT ![orders[cid].level] = orders[cid].side] ELSE missed

\* A post-only refusal (EXPIRED) turns the level into a missed one.
OnOrderRejected(cid, type) ==
    /\ UNCHANGED <<orders, orderSeq, bootCid, sendq>>
    /\ \/ cid \notin DOMAIN orders /\ UNCHANGED <<levelOrders, missed>>
       \/ /\ cid \in DOMAIN orders
          /\ LET o == orders[cid]
             IN  /\ levelOrders' = [levelOrders EXCEPT ![o.level] = NoCid]
                 /\ missed' = IF type = "EXPIRED"
                              THEN [missed EXCEPT ![o.level] = o.side] ELSE missed

DispatchRejected ==
    /\ Deliver({"EXPIRED", "REJECTED"})
    /\ LET r == Head(events)
       IN  \/ /\ status = "EMERGENCY_STOPPING"
              /\ UNCHANGED <<mapVars, missed, bootCid, sendq>>
           \/ status # "EMERGENCY_STOPPING" /\ r.cid = bootCid /\ OnBootstrapRejected
           \/ /\ status # "EMERGENCY_STOPPING" /\ r.cid # bootCid
              /\ OnOrderRejected(r.cid, r.type)
    /\ UNCHANGED <<status, loopVars, acked, cycleSeq>>

\* A cancellation while the bot stops is taken for its own.
LocalCancel == status \in {"EMERGENCY_STOPPING", "EMERGENCY_STOPPED", "STOPPED"}

\* on_external_cancel: the status the configured policy asks for.
PolicyStatus == [pause |-> "PAUSED_EXTERNAL_INTERVENTION",
                 emergency_stop |-> "EMERGENCY_STOPPING",
                 continue_reconcile |-> status]

\* A cancellation frees no level.
DispatchCanceled ==
    /\ Deliver({"CANCELED"})
    /\ status' = IF LocalCancel THEN status ELSE PolicyStatus[ExternalPolicy]
    /\ UNCHANGED <<loopVars, mapVars, missed, acked, cycleSeq, bootCid, sendq>>

Dispatch == DispatchNew \/ DispatchFilled \/ DispatchRejected \/ DispatchCanceled

-------------------------------------------------------------------------------
(* Market ticks: _on_market_tick and _try_recover_missed *)

MakerSafe(l, side) == IF side = "BUY" THEN l <= gap ELSE l > gap

\* One missed level the tick finds maker-safe, past its debounce and profitable;
\* the other levels of the same tick count as debounced.  What is submitted is
\* the grid map's level, whatever side was missed.
RetryMissed(l) ==
    /\ cursor = 0 /\ status = "RUNNING"
    /\ missed[l] # "NONE" /\ MakerSafe(l, missed[l])
    /\ orderSeq < MaxOrders
    /\ missed' = [missed EXCEPT ![l] = "NONE"]
    /\ SubmitLevelOrder(levelOrders, l, GridSide(l), cycleSeq)
    /\ UNCHANGED <<lifeVars, loopVars, acked, cycleSeq, bootCid, events, marketVars>>

-------------------------------------------------------------------------------
(* Commands: command_processor, and EmergencyStop with the task it starts *)

Command(kind, from, to) ==
    /\ kind \in Env /\ cursor = 0
    /\ status \in from
    /\ status' = to
    /\ UNCHANGED <<initialized, loopVars, mapVars, missed, acked, cycleSeq, bootCid>>

Pause  == /\ Command("pause", {"RUNNING"}, "PAUSED")
          /\ UNCHANGED <<waiter, sendq, events, marketVars>>
Resume == /\ Command("pause", {"PAUSED", "PAUSED_EXTERNAL_INTERVENTION"}, "RUNNING")
          /\ UNCHANGED <<waiter, sendq, events, marketVars>>
Stop   == /\ Command("stop", Statuses, "STOPPED")
          /\ UNCHANGED <<waiter, sendq, events, marketVars>>

\* execute() runs at most once in the life of the process.  It queues a
\* cancelAll and leaves a task behind that waits for the book to empty.
EmergencyStop ==
    /\ Command("stop", Statuses, "EMERGENCY_STOPPING")
    /\ waiter = "idle" /\ waiter' = "waiting"
    /\ sendq' = Append(sendq, CancelAll)
    /\ UNCHANGED <<events, marketVars>>

\* The task polls the open orders and repeats the cancelAll while there are any.
CancelAgain ==
    /\ Command("stop", {status}, status)
    /\ waiter = "waiting" /\ UNCHANGED waiter
    /\ CancelAll \notin Queued                              \* bounds the retries
    /\ sendq' = Append(sendq, CancelAll)
    /\ UNCHANGED <<events, marketVars>>

\* The exchange cancels every open order and reports each, in some order.
CancelBook ==
    /\ book' = {}
    /\ \E s \in [1 .. Cardinality(book) -> book] :
         /\ \A o \in book : \E i \in DOMAIN s : s[i] = o
         /\ events' = events \o [i \in DOMAIN s |-> Reports("CANCELED", s[i].cid)]

\* When the WebSocket stays silent the task cancels over REST, which may fail too.
RestCancel ==
    /\ Command("stop", {status}, status)
    /\ waiter = "waiting"
    /\ \/ waiter' = "cleared" /\ CancelBook
       \/ waiter' = "done" /\ UNCHANGED <<book, events>>
    /\ UNCHANGED <<sendq, gap, credit>>

\* The task has found no open order, or REST has cancelled them.
MarkStopped ==
    /\ Command("stop", Statuses, "EMERGENCY_STOPPED")
    /\ \/ waiter = "waiting" /\ book = {}
       \/ waiter = "cleared"
    /\ waiter' = "done"
    /\ UNCHANGED <<sendq, events, marketVars>>

-------------------------------------------------------------------------------
(* The environment: writer loop, exchange and price *)

Crosses(o) == o.side \in Sides /\ ~MakerSafe(o.level, o.side)

\* The SELL levels that the base of the bootstrap covers: all have one quantity.
BootYield == IF "slippage" \in Env THEN 0 .. Hi ELSE {Hi}

\* The exchange's answer to an order that reaches it.
Answer(o) ==
    \/ /\ o.side \in Sides /\ ~Crosses(o)                       \* rests
       /\ book' = book \cup {o} /\ UNCHANGED credit
       /\ events' = Append(events, Reports("NEW", o.cid))
    \/ /\ o.side = "LIMIT"                       \* price within the anchor's gap
       /\ book' = book \cup {o} /\ UNCHANGED credit
       /\ events' = Append(events, Reports("NEW", o.cid))
    \/ /\ \/ Crosses(o)                                           \* would take
          \/ IsBoot(o) /\ "boot_refused" \in Env /\ orderSeq < MaxOrders
       /\ UNCHANGED <<book, credit>>
       /\ events' = Append(events, Reports("EXPIRED", o.cid))
    \/ /\ o.side = "ANCHOR"                                     \* malformed
       /\ UNCHANGED <<book, credit>>
       /\ events' = Append(events, Reports("REJECTED", o.cid))
    \/ o.side = "CANCEL_ALL" /\ CancelBook /\ UNCHANGED credit
    \/ /\ o.side = "MARKET" /\ UNCHANGED book
       /\ \E q \in BootYield :
            /\ credit' = credit + q
            /\ events' = events \o <<Reports("NEW", o.cid),
                             [type |-> "FILLED", cid |-> o.cid, qty |-> q]>>

\* The writer loop sends the oldest command; it may be lost, or be answered by
\* an error response only, which the reader logs and nobody acts on.
WriterSend ==
    /\ cursor = 0 /\ sendq # <<>>
    /\ sendq' = Tail(sendq)
    /\ \/ Answer(Head(sendq))
       \/ "no_report" \in Env /\ UNCHANGED <<book, credit, events>>
    /\ UNCHANGED <<lifeVars, loopVars, mapVars, missed, acked, cycleSeq, bootCid, gap>>

\* Lines whose order is on its way: queued, promised by a fill not yet
\* dispatched, or waiting for the bootstrap.
InFlightLevels ==
    {o.level : o \in {q \in Queued : ~OffGrid(q)}}
    \cup {CounterLevel(orders[c]) : c \in Pending("FILLED") \cap DOMAIN orders}
    \cup (IF bootCid # NoCid THEN 1 .. Hi ELSE {})

MayCross(l) ==
    /\ cursor = 0 /\ initialized
    /\ l \in InFlightLevels => "jump" \in Env

\* The price touches the nearest BUY or SELL and fills it.  A BUY filled is one
\* SELL more to answer it with, a SELL filled one less; how much base the orders
\* of different lines move is GridInventory's.
Fill(o) ==
    /\ o.side \in Sides
    /\ o.level = IF o.side = "BUY" THEN gap ELSE gap + 1
    /\ MayCross(o.level) /\ orderSeq < MaxOrders
    /\ book' = book \ {o}
    /\ credit' = IF o.side = "BUY" THEN credit + 1 ELSE credit - 1
    /\ events' = Append(events, Reports("FILLED", o.cid))
    /\ UNCHANGED <<lifeVars, loopVars, mapVars, missed, acked, cycleSeq, bootCid,
                   sendq, gap>>

FillBootstrap(o) ==
    /\ cursor = 0 /\ o.side = "LIMIT"
    /\ book' = book \ {o}
    /\ \E q \in BootYield :
         /\ credit' = credit + q
         /\ events' = Append(events, [type |-> "FILLED", cid |-> o.cid, qty |-> q])
    /\ UNCHANGED <<lifeVars, loopVars, mapVars, missed, acked, cycleSeq, bootCid,
                   sendq, gap>>

\* The price crosses line l, on which no order rests any more.
PriceCross(l, to) ==
    /\ MayCross(l)
    /\ \A o \in book : o.level # l \/ IsBoot(o)
    /\ gap' = to
    /\ UNCHANGED <<lifeVars, loopVars, mapVars, missed, acked, cycleSeq, bootCid,
                   sendq, events, book, credit>>

PriceUp   == gap < Hi /\ PriceCross(gap + 1, gap + 1)
PriceDown == gap >= Lo /\ PriceCross(gap, gap - 1)

UserCancel(o) ==
    /\ "user_cancel" \in Env /\ cursor = 0
    /\ book' = book \ {o}
    /\ events' = Append(events, Reports("CANCELED", o.cid))
    /\ UNCHANGED <<lifeVars, loopVars, mapVars, missed, acked, cycleSeq, bootCid,
                   sendq, gap, credit>>

-------------------------------------------------------------------------------

Next ==
    \/ Initialize \/ PlaceBuy \/ PlaceBootstrap \/ PlaceSell
    \/ DispatchNew \/ DispatchFilled \/ DispatchRejected \/ DispatchCanceled
    \/ \E l \in Levels : RetryMissed(l)
    \/ Pause \/ Resume \/ Stop
    \/ EmergencyStop \/ CancelAgain \/ RestCancel \/ MarkStopped
    \/ WriterSend
    \/ \E o \in book : Fill(o) \/ FillBootstrap(o) \/ UserCancel(o)
    \/ PriceUp \/ PriceDown

Spec == Init /\ [][Next]_vars

\* The event loop runs every ready task: the initialization, the placing loop,
\* the dispatcher and the writer.  Nothing is assumed of price, user or commands.
Fairness ==
    /\ WF_vars(Initialize)
    /\ WF_vars(PlaceBuy \/ PlaceBootstrap \/ PlaceSell)
    /\ WF_vars(Dispatch)
    /\ WF_vars(WriterSend)

FairSpec == Spec /\ Fairness
===============================================================================
