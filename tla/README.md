# Verification of the Kebo grid bot

TLA+ models of the grid trading bot in `src/`, the TLC configurations that check
them on small instances, and proofs of the most important properties for every
instance. Line references are to the files under `src/src/` unless they say
otherwise.

## 1. The system

The bot keeps a ladder of limit orders around an anchor price: BUYs below, SELLs
above. A fill is answered by an order of the other side on the neighbouring line.
Everything runs in one asyncio event loop; the components are tasks that talk
through queues. A handler is atomic between two awaits that really suspend.

| Component | Source | State | Operations |
|---|---|---|---|
| Grid engine | `grid/engine.py` | status, level map, order maps, missed levels, acknowledged ids, counters, pending bootstrap | `initialize`, `recover`, `on_execution_report`, `on_order_rejected`, market tick, `on_external_cancel`, pause/resume/stop/emergency_stop |
| Order router | `grid/order_router.py` | ids already submitted | `submit_order` (idempotent), `make_client_order_id` |
| Emergency stop | `supervisor/emergency.py` | `_in_progress`, the task that waits for the book to empty | `execute`, `_wait_for_canceled`, REST cleanup |
| Dispatcher, commands | `app/main.py` | event and command queue | one execution report or one command at a time |
| Life cycle | `app/main.py` | shutdown event, TaskGroup | start, recovery, `graceful_shutdown` |
| WebSocket API | `exchange/ws_api.py` | send queue, socket, pending queries | writer, reader, heartbeat, reconnect, queries with timeout |
| User data stream | `exchange/user_stream.py` | listen key, socket | reader and keepalive, reconnect |
| Market stream | `exchange/market_stream.py` | last price | ticks to the engine |
| Order state machine | `grid/state_machine.py` | none | report to local state, external cancellation |
| Database writer | `persistence/writer.py`, `repositories.py` | bounded queue, degraded mode | upserts, fills, events |
| Reconciliation | `supervisor/reconciliation.py` | lock | compares the level map with the open orders, clears ghosts |
| Watchdog | `supervisor/watchdog.py` | stale counters | forced reconnect, emergency stop |
| Half-match accounting | `grid/pnl.py` | none | pairs BUYs and SELLs |
| Calculator, filters, precision | `grid/calculator.py`, `exchange/filters.py`, `exchange/precision.py` | none | lines, quantities, rounding |
| Inventory | `grid/inventory.py` | free and locked balances | `has_base_for_sell`, `has_quote_for_buy` |
| Dashboard API, config, logging, grid finder | `api/`, `app/config.py`, ... | none of interest | |

How they interact: the engine's router puts order commands into the WebSocket
send queue and never waits for an answer. The exchange reports through the user
data stream only; the dispatcher stores each report through the database queue
and hands it to the engine. Market ticks call the engine synchronously. The
supervisors (watchdog, reconciliation, emergency stop) share the engine's status
and maps.

What makes each part correct:

* engine: one order per line; the level map agrees with what is on its way and
  open; every fill is answered; only a running bot submits; a SELL is paid for by a BUY,
  and offers what was bought;
* emergency stop and life cycle: silence after the stop, no open order once
  stopped, the stop is reached;
* WebSocket API: no order is lost silently, a result is as new as its query, no query
  hangs, a dead connection is replaced;
* user stream, watchdog: a dead connection is noticed and replaced;
* database and state machine: rows never go backwards, a degraded writer recovers;
* recovery and reconciliation: the maps rebuilt are those of the open orders;
* accounting, calculator: profits counted once, rounding never over-commits.

Hard behaviours: reports that race with submissions (the order map is written
before the exchange knows the order), fills in quick succession, commands between
two awaits of `initialize`, errors answered by a response nobody acts on, late
acknowledgements, pauses during fills, crashes between a fill and its answer.
`PROJECT.json` lists each of these hazards at its line with the properties about it.

## 2. What is modelled

| Module | Models | Composed of |
|---|---|---|
| `GridEngine`, `GridEngineProperties` | engine, router, dispatcher and commands as the engine sees them | |
| `GridLadder` | what the engine promises: a ladder with one hole | refined by GridEngine |
| `WsApi` | WebSocket client: writer, reader, heartbeat, queries | |
| `OrderStore` | an order's way into the database: router, dispatcher, state machine, writer, and what engine and reconciliation write of orders they give up | |
| `OrderLife` | what the orders table promises of an order | refined by OrderStore |
| `GridPlan` | computation, pre-flight check and payment of the grid: calculator, filters, inventory | |
| `HalfMatch` | the realised profit of a report | |
| `GridMoney` | the plan, fills on its lines, reports over them | extends GridPlan and HalfMatch |
| `GridInventory` | the quantities of the counter orders and the base they move | extends GridPlan |
| `Supervision` | the end of the start, watchdog, user stream, emergency stop, commands, the end of the process | |
| `Recovery` | crash, restart, reconciliation | |

The `MC*` modules give values to constants a configuration cannot write.
Proofs are in `GridEngineProofs`, `GridEngineTracking`, `GridEngineCalm`, `WsApiProofs`,
`OrderStoreProofs`, `SupervisionProofs`, `RecoveryProofs` and `PlanProofs`.

The engine's state is modelled three times at different depth: GridEngine has the
level map with prices, ids and statuses of one run of the process; Recovery has the
level map with the exchange and the table across restarts, without price and pauses;
OrderStore and Supervision keep of it what the database and the supervisors look at.
One module with all of it would be out of TLC's reach; each boundary is named under
the module.

### GridEngine

The engine together with the router, the engine's half of the dispatcher, the
command processor and the emergency stop, closed by an environment: send queue,
exchange and price.

| Variables | Code |
|---|---|
| `status`, `initialized` | `engine.status`; whether `initialize` has come to line 349 |
| `waiter` | `EmergencyStop._in_progress` and its task: not started, polling, REST has cancelled, ended |
| `levelOrders` | `_level_orders`; `NoCid` for a line without entry |
| `orders` | `_order_levels` with `_order_sides`; its domain is also the router's `_submitted`, both are never reduced |
| `missed`, `acked`, `bootCid` | `_missed_levels` (side only), `_order_acked_set`, `_bootstrap_cid` |
| `cycleSeq`, `orderSeq` | the counters of the ids |
| `cursor`, `budget` | position of the loop that places BUYs (downwards) or SELLs (upwards), SELL levels it can still pay for |
| `sendq`, `events` | send queue; execution reports not yet dispatched, both FIFO |
| `book`, `gap`, `credit` | the bot's open orders, the price as the pair of lines it is between, how many SELL orders are paid for: by the BUYs that filled, the levels the bootstrap bought, and what a prebalanced account owns |

A client order id keeps the side's letter, the absolute level, the cycle and the
sequence number modulo 100, as `make_client_order_id` does: that a level's sign is
lost in the id is part of the model.

Actions and handlers: `Initialize`, `PlaceBuy`, `PlaceBootstrap`, `PlaceSell` are
`initialize` and the placing loops, one iteration per step; nothing else is enabled
while a loop is under way (`cursor # 0`), since the loops never suspend. They are
steps of their own only to keep each one small. `DispatchNew/Filled/Rejected/Canceled`
are `_handle_execution_report` with the handler it calls, submission included.
`RetryMissed` is a market tick that retries one level. `Pause`, `Resume`, `Stop`,
`EmergencyStop` are commands; `CancelAgain`, `RestCancel`, `MarkStopped` the steps of
the task an emergency stop leaves behind. `WriterSend` sends the oldest command and
takes the exchange's `Answer`. `Fill`, `FillBootstrap`, `PriceUp`, `PriceDown` and
`UserCancel` are the market and the user.

The exchange is external and is modelled from how the code uses it:
a post-only order that would take is refused by an EXPIRED report
(`src/README.md:1213`, `engine.py:598-605`), an order for the side `ANCHOR` is
malformed and refused by a REJECTED report, a market order is reported NEW and
FILLED, a cancelAll cancels what is open and reports every order.

What is left to the environment is the constant `Env`, a set of kinds:
`jump` (the price crosses a line whose order is in flight), `slow_ack` (an order
in flight gets 30 s old), `no_report` (a command is lost, or answered only by an
error response that is logged, `ws_api.py:227-241`), `user_cancel`, `pause`, `stop`,
`short_quote`, `slippage`, `boot_refused`. A run states its assumptions by the kinds
it leaves out. Price moves and fills that would provoke new orders stop at
`MaxOrders` submissions.

### GridLadder

The abstract promise: one line of the grid, the hole, has no order; every line
below it has a BUY and every line above it a SELL; a fill moves the hole to the
filled line. `GridEngineProperties` instantiates it with `slot <- Due(l)`, the side
of the order a line has or is due: working, to be placed as the answer of an
undispatched fill, or still to be placed by the initial loops.

### WsApi

The client's three coroutines around one socket, with the engine's orders and the
callers of queries as actors, and the network and the exchange as environment. An
action is what a coroutine does between two awaits that suspend it.

| Variables | Code |
|---|---|
| `ws`, `sock` | `_ws` with `_connected` (one is set exactly while the other is not None); what has become of each socket: open, mute (open, nobody answers), closed |
| `writer`, `hand` | where `writer_loop` is; the command it is about to send |
| `reader` | the socket the `async for` of `reader_loop` iterates over |
| `sendq` | `send_queue`, bounded by `QueueSize` |
| `pending` | `_pending`, the queries with a future |
| `caller`, `request` | where a caller of `_query` (or the heartbeat) is: waiting for a connection (`blocked`, then `woken`), for its answer, expired but not yet run again, or with a result; the query it waits for |
| `failures` | `consecutive_failures` of `heartbeat_loop` |
| `asked`, `inbox` | the exchange and the wire: pending queries it has received, and answers not yet read |
| `sent`, `count` | history of the orders received; numbers the commands in order of submission |

`Connect` to `SendRaises` are `writer_loop` with `_connect` and `_write_loop`;
`ConnectionLost` is its `finally` clause and part of every step that leaves
`_write_loop`. `SendFails` requeues at the tail, `SendRaises` drops, as the two
`except` clauses do. `Attach`, `Read`, `Detach` are `reader_loop`; an answer whose
caller's future is cancelled already makes `set_result` raise and ends the
iteration. `CallQuery`, `Resume`, `Expire`, `GiveUp`, `Return`, `Abandon` are `_query`
and `_query_apikey_only` cut at their two awaits; `BeatSend` to `BeatTimeout` the
heartbeat with `force_reconnect`. All `enqueue_*` methods are `EnqueueOrder`.

The environment is again a set of kinds (`close`, `mute`, `aged`, `ambiguous`,
`bad_command`, `abandon`, `late`), each explained at its declaration. Without `late`,
a timeout of 8 or 10 s does not happen while the writer or the reader has something
to do: that is what makes a timeout mean a dead connection.

The module is not composed with GridEngine. The engine never looks at the result of
an enqueued order, so what it can observe of the client is the order and the loss
of its commands. GridEngine has the losses (`no_report`) and a FIFO queue; a send
that fails and puts an order behind later ones is not in it. What still holds then
is `ResultIsCurrent`.

### OrderStore and OrderLife

| Variables | Code |
|---|---|
| `status`, `belief` | `engine.status`; what the engine's maps say of an order: placed, filled, missed, freed |
| `submitted`, `acked`, `sendq` | `router._submitted`; `_order_acked_set`; the send queue |
| `pass` | what a pass of the reconciliation knows of an order at each await |
| `exchange`, `stream` | the orders on the exchange with the number of their executions; reports not yet dispatched |
| `dbq` | `db_queue`, at most `QueueMax` events |
| `rows`, `fills` | the tables `orders` and `fills` |
| `lost`, `doubted` | history: the orders of which a write was dropped; those stored REJECTED here though the exchange had not lost them |

`SubmitAfter` is `OrderRouter.submit_order`: the id is recorded, then the intent is put
into the bounded queue, then the order is sent. A put into a full queue raises and
abandons the handler at that point, so `Dispatch` takes the puts there is room for, and
the engine does not see a report whose writes did not fit. `ReportWrites` is the
dispatcher's half, `TransitionFromExecutionReport` the state machine, called with
`SUBMITTED_UNKNOWN` each time (`main.py:149`). `FillHandled`, `RefusalHandled` and
`GhostOverride` are the engine's handlers up to what they store. `Absent`, `LookUp` and
`Clear` are a pass of the reconciliation, cut at its awaits, for one order each. `DbWrite` is
one event in a transaction of its own; `DbWriteFails` one that is rolled back and forgotten.

Two places write REJECTED of an order without a word from the exchange: the ghost override,
of any order that has had no NEW report for 30 s (`engine.py:495`), and the reconciliation, of
any whose row is SUBMIT_QUEUED and that was not open when it asked
(`reconciliation.py:173`). The kinds `slow_ack` and `reconcile` of `Env` let either hit an
order that is alive: waiting to be sent, open, or with its report on the way. Without
`slow_ack` the ghost override hits lost orders only.

`OrderLife` is the abstract specification: a row moves forward through
SUBMIT_QUEUED, WORKING, PARTIALLY_FILLED to one end, and an end is only replaced by
another name of the same end. Only the row of an order that was given up while it was alive
(`doubted`) may become REJECTED late, and come back from it.

Not in it: the log tables, balances, bot runs and grid levels; the row of an order whose
id is used a second time.

### GridPlan, HalfMatch, GridMoney, GridInventory

`GridPlan` is the second half of `initialize`: `OrderQuoteValue` to `PlaceInitialOrders`
are its stages, `AddBuy` and `AddSell` one turn of the loops of `generate_*_grid`. Money
is exact: ticks, lot steps and their products. The operators are those of
`calculator.py`, `filters.py`, `precision.py` and `inventory.py`: `StepRatio`, `PairsFor`,
`LinePrice` with rounding to the nearest tick, quantities rounded down,
`ValidOrder`, `HasQuoteForBuy`, `HasBaseForSell`. The configuration is a
record of the set `Config`, which says what `BotConfig` admits.

`HalfMatch` is `compute_half_match_profit`: `MatchClosest` is one round of its greedy
loop, `BestPair` the pair that its nested loops keep. `GridMoney` lets
the lines of the plan fill in any order on either side and reports over the fills.

`GridInventory` follows a plan that was placed as a whole through the regular run that
GridLadder describes: `BuyFills` and `SellFills` are a fill of a line next to the hole with
`_on_order_filled`, which answers with `CounterQuantity`. `size` is the quantity of the order on each
line, `held` the base of the account. It starts with just what the SELL levels need
(`total_base_required`). With `BaseFee` a BUY's fee is taken in base. Balance updates, and base the account owns besides, are not in it.

Not in it: the upper bounds of the filters, decimals beyond 28 digits, commissions in
a third asset, and the unrealised figures, which are plain products.

### Supervision

| Variables | Code |
|---|---|
| `status`, `inProgress` | `engine.status`, `EmergencyStop._in_progress` |
| `emg` | `_wait_for_canceled`: where it is, attempt, timeouts in a row, answer of its query |
| `dog`, `silent` | `Watchdog`: forced closes, the timers as flags; `last_msg_age_sec` beyond the limit |
| `net`, `sendq`, `resent` | connection up, down or mute; send queue; a send failed and requeued its command |
| `stream` | user stream: live, deaf (its reader has ended), stale (the watchdog sees it) |
| `opens`, `boot` | the exchange has orders of the bot open; the bootstrap: working, or with a report of its fill or refusal on its way |
| `start`, `late` | where `main()` has the engine: asking for open orders, in `recover()`, in `initialize()`, done; history: an order was submitted after an emergency stop |
| `main`, `polls`, `tasks`, `restFailed` | where `main()` and `graceful_shutdown` are; the TaskGroup's tasks run; a REST call failed |

`Execute` is `EmergencyStop.execute`, whoever calls it. `EmgPoll` is the polling task cut
at its awaits: the query is put behind what is queued (`EmgAsk`), the exchange answers
when it gets there (`Send`), and the answer is acted on later (`EmgSome`, `EmgNone`).
`CheckStream`, `CheckSilent`, `CheckSettled` are `Watchdog._check`; a timer is a flag
that falls some time after it was set (`TimePasses`), so that any order of the timers is
possible. What the watchdog kept goes with its task in a `Crash`. `Begin` is the branch of `main()` on the open orders, `Recover` and `Initialize` are the
ends of `recover()` and `initialize()` behind their last await: both set RUNNING whatever the status
was. `BootReport` is the report of a bootstrap, which places SELLs, or another bootstrap, in
every status but EMERGENCY_STOPPING. `StartCleanup` to `Close` are `graceful_shutdown`. Of the WebSocket client the
module keeps a FIFO and the failed send that breaks it.

Not in it: grid lines (one command stands for the orders of a placement); what `main()` does
before it asks for the open orders; a failing `initialize` or `recover`; a bootstrap that an
earlier process left open, which counts as an open order only.

### Recovery

| Variables | Code |
|---|---|
| `up` | the process: running, down, recovering, or a fresh run |
| `orders` | the orders submitted, a sequence: side, line, state on the exchange |
| `rows`, `dbq` | `status_local` of their rows; writes not yet done |
| `known`, `lineOrder`, `missed`, `acked` | `_order_levels`, `_level_orders`, `_missed_levels`, `_order_acked_set` |
| `recovered` | the orders `recover()` found, which have no submit time |
| `stream` | reports not yet dispatched |
| `rec` | a pass of the reconciliation: where it is, what it found, and which orders are younger than its query |
| `snap` | the open orders `main()` found at its start |

`Ask`, `Answer`, `Compare`, `LookUp`, `Free` are one pass of the reconciliation, cut at
its awaits; the engine's handlers run between any two of them. `Crash` may happen at any
step and takes the memory, the queues and the undispatched reports with it. `Restart` is
the query in `main()`, `Recover` is `_try_recovery` with `GridEngine.recover`:
the line of an order is decoded from its id, which lost the sign (`DecodedLine`).
`SubmitLevelOrder` has the ghost override of `engine.py:495` (`IsGhost`): an order without a NEW
report gives up its line if it was recovered, is lost or, under `slow_ack`, is late, and blocks it
otherwise (`Blocks`). A behaviour
starts from a grid some time after its start: the hole is on a line of choice (`Hole`),
and some lines may be missed (`StartMissed`).

Not in it: bootstrap, price, pause, the branches of `_try_recovery` for a run or symbol
that is not in the database, and the counters of the ids, which are taken as
different.

### Abstractions

* Quantities, prices and profits are left out of GridEngine and are in GridPlan and
  GridInventory. GridEngine counts orders: a BUY that fills pays for one SELL, whatever the
  quantity of either. The profit check of a missed SELL and
  the 500 ms debounce of a tick are a free choice of when `RetryMissed` happens, and a
  tick that retries several levels is several steps.
* Partial fills change nothing in the engine (only FILLED is acted on); they are in
  OrderStore, where they are stored.
* `use_existing_balances` behaves like `prebalanced`. A prebalanced account has
  the base of every SELL line. `has_base_for_sell` compares each level with the whole
  balance (`inventory.py:69`), so the SELL loop of `prebalanced` does not count down.
* The `pending_counter_acks` and pair ids only feed logs and accounting.
* An initialization that fails ends the process; it is in GridPlan (`Raise`) and is no
  behaviour of GridEngine.
* GridEngine has a short emergency stop of its own, in which a poll is one step; the
  whole of it is in Supervision.
* The status string ERROR (never assigned) is left out.
* GridEngine's results hold for a process that started afresh and whose level map no
  reconciliation edits; Recovery has both.
* In WsApi a command has a kind and a number, no content. An answer nobody waits for is
  only logged (`ws_api.py:227-241`) and is not kept in `asked` and `inbox`. The ids of
  heartbeats and the identities of sockets are used again once nothing refers to them.
  `stop()`, called only when the process ends (`app/main.py:769`), is left out, and the
  backoff has no length.

## 3. Runs

Only `ws` checks for deadlock: the heartbeat never ends. In the other runs the
system may have nothing left to do once a bound is reached, after the bot is stopped and
its queues are empty, or when the process has ended.

| Run | Instance | Shows |
|---|---|---|
| `ladder` | 5 lines, bootstrap by MARKET, `Env = {}`, 9 orders, one sequence number for all ids, fair | `ImplementsLadder`: the engine implements GridLadder. `FillAnswered`, `BootstrapAnswered`: each fill gets its answer into the book, a bootstrap an order on each SELL line. `OneSellPerBuy`: SELL orders on their way or open are never more than BUY fills and the bootstrap have paid for. `NothingDropped`: no order is lost in the router because its id was used before |
| `tracking` | 3 lines, prebalanced, 5 orders, `jump`, `no_report`, `user_cancel`, `pause`, `stop` | `OneOrderPerLevel`, `LevelTracked`, `SubmitsOnlyRunning` and the type invariant |
| `exact` | 5 lines, bootstrap by LIMIT_MAKER, 6 orders, `jump`, `boot_refused`, `slippage`, `short_quote` | `NoDeadHolder`: a registered order is on its way, open or just finished, through missed levels and their retries |
| `ws` | 2 sockets, 1 caller and the heartbeat, queue of 2, 1 order, every kind of environment, fair | `AnswerCanCome`, `ResultIsCurrent`, `OrdersKept`; `DeadSocketReplaced`: a dead socket is replaced, by the heartbeat if nobody else notices; no deadlock; and the type invariant |
| `store` | 2 orders of 2 trades, queue of 3, one order with reports delivered twice, one order may lose writes, every kind of environment but `slow_ack` and `reconcile`, fair | `DrainedExact`: once drained, rows and fills are those of the exchange. `ImplementsOrderLife`: no row turns back. `EndStored`: the end of an order gets into the tables unless a write was dropped. And the type invariant |
| `reconciled` | 2 orders of 1 trade, queue of 3, `refuse`, `cancel`, `lose`, `stop`, `slow_ack`, `reconcile` | `DrainedExact` where living orders are written off: quantity and fills stay exact, the state but for REJECTED |
| `money` | 12289 configurations of up to 5 lines in tenths, one of them traded with 4 fills, fair | `LadderSound`, `LossBounded`, `TargetReached`, `CapitalFits`, `PlacedFits` of the plan; `MatchesMost`, `MatchedKept`, `ReportEnds` of the reports; and the type invariant |
| `supervision` | bootstrap, sale of the base, 2 attempts, queue of 2, 2 events of the environment, every kind of it, fair | `EmptyMeansEmpty`, `ClosedClean`, `StaysStopped`; `DeafStreamEnds`, `SilenceEnds`, `EmergencyComesToEnd`; and the type invariant |
| `recovery` | 4 lines with the hole at 1 and the lowest perhaps missed, 4 orders, one crash, one report and write on their way, every kind of environment, fair | `KnownLines`: a running bot has every open order under its own line or, exactly if it recovered it across the anchor, the mirrored one. `FreedIsDead`: the reconciliation frees the lines of dead orders only; `DeadFreed`: it frees each of them in the end. And the type invariant |

Why the bounds are enough. Engine: three lines have an anchor and both neighbours, so two
fills of neighbouring lines, the hole at the edge and the lost sign of a level are
all there; five lines add a BUY and a SELL that keep their own side while their
neighbour is refilled. Three to five orders are used up by the initial placement;
the rest let a line be refilled, refused, missed and retried, and the answer of an
answer fill. In `ladder` the sequence number is taken modulo 1, the worst
case of a wrap, since every id then has the same; in `tracking` and `exact` it
stays below the code's 100, because a retry of a missed level does repeat an id there
once the number wraps.

Client: two sockets let the reader stay behind on the one before. One order, one query and
one beat fill a queue of two with the third command in the writer's hand, so that a query finds it
full, a failed send finds no room to put its command back, and another command gets
between an order and its second attempt. Callers share nothing but the queue and the map, in which
each has an id of its own: one caller beside the heartbeat and the proof for any number of them
cover the rest.

Store: orders meet only where one answers the other or takes its line, and in the shared
queue; two are enough for both. A queue of 3 is full in the middle of a
handler's puts (a fill puts three events), and two trades make a partial fill. In `reconciled` one
trade does, since what matters there is the order of the two REJECTED and the reports.

Money: tenths make every rounding visible that hundredths would hide, and among the
configurations are values given and computed, both targets, capital and balances that
do not suffice, lines that round to the anchor's price, and to zero or below. Four
fills are the fewest in which a greedy choice could block two better pairs.

Supervision: two events are a stop command and a failure in the start or in its
cleanup, or two failures, in any order; the end of the start, the bootstrap's fill, and the forced
closes of a silent connection need no event of their own. Two attempts let the polling task see
a timeout before an answer and a timeout after one; a queue of two holds the cancelAll and the
query, and is full for the next command. The theorems take any number of events, attempts and
places.

Recovery: with the hole at line 1 of the lines -1 to 2, one fill puts a BUY above the
anchor, whose mirrored line has a BUY of its own; there are orders on both
sides and on the anchor's line. The orders beyond those of the start are the answer of a fill, the
retry of a missed line or the heir of a ghost, and may be younger than the reconciliation's query.
The theorems take any number of them.

`OneSellPerBuy` is not claimed under `jump`: a price that outruns orders makes the
wrong-side retry below place a SELL nothing has paid for. The run has it in a regular environment,
the theorem `SellsCredited` through slippage, refused bootstraps, pauses, cancels and losses. It says
nothing of quantities: what those do is `OffersCovered` below. `NoDeadHolder` is not claimed
under `no_report`, `user_cancel` and `pause`, where the code leaves lines registered.

### Disagreements between the code and its documentation

| Run | Property | What happens |
|---|---|---|
| `revived` | `SilentOnceStopped` (`tests/test_emergency_stop.py:7`) | An emergency stop while `initialize` awaits an answer is overwritten: line 349 sets RUNNING and the grid is placed |
| `losing` | `NeverLoses` (`src/docs/grid_calculation_detailed.md:110`, `:175`; also `calculator.py:56`, `src/README.md:37`) | Above the anchor of an arithmetic grid the fees outgrow a step that was computed at the anchor |
| `not_neutral` | `OffersCovered` (`grid/engine.py:774`) | A BUY placed with the quantity of the line above is answered with the larger one of its own line |

### Observed while modelling

These are behaviours the models have because the code has them. No run is kept for
them; each is why some property above is stated the way it is. Where one of them contradicts what
the repository says of itself, that is quoted.

Engine:

* When the price crosses two lines while the answer to the first fill is on its way, the second fill
  finds the neighbouring line occupied and `_submit_level_order` drops its counter order
  (`engine.py:512`); `src/README.md:88`: "FILLED → counter order küldés a szomszédos grid
  vonalra". `ImplementsLadder` is therefore stated without `jump`.
* A fee taken in base is deducted from the answer on the anchor's line only (`engine.py:783`); on every
  other line the SELL offers the whole quantity of the filled line. `src/README.md:413`: "BUY fill →
  SELL counter: qty = filled_qty - commission (ha base-ben)". With `BaseFee` GridInventory breaks
  `OffersCovered` at the first fill.
* A missed level is retried with the grid map's side, which after a fill need not be the
  side that was missed (`engine.py:686`); on the anchor's line the side is even `ANCHOR`.
  The level is forgotten first, so that on an occupied line it is lost.
* A fill during a pause is dropped before its line is freed (`engine.py:724`); after the
  resume the line is blocked by the filled order (`src/README.md:1114-1115` promises that
  the grid goes on).
* The fill of a bootstrap places SELLs in a paused or stopped bot; only EMERGENCY_STOPPING keeps
  it from that. The end of `recover` overwrites a stop as that of `initialize` does.
* A refused order frees its line whoever holds it by then (`engine.py:608`): when the ghost
  override has given the line of a late order away, its refusal frees the heir's.
* A FILLED report that comes twice is answered twice (`engine.py:735`).

Client and database:

* `_write_loop` returns for the 23 h reconnect without closing the socket
  (`ws_api.py:160`); `reader_loop` goes on iterating over it, and what the new socket
  receives is not read before the exchange closes the old one. Meanwhile the heartbeat
  closes each new connection after two timeouts.
* When the database queue is full, an id is used up before its intent is refused
  (`order_router.py:92`): the order is neither stored nor sent, nor retried.
* The ghost override stores REJECTED of an order whose NEW report takes more than 30 s; the report
  then stores it WORKING again (`main.py:149`). `grid/state_machine.py:31` says of REJECTED and the
  others: "Terminal állapotok – ezekből nem lehet tovább haladni". Hence `doubted` in
  `ImplementsOrderLife`.
* The reconciliation stores REJECTED, with the reason "SUBMIT_QUEUED ghost (no exchange entry)"
  (`reconciliation.py:173-179`), of an order that may only be waiting in the send queue and is open
  afterwards. Hence `doubted` in `DrainedExact`.
* Another late report cannot turn a row back only because the stream and the queue are first
  in, first out: the state machine is called as if each report were the first.
* Whether the row of an order that was written off alive ends as REJECTED or as what the
  exchange says is a matter of which write comes last. Its executed quantity and fills are
  right in both cases.

Plan and profit:

* A prebalanced grid has no pre-flight check; each level is compared with the balance
  read at the start, which the levels placed before have not reduced
  (`engine.py:452`, `:468`).
* Without a SELL level the pre-flight check counts nothing for the bootstrap, which then
  spends `total_capital_quote * buy_allocation_ratio` (`engine.py:375`, `:864`): hence the
  condition in `PlacedFits`.
* A BUY line of an arithmetic grid that rounds to price 0 raises ZeroDivisionError before
  the price is checked (`calculator.py:277`).
* Rounding to ticks takes up to half a tick from either price of a round trip, also in a geometric
  grid: `LossBounded` is what is left of the promise never to lose.
* A later report may show less realised profit than an earlier one: a new fill takes the
  partner of an old pair. What never shrinks is the matched quantity (`MatchedKept`). A
  round trip that lost is never matched. `commission_asset` is ignored.
* `tests/test_grid_math.py` calls the calculator with signatures it no longer has.

Supervision:

* A query waits for a connection without a timeout (`ws_api.py:245`): while the socket is
  down the emergency task does not get to its REST fallback. Hence the premise
  `[]<>(net # "down")` of `EmergencyComesToEnd`.
* A failed send puts an order behind the cancelAll and the query that finds nothing open
  (`ws_api.py:184`): the bot is EMERGENCY_STOPPED and the order opens.
  `tests/test_emergency_stop.py:12`: "Csak akkor EMERGENCY_STOPPED ha nincs nyitott order". Hence
  `~resent` in `EmptyMeansEmpty`.
* An order submitted after the stop is the run `revived`; hence `~late` in `EmptyMeansEmpty`, and
  `start = "done"` in `StaysStopped`.
* A stop command or a signal ends the body of the TaskGroup, whose tasks loop for ever
  (`main.py:721`): `graceful_shutdown` is reached after a crash only, and otherwise the orders stay
  open. `main.py:730` says of the clause it is in: "MINDIG fut, akár normál akár crash". `ClosedClean` is
  about the crash.
* After the REST fallback an order still in the send queue may open until the cancelAll behind
  it in the queue is sent; no property speaks of that moment.
* The policy `emergency_stop` sets the status and nothing else (`engine.py:1149`): no
  order is cancelled, and the watchdog looks away. `_in_progress` is never reset.
* Over WS the base is never sold: `_sell_remaining_base` reads `b["a"]`, the stream's name
  of the field, from an answer of the API, and the KeyError is logged.
* The REST path marks the bot stopped when its cancel requests were answered, whatever
  its own check still finds (`emergency.py:182`).
* After a crash the cleanup's cancelAll is put into a queue nobody sends any more; only
  REST clears the book. The database writer is gone too, so the final status is not
  stored. STOPPING overwrites EMERGENCY_STOPPED (`main.py:257`).
* A full send queue makes `execute` raise after `_in_progress` is set and before the
  polling task exists.

Recovery:

* A counter order on the other side of the anchor (a BUY above it, a SELL below it) is
  recovered on the mirrored line (`engine.py:1072`), while `src/README.md:1203` promises
  "bent ragadt orderekből + DB grid_levels-ből újraépül a teljes állapot". `KnownLines` states that
  line exactly.
* Recovered orders were never acknowledged and have no submit time: the next submission
  to their line takes them for ghosts and doubles a live order.
* The counters of the ids resume from the open orders alone (`engine.py:1079`), and an id
  of a finished order can come again; its intent is then not stored.
* A pending bootstrap is not recovered: its id has fewer parts than `recover()` asks for.
* MISSED rows are never cleared, so that a line missed once is missed after every
  restart. The recovered grid map has no quantities, so the retry of a missed line is
  refused by the exchange.
* A fill whose report a crash swallowed is never answered (`main.py:476`); one between
  the query of the open orders and status RUNNING is stored and not answered. The
  reconciliation only logs a lost fill (`reconciliation.py:184`).
* A lost order without a row blocks its line for ever; hence the row in `DeadHolder`. The
  reconciliation frees a line whoever holds it by then; hence `rec.young` in
  `FreedIsDead`.

### Fairness

GridEngine: `FairSpec` assumes weak fairness of the initialization, the placing loop, the
dispatcher and the writer: asyncio runs every ready task, and none of these waits
for anything but its queue. Nothing is assumed of price, user, commands or market
ticks, and `Env = {}` in the run that uses it, so the connection is up. The leads-to
properties therefore say nothing about a bot that is cut off.

WsApi: the same of the writer, the reader and the heartbeat with its
timer. None is assumed of the network: connections may fail for ever, and the exchange
need not answer, so `DeadSocketReplaced` says that a dead socket is given up, not that
the next one is better.

OrderStore: of the dispatcher and of the database writer, which may succeed or fail at
each event; an order that loses a write is excepted in `EndStored` by name.

GridMoney: of the plan and of a report under way, which are plain loops.

Supervision: of the tasks, the clocks, and calls that return, whatever they return. The polling
task is strongly fair, because it waits for an `asyncio.Event`: a connection wakes all that wait for
it, even if it is lost again before they run. A
connection need not come up again; the two properties that need one say so in
their premise. The environment does at most `MaxEvents` things, so that commands and
failures stop at some time; a mute connection may follow a mute connection for ever.

Recovery: of the tasks and of the exchange taking what it is sent, and strong fairness
of `Answer`: not every query of the reconciliation times out for ever.

## 4. Proofs

All theorems hold for every value of the constants that the module's named assumption
admits. What each one rests on:

**GridEngine.** `TypeOK` is inductive as it stands (`GridEngineProofs!TypeCorrect`), for
every grid, bound, policy and environment.

`SubmitsRunning` proves `SubmitsOnlyRunning` for prebalanced bots. The
strengthening is `PlacingRuns`: no bootstrap is ever pending, and the placing loop is
under way in a running bot only, because no handler runs between the assignment of
RUNNING and the end of the loop. With a bootstrap the property is false by design of
`on_execution_report`: its fill places SELLs in any status but EMERGENCY_STOPPING.

`GridEngineTracking` proves `OneOrderPerLevel` and `LevelTracked` for every grid, every
bound and every environment without `slow_ack`, under the assumptions below. Neither is inductive: nothing in them
says that the order found in a report is not queued a second time, or that an id
belongs to the line it is registered on. The inductive invariant `TrackInv` says it
(`Tracked` is its part `Consistent`):

* `Fresh`: every id ever made has a sequence number up to the current one, so a new
  id is new to the maps, the queue, the book and the stream;
* `Consistent`: an order of the grid is in one of the three places only (queue, book,
  undispatched final report), each once, and wherever it is it is registered with its
  level and side and holds its line.

The proof has a lemma for each way an order moves: submitted (`SubmitTracked`), sent
(`OrderSent`), resting (`OrderRests`), ended by a report (`OrderEnded`), leaving the
book (`OrderLeaves`), cancelled with all others (`BookEmptied`), reported and freed
(`LineFreed`); then one lemma per group of actions, and `TrackStep`.

Assumptions: `GridAssumption` on the constants; `"slow_ack" \notin Env`, no order
waits 30 s for its NEW report, since otherwise the ghost override
(`engine.py:495`) doubles a live order; and that the router drops no order
(`NothingDropped`), since the engine registers an order whose id was used before and the
router does not queue it (`order_router.py`, `submit_order`). `TrackedUnlessDropped` and
`ExactUnlessDropped` have it as their hypothesis. It is discharged in two ways:

* by `Fresh` while `orderSeq < SeqMod`, the first 99 orders, in every environment
  (`SingleOrder`, `Tracking`, `NoLineBlocked`). Beyond that a missed level's retry, which
  begins no cycle, may get the id of another order of its cycle: the number is taken modulo
  100 (`engine.py:526`) and the level's sign is lost;
* by `IdsSpent` for ever, in a calm environment (`NoOrderDropped`, `CalmTracking`,
  `CalmExact`): a fill begins a cycle, so that its answer's id is new whatever its
  number; the initial placement's orders differ in letter and level; and the loop
  never comes back to a line, because the SELL loop after the bootstrap is begun by a
  fill that only comes once.

The map is exact as well in a *faithful* environment, one that loses no command and
where nobody cancels, pauses or stops (`NoLineBlocked`, which proves `NoDeadHolder`). The
converse of `Consistent` is needed: a line's entry names an order that is queued, open or
just ended (`Held`); and no handler returns before it frees the line, because the status
is RUNNING and no cancellation is queued or reported (`Undisturbed`). Where one of the
five kinds is allowed, the code leaves lines registered: see "Observed".

`GridEngineCalm` proves `NothingDropped` and `OneSellPerBuy` in a *calm* environment, where the price does not
cross the line of an order in flight and no order waits 30 s (`NoOrderDropped`,
`SellsCredited`): cancels, pauses, stops, lost commands and a bootstrap that buys less are
all allowed, and no number of orders is too large. The invariant `CalmInv` has five parts,
which need each other, `Tracked` and `IdsSpent` from above and:

* `NothingCrosses`: no order on its way is a taker, so that no level is ever missed and
  no retry sells on a wrong side;
* `BootTracked`: a bootstrap's id is none of the grid's and is used once;
* `Credited`: `Bound`, the SELLs working plus the BUY fills whose answering SELL is due plus
  what the placing loop may still place, is no more than what is paid for, also after the
  fill of the bootstrap that is still to be dispatched. These are counts of orders. That the
  quantities agree is not a theorem, and is false of the code (`not_neutral`).

The refinement is proved for *regular* runs, where the exchange may at most refuse the
bootstrap (`EngineImplementsLadder`): for any number of lines and orders in flight every
step of the engine is a stutter of the ladder but `Fill`, which moves the hole. It rests
on all of the above and on `LadderInv`: the loops have the base they need (`LoopFunded`);
no order is on the line an answer is due on, no two answers are due on the same, and the
report that frees a line is dispatched before the one that is answered there
(`LinesApart` with `FillsInTurn`, true because the stream is first in, first out); and
the abstract shape itself. `LadderKeepsShape` proves that shape of the ladder alone.

**WsApi.** `WsApiProofs` proves all of `AnswerCanCome`, `ResultIsCurrent` and
`OrdersKept` for any number of callers, sockets and commands, any queue size and every
environment. The inductive invariant `WsInv` adds to them: the writer has a socket while
it is in `_write_loop` (`WriterInv`); a number is given once (`Numbered`); each waiting
caller has a request of its own in the map (`Registered`); a pending query is queued, in
hand, or sent on the socket in use, and in one of them only (`InOnePlace`); and wherever
it is, no order submitted before it is behind it (`InTurn`). `InTurn` is what a reader of
the code would doubt: a failed send puts an order behind later queries. It holds because
the same step fails every pending query (`LostStep`), so a query found behind such an
order is one nobody waits for. Assumption: `WsAssumption` on the constants only.

**OrderStore.** `OrderStoreProofs` proves `StoreType`, `DrainedExact` and the refinement
`ImplementsOrderLife` for any number of orders, of trades per order, of places in the
queue and of reports on their way, and every environment. The inductive invariant
`StoreInv` says where the word about each execution is:

* `Genuine`: what is stored, queued or on its way repeats something the exchange did, or is a
  REJECTED of an order that is lost or was given up;
* `InTurn`: row, queue and stream, read in this order, tell the executions of an order in
  turn, but for a REJECTED of an order given up alive. This is why no other row turns back
  although the state machine takes every report for the first one, and why a report
  delivered twice does no harm;
* `Sending`: an order in the send queue is there once and not yet on the exchange;
* `Told`: of an order that has lost no write the row, the last execution and each trade
  are in one of the three places, MISSED is the last word about an expired order, and what
  a pass of the reconciliation has read of it is still so.

The engine's handlers are proved about through what they have in common, a step that
extends the queue by writes about one order (`EngineStep`), and the exchange's through
`Moved`, an order that moves on and is reported once or twice. Assumption:
`StoreAssumption` on the constants.

**Supervision.** `SupervisionProofs` proves `SupervisionType`, `EmptyMeansEmpty`,
`ClosedClean` and `StaysStopped` for every shutdown action, policy, retry limit, queue
size, number of polls and number of events. The inductive invariant `SupervisionInv` has
four parts:

* `Types`, with the records of watchdog and polling task;
* `Stopping`: the polling task exists only after an emergency stop has begun, counts its attempts
  and timeouts up to their limits, and the queue and the watchdog's count keep theirs;
* `Queued`: as long as no send failed and nothing was submitted after the stop, every order,
  the bootstrap's included, stands before every query in the queue, since what was submitted
  before was submitted before the emergency task first asks. So an
  answer "none" is about the exchange and the queue alike, and stays so;
* `Cleaned`: what holds at each stage of `graceful_shutdown`. The tasks are gone when it
  begins (`Ending`), so nothing it has cancelled comes back.

`StaysStopped` is a property of steps and follows from `Stopping` and from where the start is: once
it is over, neither `Recover` nor `Initialize` comes again.

**Recovery.** `RecoveryProofs` proves `KnownLines`, `FreedIsDead` and `RecoveryType` for
every grid, hole, number of orders, of crashes and of reports on their way, and every
environment. The first two are about several actors at once and far from inductive.
`RecoveryInv` adds:

* `Shapes`, `Named`: whoever a map names was submitted, no BUY is on the highest line and no
  SELL on the lowest. So the answer to a fill has a line, and what `recover()` decodes
  from an id that lost its sign is a line of the grid;

* `Resting`: while the bot is not running nothing is queued, no pass of the
  reconciliation is under way, and every open order is in the snapshot of `main()`;
* `Placed`: `KnownLines`, the mirror included, for orders that are only queued as well, because
  they may be open when the next step looks;
* `Missing`: what has happened between the query and the verdict. An order alive at the
  answer is in it or younger than the query; an order that was found missing is dead or
  young; and whoever holds a line found without its order is the same order, nobody, or a
  young one.

Assumption: `RecoveryAssumption`, which asks that the mirror of an order's line is a line.

**GridPlan.** `PlanProofs` proves every safety property of the run `money`, for every
configuration that `Config` and `PlanAssumption` admit (what `BotConfig` validates), any
tick, any number of lines and any number of fills.

Powers and sums need induction. The library's induction theorems take an operator as
parameter, which no prover here can instantiate; but well-founded induction over a *set*
can be cited, so the first sections of the module show that a set of numbers closed under
successor, or of subsets of a finite set closed under one element more, has all of them
(`SetInduction`, `SizeInduction`). From it follow the facts about `Power` and about
`SumFunctionOnSet` that are used (`PowerIs`, `SumStep`, `SumParts`, ...).

* `ReachesTarget`: the ratio of the target is never below break even (`TargetTaken`), so that
  the floor in the code never decides; an identity for each kind of target (`PctNet`,
  `QuoteNet`) gives the net of a round trip.
* `PlanInv` is the inductive invariant of the plan: the ratio is that of the configuration
  and at least one (`Stepped`, `Sound`), the numbers of lines fit the capital (`Counted`),
  each level is computed from its own line and passes the filters (`Levels`), and cost
  what was counted (`Priced`). On it rest `LadderIsSound`, with the order of the exact
  prices of both grid types and what rounding to a tick keeps of it (`RoundedInOrder`,
  `RoundedApart`); `LossIsBounded`, where each rounding costs half a tick (`RoundedShort`) and a step
  above the anchor of an arithmetic grid falls short by the fees on the distance (`TripsShort`); and
  `CapitalIsEnough`, where the bootstrap's rounding costs half a cent (`Cents`).
* `PlacedIsPaid` adds `Afforded`: the levels cost what the pre-flight check compared with the
  account, and those placed are some of them.
* `GreedyMatchesMost`: however many fills there are, closest pairs first matches as much as
  any matching can. `ReportInv` adds to the types that what is left of some fills and
  what is matched of them is all of them (`Balanced`), and that no BUY with something
  left lies between the prices of a pair (`Paired`), since it would have been closer. Hence,
  when nothing is open any more, at the price of the cheapest BUY that is left every unit
  left is an excess of bought over dearer sold quantity (`ExcessFound`), and no matching leaves less
  than that excess (`ExcessLeft`).
* `ReportsOnlyGrow` follows: a fill more never lowers the matchable quantity (`MoreFills`).

Only model-checked: everything about liveness, which is out of the prover's reach
(`FillAnswered`, `BootstrapAnswered`, `DeadSocketReplaced`, `EndStored`, `ReportEnds`,
`DeafStreamEnds`, `SilenceEnds`, `EmergencyComesToEnd`, `DeadFreed`). Every other
safety property and both refinements that the passing runs check are theorems.

What the theorems about the engine assume of the environment is stated by `Env`, and the
runs make it visible. Only where levels are missed and tried again do they also assume that
the sequence number of the ids has not wrapped around.

## 5. Plan

Theorems: how far the base offered can exceed the base held; `NoDeadHolder` with pauses as far as the code keeps it; the profit of a report
as the sum of its pairs' net profits, none of them below what the two prices leave.

Modelling: ids with their counters in Recovery; Recovery with a bootstrap; a user
stream that loses and repeats reports in GridEngine.

## 6. Not modelled

* The grid finder (`tools/grid_finder`, a fifth of the implementation's lines): an offline
  search for parameters over downloaded candles, run by hand. It shares no state and no
  code with the running bot, and what it computes is a ranking by measured
  returns, with no promise to check.
* The dashboard API and its live events: they read the database and put commands
  into the queue; the commands are in GridEngine and Supervision.
* The loading of configuration from files and environment; what it admits is in
  GridPlan. Logging and request signing: no state that a property is about.
* The migrations: they declare the tables. What the models need of the constraints (one
  row per client order id, one fill per trade) is in OrderStore.
* The market stream's socket: its prices are the environment's choice in GridEngine.
* The start of `main()` before the engine exists (waiting for the streams, time offset,
  account), and the last-resort update of the status when the cleanup itself raises:
  straight-line code without a second actor.
