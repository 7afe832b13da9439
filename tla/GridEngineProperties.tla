------------------------ MODULE GridEngineProperties ------------------------
(***************************************************************************)
(* What is checked of the grid engine, and what is proved in               *)
(* GridEngineProofs, GridEngineTracking and GridEngineCalm, with the       *)
(* inductive invariants of the proofs.                                     *)
(***************************************************************************)
EXTENDS GridEngine

\* Orders of the engine, not the bootstrap or a cancelAll: the ids a report still
\* to be dispatched has finished, the orders queued for sending or open, and the
\* SELL orders among them.
Finishing == Pending("FILLED") \cup Pending("EXPIRED") \cup Pending("REJECTED")
Working   == {o \in Queued \cup book : ~OffGrid(o)}
Sells     == {o \in Working : o.side = "SELL"}

\* The type invariant.
TypeOK ==
    /\ status \in Statuses
    /\ waiter \in {"idle", "waiting", "cleared", "done"} /\ initialized \in BOOLEAN
    /\ cursor \in Lo - 1 .. Hi /\ budget \in 0 .. Hi
    /\ levelOrders \in [Levels -> Cid \cup {NoCid}]
    /\ DOMAIN orders \subseteq Cid
    /\ \A c \in DOMAIN orders : orders[c] \in [level : Levels, side : Sides \cup {"ANCHOR"}]
    /\ missed \in [Levels -> Sides \cup {"ANCHOR", "NONE"}]
    /\ acked \subseteq Cid
    /\ cycleSeq \in Nat /\ orderSeq \in Nat
    /\ bootCid \in Cid \cup {NoCid}
    /\ sendq \in Seq(WireOrder)
    /\ events \in Seq(Report)
    /\ book \subseteq WireOrder /\ IsFiniteSet(book)
    /\ gap \in Lo - 1 .. Hi
    /\ credit \in Int

\* Anti-double (engine.py _submit_level_order): no two orders for one grid line
\* are ever on their way to the exchange or open there at the same time.
OneOrderPerLevel ==
    /\ \A o, p \in Working : o.level = p.level => o = p
    /\ \A i, j \in DOMAIN sendq : sendq[i] = sendq[j] /\ ~OffGrid(sendq[i]) => i = j
    /\ \A o \in Working : o \notin Queued \/ o \notin book

\* The level map is complete: an order that is on its way, open, or finished by
\* a report still to be dispatched is the order registered on its grid line.
LevelTracked ==
    /\ \A o \in Working : levelOrders[o.level] = o.cid
    /\ \A c \in Finishing \cap DOMAIN orders : levelOrders[orders[c].level] = c

\* The level map is exact: an order registered on a grid line is really on its
\* way, open, or finished by a report still to be dispatched, so no line is
\* blocked by an order that is gone.
NoDeadHolder ==
    \A l \in Levels : levelOrders[l] # NoCid =>
        \/ \E o \in Working : o.cid = levelOrders[l]
        \/ levelOrders[l] \in Finishing

\* No fill is answered twice and no level placed twice: the SELL orders on their
\* way or open never outnumber the SELL levels paid for at the start or by the
\* bootstrap, with the BUYs filled since and less the SELLs filled.  It counts
\* orders; how much base they offer is GridInventory's.  (_on_order_filled,
\* _on_bootstrap_filled)
OneSellPerBuy == Cardinality(Sells) <= credit

\* The step puts an order, not a cancelAll, into the send queue.
NewOrder == Len(sendq') > Len(sendq) /\ sendq'[Len(sendq')] # CancelAll

\* Only a running engine submits: in every other status no handler puts an
\* order into the send queue.
SubmitsOnlyRunning == [][NewOrder => status = "RUNNING"]_vars

\* The engine takes a sequence number only for an order the router queues.
NewId == orderSeq' # orderSeq => sendq' # sendq

\* No order is lost in the router (OrderRouter.submit_order drops an id that was
\* submitted before, after the engine has registered it on its line): the ids of
\* all orders are different, although the number in them counts to 99 only.
NothingDropped == [][NewId]_vars

\* Why only a running engine submits: the placing loop runs in a running engine
\* only, and no report is ever taken for the bootstrap's.
PlacingRuns == bootCid = NoCid /\ (cursor # 0 => status = "RUNNING")

-------------------------------------------------------------------------------
(* Why the level map is complete *)

\* The id of an order on a grid line, not of the bootstrap.
GridCid(c) == c.side \in {"B", "S"}

Terminal == {"FILLED", "EXPIRED", "REJECTED"}

\* Order o, not the bootstrap, is known to the engine and registered on its line.
Registered(m, ord, o) ==
    /\ o.cid \in DOMAIN ord
    /\ ord[o.cid] = [level |-> o.level, side |-> o.side]
    /\ m[o.level] = o.cid

\* The level map m and the order map ord agree with the send queue sq, the book
\* bk and the undispatched reports ev: an order is in one of the three places
\* only, and wherever it is it is the one registered on its line.
Consistent(m, ord, sq, bk, ev) ==
    /\ \A c \in DOMAIN ord : GridCid(c)
    /\ \A i \in DOMAIN sq : IF OffGrid(sq[i]) THEN ~GridCid(sq[i].cid)
                             ELSE Registered(m, ord, sq[i])
    /\ \A o \in bk : IF OffGrid(o) THEN ~GridCid(o.cid) ELSE Registered(m, ord, o)
    /\ \A i \in DOMAIN sq, o \in bk : ~OffGrid(o) => sq[i].cid # o.cid
    /\ \A i, j \in DOMAIN sq : ~OffGrid(sq[i]) /\ sq[i].cid = sq[j].cid => i = j
    /\ \A i \in DOMAIN ev : ev[i].type \in Terminal /\ GridCid(ev[i].cid) =>
          /\ ev[i].cid \in DOMAIN ord
          /\ m[ord[ev[i].cid].level] = ev[i].cid
          /\ \A j \in DOMAIN sq : sq[j].cid # ev[i].cid
          /\ \A o \in bk : o.cid # ev[i].cid
          /\ \A j \in DOMAIN ev : ev[j].type \in Terminal /\ ev[j].cid = ev[i].cid => i = j

\* Every id the engine has made is older than the next one.
Fresh(ord, seq) == \A c \in DOMAIN ord : c.seq <= seq

Tracked == Consistent(levelOrders, orders, sendq, book, events)

\* The inductive invariant behind LevelTracked and OneOrderPerLevel where levels
\* may be missed and tried again.  It speaks of the orders submitted before the
\* sequence number in the id wraps around, for a second try may then get the id of
\* another order of its cycle.
TrackInv == orderSeq < SeqMod => Fresh(orders, orderSeq) /\ Tracked

-------------------------------------------------------------------------------
(* Why the level map is exact *)

\* The order registered on a line was submitted for that line, and is queued, in
\* the book or finished by an undispatched report.
Held(m, ord, sq, bk, ev) ==
    \A l \in Levels : m[l] # NoCid =>
        /\ m[l] \in DOMAIN ord /\ ord[m[l]].level = l
        /\ \/ \E i \in DOMAIN sq : sq[i].cid = m[l]
           \/ \E o \in bk : o.cid = m[l]
           \/ \E i \in DOMAIN ev : ev[i].type \in Terminal /\ ev[i].cid = m[l]

\* Nobody has canceled anything, and the engine only waits to be initialized.
Undisturbed ==
    /\ \/ status = "RUNNING"
       \/ status = "INITIALIZING" /\ DOMAIN orders = {} /\ cursor = 0 /\ bootCid = NoCid
    /\ ~GridCid(bootCid)
    /\ \A i \in DOMAIN events : events[i].type # "CANCELED"
    /\ \A i \in DOMAIN sendq : sendq[i].side # "CANCEL_ALL"

\* What the environment must not do for the level map to be exact: leave an order
\* without a report, cancel one by hand, or make the engine ignore a fill.
Faithful == Env \cap {"slow_ack", "no_report", "user_cancel", "pause", "stop"} = {}

\* The inductive invariant behind NoDeadHolder, in a faithful environment, for the
\* same orders as TrackInv.
HoldInv ==
    /\ Undisturbed
    /\ orderSeq < SeqMod => Held(levelOrders, orders, sendq, book, events)

-------------------------------------------------------------------------------
(* Why no fill is answered twice *)

\* What the environment must not do: move the price over a line whose order is on
\* its way, or leave an order waiting 30 s for its NEW report.
Calm == Env \cap {"jump", "slow_ack"} = {}

Undispatched == {events[i] : i \in DOMAIN events}

\* No order on its way crosses the price, so the exchange refuses the bootstrap
\* only and no level is ever missed; before the SELL levels are placed the price
\* stays below them.
NothingCrosses ==
    /\ \A o \in Working : o.side \in Sides
    /\ \A o \in Queued : OffGrid(o) \/ MakerSafe(o.level, o.side)
    /\ \A c \in DOMAIN orders : orders[c].side \in Sides
    /\ \A r \in Undispatched : r.type \in {"EXPIRED", "REJECTED"} => ~GridCid(r.cid)
    /\ \A r \in Undispatched : r.type = "FILLED" /\ r.cid \in DOMAIN orders =>
          MakerSafe(CounterLevel(orders[r.cid]), CounterSide(orders[r.cid]))
    /\ \A l \in Levels : missed[l] = "NONE"
    /\ ~initialized \/ cursor # 0 \/ bootCid # NoCid => gap <= 0
    /\ ~initialized \/ cursor < 0 => gap >= -1

\* The bootstrap under way has an id of its own, newer than all reports.
BootTracked ==
    /\ ~GridCid(bootCid)
    /\ ~initialized => DOMAIN orders = {} /\ cursor = 0 /\ bootCid = NoCid
    /\ InventoryMode = "prebalanced" => bootCid = NoCid
    /\ \A o \in Queued \cup book : o.cid.side = "BOOT" => o.cid.seq <= orderSeq
    /\ \A r \in Undispatched : r.type = "FILLED" /\ r.cid.side = "BOOT"
                             => r.cid.seq <= orderSeq

\* The BUY orders whose fill is still to be answered by a SELL order.
Owed == {c \in Pending("FILLED") \cap DOMAIN orders : orders[c].side = "BUY"}

\* SELL orders the placing loop is still to place.
Reserved ==
    IF ~initialized \/ cursor < 0 THEN IF InventoryMode = "prebalanced" THEN Hi ELSE 0
    ELSE IF cursor = 0 THEN 0
    ELSE IF InventoryMode = "prebalanced" THEN Hi - cursor + 1 ELSE budget

\* SELL orders that are out, owed to a fill or reserved for the placing loop.
Bound == Cardinality(Sells) + Cardinality(Owed) + Reserved

\* They are paid for, and so are those that an undispatched fill of the bootstrap
\* is going to make the placing loop place.
Credited ==
    /\ Bound <= credit
    /\ \A r \in Undispatched : r.type = "FILLED" /\ r.cid = bootCid
                             => Bound + r.qty <= credit

\* Why no id is ever repeated: a fill begins a cycle of its own, and the orders of
\* cycle 0 are those the placing loop has left behind.
IdsSpent ==
    /\ cursor # 0 => bootCid = NoCid
    /\ \A c \in DOMAIN orders : c.cycle <= cycleSeq
    /\ \A c \in DOMAIN orders : c.cycle = 0 =>
          IF c.side = "B" THEN cursor >= 0 \/ cursor < -c.lvl
          ELSE bootCid = NoCid /\ (cursor = 0 \/ cursor > c.lvl)

\* The inductive invariant behind OneSellPerBuy and NothingDropped, in a calm
\* environment.  No level is missed there, so that, unlike TrackInv, it needs no bound.
CalmInv == Tracked /\ IdsSpent /\ NothingCrosses /\ BootTracked /\ Credited

\* The inductive invariant behind NoDeadHolder where the router drops no order.
ExactInv == Undisturbed /\ Held(levelOrders, orders, sendq, book, events)

-------------------------------------------------------------------------------
(* Refinement of the ladder *)

\* The initial placement or the bootstrap is still to place line l.
Planned(l) ==
    \/ ~initialized /\ l # 0
    \/ l < 0 /\ l <= cursor /\ cursor < 0
    \/ l > 0 /\ (cursor < 0 \/ cursor \in 1 .. l \/ bootCid # NoCid)

\* The side of the order line l has or is due to get.
Due(l) ==
    IF \E o \in Working : o.level = l
    THEN (CHOOSE o \in Working : o.level = l).side
    ELSE IF \E c \in Pending("FILLED") \cap DOMAIN orders : CounterLevel(orders[c]) = l
    THEN CounterSide(orders[CHOOSE c \in Pending("FILLED") \cap DOMAIN orders :
                              CounterLevel(orders[c]) = l])
    ELSE IF Planned(l) THEN GridSide(l) ELSE "NONE"

Slots == [l \in Levels |-> Due(l)]

Ladder == INSTANCE GridLadder WITH slot <- Slots

\* In a regular run the engine implements the ladder: each fill moves the hole
\* by one line, and nothing else does.
ImplementsLadder == Ladder!Spec

-------------------------------------------------------------------------------
(* Why the engine implements the ladder *)

\* The grid's orders whose fill is still to be answered.
Promised == Pending("FILLED") \cap DOMAIN orders

\* The placing loop has the base for all levels it is still to place, and so will
\* the loop that the bootstrap's fill starts.
LoopFunded ==
    /\ cursor # 0 => bootCid = NoCid
    /\ initialized /\ InventoryMode = "prebalanced" => budget = Hi
    /\ InventoryMode # "prebalanced" /\ cursor > 0 => budget = Hi - cursor + 1
    /\ \A r \in Undispatched : r.type = "FILLED" /\ ~GridCid(r.cid) => r.qty = Hi

\* An undispatched fill that still holds the line another one is to be answered on
\* is dispatched before it.
FillsInTurn(ord, ev) ==
    \A i, j \in DOMAIN ev :
        /\ ev[i].type = "FILLED" /\ ev[i].cid \in DOMAIN ord
        /\ ev[j].type = "FILLED" /\ ev[j].cid \in DOMAIN ord
        /\ ord[ev[j].cid].level = CounterLevel(ord[ev[i].cid])
        => j < i

\* The line a fill is to be answered on has no order and is not due another one.
LinesApart ==
    /\ \A o \in book : OffGrid(o) \/ MakerSafe(o.level, o.side)
    /\ \A l \in Levels : Planned(l) => levelOrders[l] = NoCid
    /\ \A c \in Promised : LET l == CounterLevel(orders[c])
                          IN  /\ l \in Levels /\ ~Planned(l)
                              /\ \A o \in Working : o.level # l
                              /\ \A d \in Promised : CounterLevel(orders[d]) = l => d = c
    /\ FillsInTurn(orders, events)

\* A regular run: the exchange may at most refuse the bootstrap.
Regular == Env \subseteq {"boot_refused"}

\* The inductive invariant behind ImplementsLadder, in a regular run: there is one
\* hole in the ladder, and the price is next to it.
LadderInv == LoopFunded /\ LinesApart /\ Ladder!TypeOK /\ Ladder!LadderShape

-------------------------------------------------------------------------------
(* Liveness of a regular run *)

\* A fill is answered: once its report is out, the counter order on the
\* neighbouring line gets into the exchange's book.
FillAnswered ==
    \A l \in Levels, side \in Sides :
        (\E c \in Pending("FILLED") \cap DOMAIN orders :
            CounterLevel(orders[c]) = l /\ CounterSide(orders[c]) = side)
        ~> (\E o \in book : o.level = l /\ o.side = side)

\* A bootstrap order leads to an order on every SELL level.
BootstrapAnswered ==
    \A l \in 1 .. Hi : bootCid # NoCid ~> \E o \in book : o.level = l /\ o.side = "SELL"

=============================================================================
