-------------------------- MODULE GridEngineTracking --------------------------
(***************************************************************************)
(* The level map tracks every order: where no order waits 30 s for its NEW *)
(* report and the router drops none, Tracked is inductive, and it implies  *)
(* LevelTracked and OneOrderPerLevel.  Where no order is lost and the bot  *)
(* just runs, the map is exact as well: no dead order holds a line.  The   *)
(* router drops none before the sequence number in the ids wraps around    *)
(* (TrackInv, HoldInv); GridEngineCalm shows where it never does.          *)
(***************************************************************************)
EXTENDS GridEngineProofs

-------------------------------------------------------------------------------
(* Moving orders and reports between the queue, the book and the stream *)

\* A report that ends no order of the grid does not disturb the maps.
LEMMA InertReport ==
  ASSUME NEW m, NEW ord, NEW sq, NEW bk, NEW ev \in Seq(Report), NEW r \in Report,
         r.type \notin Terminal \/ ~GridCid(r.cid),
         Consistent(m, ord, sq, bk, ev)
  PROVE  Consistent(m, ord, sq, bk, Append(ev, r))
<1> DEFINE ev2 == Append(ev, r)
<1>1. \A i \in DOMAIN ev2 : ev2[i].type \in Terminal /\ GridCid(ev2[i].cid)
                              => i \in DOMAIN ev /\ ev2[i] = ev[i]
  OBVIOUS
<1>2. \A i \in DOMAIN ev : \A j \in DOMAIN ev2 :
         /\ ev[i].type \in Terminal /\ GridCid(ev[i].cid)
         /\ ev2[j].type \in Terminal /\ ev2[j].cid = ev[i].cid
         => j \in DOMAIN ev /\ ev2[j] = ev[j]
  BY <1>1
<1> HIDE DEF ev2
<1> QED
  BY <1>1, <1>2 DEF Consistent

\* Nor does a cancellation of every open order, whatever the reports' order.
LEMMA BookEmptied ==
  ASSUME NEW m, NEW ord, NEW sq, NEW bk, NEW ev \in Seq(Report), NEW new \in Seq(Report),
         \A i \in DOMAIN new : new[i].type \notin Terminal,
         Consistent(m, ord, sq, bk, ev)
  PROVE  Consistent(m, ord, sq, {}, ev \o new)
<1> DEFINE ev2 == ev \o new
<1>1. \A i \in DOMAIN ev2 : \/ i \in DOMAIN ev /\ ev2[i] = ev[i]
                            \/ \E k \in DOMAIN new : ev2[i] = new[k]
  <2>1. \A i \in DOMAIN ev2 : i \in 1 .. Len(ev) \/ i - Len(ev) \in 1 .. Len(new)
    OBVIOUS
  <2>2. \A i \in 1 .. Len(ev) : ev2[i] = ev[i]
    OBVIOUS
  <2>3. \A i \in DOMAIN ev2 : i - Len(ev) \in 1 .. Len(new) => ev2[i] = new[i - Len(ev)]
    OBVIOUS
  <2> HIDE DEF ev2
  <2> QED
    BY <2>1, <2>2, <2>3
<1> HIDE DEF ev2
<1>2. \A i \in DOMAIN ev2 : ev2[i].type \in Terminal => i \in DOMAIN ev /\ ev2[i] = ev[i]
  BY <1>1
<1>3. Consistent(m, ord, sq, {}, ev2)
  BY <1>2 DEF Consistent
<1> QED
  BY <1>3 DEF ev2

\* The oldest report leaves the stream.
LEMMA ReportTaken ==
  ASSUME NEW m, NEW ord, NEW sq, NEW bk, NEW ev \in Seq(Report), ev # <<>>,
         Consistent(m, ord, sq, bk, ev)
  PROVE  Consistent(m, ord, sq, bk, Tail(ev))
<1>1. \A i \in DOMAIN Tail(ev) : i + 1 \in DOMAIN ev /\ Tail(ev)[i] = ev[i + 1]
  OBVIOUS
<1>2. \A i, j \in DOMAIN Tail(ev) : i \in Nat /\ j \in Nat /\ (i + 1 = j + 1 => i = j)
  OBVIOUS
<1> QED
  BY <1>1, <1>2 DEF Consistent

\* The oldest report ended the order registered on a line: once it is taken, the
\* line can be freed, for no other order is registered there.
LEMMA LineFreed ==
  ASSUME NEW m \in [Levels -> Cid \cup {NoCid}], NEW ord, NEW sq, NEW bk,
         NEW ev \in Seq(Report), ev # <<>>,
         \A d \in DOMAIN ord : ord[d] \in [level : Levels, side : Sides \cup {"ANCHOR"}],
         \A i \in DOMAIN sq : sq[i].level \in Levels,
         \A o \in bk : o.level \in Levels,
         Head(ev).type \in Terminal, Head(ev).cid \in DOMAIN ord,
         Consistent(m, ord, sq, bk, ev)
  PROVE  Consistent([m EXCEPT ![ord[Head(ev).cid].level] = NoCid], ord, sq, bk, Tail(ev))
<1> DEFINE c == Head(ev).cid
           k == ord[c].level
           m2 == [m EXCEPT ![k] = NoCid]
<1>1. Consistent(m, ord, sq, bk, Tail(ev))
  BY ReportTaken
<1>2. 1 \in DOMAIN ev /\ Head(ev) = ev[1]
  OBVIOUS
<1>3. /\ GridCid(c) /\ m[k] = c
      /\ \A j \in DOMAIN sq : sq[j].cid # c
      /\ \A o \in bk : o.cid # c
      /\ \A j \in DOMAIN ev : ev[j].type \in Terminal /\ ev[j].cid = c => 1 = j
  BY <1>2 DEF Consistent
<1>4. \A i \in DOMAIN Tail(ev) : i + 1 \in DOMAIN ev /\ Tail(ev)[i] = ev[i + 1] /\ i + 1 # 1
  OBVIOUS
<1>5. \A i \in DOMAIN Tail(ev) : Tail(ev)[i].type \in Terminal => Tail(ev)[i].cid # c
  BY <1>3, <1>4
<1>6. \A x \in Levels : x # k => m2[x] = m[x]
  OBVIOUS
<1> HIDE DEF c, k, m2
<1>7. \A i \in DOMAIN sq : ~OffGrid(sq[i]) => Registered(m2, ord, sq[i])
  BY <1>1, <1>3, <1>6 DEF Consistent, Registered
<1>8. \A o \in bk : ~OffGrid(o) => Registered(m2, ord, o)
  BY <1>1, <1>3, <1>6 DEF Consistent, Registered
<1>9. \A i \in DOMAIN Tail(ev) :
         Tail(ev)[i].type \in Terminal /\ GridCid(Tail(ev)[i].cid)
         => m2[ord[Tail(ev)[i].cid].level] = Tail(ev)[i].cid
  BY <1>1, <1>3, <1>5, <1>6 DEF Consistent
<1>10. Consistent(m2, ord, sq, bk, Tail(ev))
  BY <1>1, <1>7, <1>8, <1>9 DEF Consistent
<1> QED
  BY <1>10 DEF m2, k, c

-------------------------------------------------------------------------------
(* Submitting *)

\* What the queue holds are orders.
LEMMA QueueType ==
  ASSUME TypeOK
  PROVE  \A i \in DOMAIN sendq : /\ sendq[i] \in WireOrder
                                 /\ sendq[i].level \in Levels
                                 /\ sendq[i].cid \in Cid
<1>1. sendq \in Seq(WireOrder)
  BY DEF TypeOK
<1>2. \A i \in DOMAIN sendq : sendq[i] \in WireOrder
  BY <1>1
<1> QED
  BY <1>2 DEF WireOrder

\* A submission on a free line, or over a ghost, keeps the maps consistent.
LEMMA SubmitTracked ==
  ASSUME TypeOK, "slow_ack" \notin Env,
         NEW slots \in [Levels -> Cid \cup {NoCid}],
         NEW l \in Levels, NEW side \in Sides \cup {"ANCHOR"}, NEW c \in Nat,
         NEW ev \in Seq(Report),
         \A j \in DOMAIN ev : \E i \in DOMAIN events : ev[j] = events[i],
         Consistent(slots, orders, sendq, book, ev), NewId,
         SubmitLevelOrder(slots, l, side, c)
  PROVE  Consistent(levelOrders', orders', sendq', book, ev)
<1>1. CASE levelOrders' = slots /\ UNCHANGED <<orders, orderSeq, sendq>>
  BY <1>1
<1> DEFINE cid == MakeClientOrderId(side, l, c, orderSeq + 1)
           new == [cid |-> cid, level |-> l, side |-> side]
<1>2. CASE /\ slots[l] = NoCid \/ MayBeGhost(slots[l])
           /\ orderSeq' = orderSeq + 1
           /\ levelOrders' = [slots EXCEPT ![l] = cid]
           /\ orders' = [d \in DOMAIN orders \cup {cid} |->
                           IF d = cid THEN [level |-> l, side |-> side] ELSE orders[d]]
           /\ sendq' = IF cid \in DOMAIN orders THEN sendq ELSE Append(sendq, new)
  <2>1. orderSeq \in Nat /\ orderSeq' # orderSeq
    BY <1>2 DEF TypeOK
  <2>2. cid \in Cid /\ GridCid(cid)
    BY <2>1, CidType
  <2>3. cid \notin DOMAIN orders
    BY <1>2, <2>1 DEF NewId
  <2> HIDE DEF cid
  <2>5. /\ \A i \in DOMAIN sendq : sendq[i].cid # cid
        /\ \A o \in book : o.cid # cid
        /\ \A i \in DOMAIN ev : ev[i].type \in Terminal => ev[i].cid # cid
    <3>1. \A i \in DOMAIN sendq : ~GridCid(sendq[i].cid) \/ sendq[i].cid \in DOMAIN orders
      BY DEF Consistent, Registered
    <3>2. \A o \in book : ~GridCid(o.cid) \/ o.cid \in DOMAIN orders
      BY DEF Consistent, Registered
    <3>3. \A i \in DOMAIN ev : ev[i].type \in Terminal =>
             ~GridCid(ev[i].cid) \/ ev[i].cid \in DOMAIN orders
      BY DEF Consistent
    <3> QED
      BY <2>2, <2>3, <3>1, <3>2, <3>3
  <2>6. slots[l] \in Cid => ~InFlight(slots[l])
    BY <1>2, NoCidFresh DEF MayBeGhost
  <2>7. /\ \A i \in DOMAIN sendq : sendq[i].cid \in Cid => sendq[i].cid # slots[l]
        /\ \A o \in book : o.cid \in Cid => o.cid # slots[l]
        /\ \A i \in DOMAIN ev : ev[i].cid \in Cid => ev[i].cid # slots[l]
    BY <2>6 DEF InFlight, Queued
  <2>8. \A x \in Levels : /\ x # l => levelOrders'[x] = slots[x]
                          /\ x = l => levelOrders'[x] = cid
    BY <1>2
  <2>9. DOMAIN orders' = DOMAIN orders \cup {cid} /\ orders'[cid] = [level |-> l, side |-> side]
        /\ \A d \in DOMAIN orders : orders'[d] = orders[d]
    BY <1>2, <2>3
  <2>10. \A i \in DOMAIN sendq : sendq[i].level \in Levels /\ sendq[i].cid \in Cid
    BY QueueType
  <2>11. \A o \in book : o.level \in Levels /\ o.cid \in Cid
    BY DEF TypeOK, WireOrder
  <2>12. \A i \in DOMAIN ev : ev[i].cid \in Cid
    <3>1. \A i \in DOMAIN ev : ev[i] \in Report
      OBVIOUS
    <3> QED
      BY <3>1 DEF Report
  <2>13. \A i \in DOMAIN sendq : ~OffGrid(sendq[i]) => Registered(levelOrders', orders', sendq[i])
    BY <2>7, <2>8, <2>9, <2>10 DEF Consistent, Registered
  <2>14. \A o \in book : ~OffGrid(o) => Registered(levelOrders', orders', o)
    BY <2>7, <2>8, <2>9, <2>11 DEF Consistent, Registered
  <2>15. Registered(levelOrders', orders', new) /\ ~OffGrid(new)
    BY <2>8, <2>9 DEF Registered, OffGrid, IsBoot, Sides
  <2>16. \A i \in DOMAIN ev : ev[i].type \in Terminal /\ GridCid(ev[i].cid) =>
            /\ ev[i].cid \in DOMAIN orders'
            /\ levelOrders'[orders'[ev[i].cid].level] = ev[i].cid
    BY <2>7, <2>8, <2>9, <2>12 DEF Consistent, TypeOK
  <2>17. /\ sendq' = Append(sendq, new) /\ sendq \in Seq(WireOrder)
         /\ DOMAIN sendq' = DOMAIN sendq \cup {Len(sendq) + 1}
         /\ \A i \in DOMAIN sendq : sendq'[i] = sendq[i]
         /\ sendq'[Len(sendq) + 1] = new
    <3>1. sendq' = Append(sendq, new) /\ sendq \in Seq(WireOrder)
      BY <1>2, <2>3 DEF TypeOK
    <3> HIDE DEF new
    <3> QED
      BY <3>1
  <2>18. new.cid = cid
    OBVIOUS
  <2> HIDE DEF new
  <2>19. \A i \in DOMAIN sendq' : IF OffGrid(sendq'[i]) THEN ~GridCid(sendq'[i].cid)
                                   ELSE Registered(levelOrders', orders', sendq'[i])
    BY <2>13, <2>15, <2>17 DEF Consistent
  <2>20. \A i \in DOMAIN sendq', o \in book : ~OffGrid(o) => sendq'[i].cid # o.cid
    BY <2>5, <2>17, <2>18 DEF Consistent
  <2>21. \A i, j \in DOMAIN sendq' :
            ~OffGrid(sendq'[i]) /\ sendq'[i].cid = sendq'[j].cid => i = j
    BY <2>5, <2>17, <2>18 DEF Consistent
  <2>22. \A i \in DOMAIN ev : ev[i].type \in Terminal /\ GridCid(ev[i].cid) =>
            \A j \in DOMAIN sendq' : sendq'[j].cid # ev[i].cid
    BY <2>5, <2>17, <2>18 DEF Consistent
  <2>23. Consistent(levelOrders', orders', sendq', book, ev)
    BY <2>2, <2>9, <2>14, <2>16, <2>19, <2>20, <2>21, <2>22 DEF Consistent
  <2> QED
    BY <2>23
<1> QED
  BY <1>1, <1>2 DEF SubmitLevelOrder, SubmitOrder

\* So does the bootstrap order, which is on no line.
LEMMA BootstrapTracked ==
  ASSUME TypeOK, NEW type, ExecuteBootstrap(type), NEW ev,
         Consistent(levelOrders, orders, sendq, book, ev)
  PROVE  Consistent(levelOrders', orders', sendq', book, ev)
<1> DEFINE cid == [side |-> "BOOT", lvl |-> 0, cycle |-> 0, seq |-> orderSeq + 1]
           new == [cid |-> cid, level |-> 0,
                   side |-> IF type = "MARKET" THEN "MARKET" ELSE "LIMIT"]
<1>1. orders' = orders /\ levelOrders' = levelOrders
  BY DEF ExecuteBootstrap
<1>2. OffGrid(new) /\ ~GridCid(new.cid)
  BY DEF OffGrid, IsBoot, GridCid
<1>3. sendq' = Append(sendq, new) /\ sendq \in Seq(WireOrder)
  BY DEF ExecuteBootstrap, TypeOK
<1> HIDE DEF new, cid
<1>4. /\ DOMAIN sendq' = DOMAIN sendq \cup {Len(sendq) + 1}
      /\ \A i \in DOMAIN sendq : sendq'[i] = sendq[i]
      /\ sendq'[Len(sendq) + 1] = new
  BY <1>3
<1>5. \A o \in book : ~OffGrid(o) => GridCid(o.cid)
  BY DEF Consistent, Registered
<1>6. \A i \in DOMAIN sendq : ~OffGrid(sendq[i]) => GridCid(sendq[i].cid)
  BY DEF Consistent, Registered
<1> QED
  BY <1>1, <1>2, <1>4, <1>5, <1>6 DEF Consistent

-------------------------------------------------------------------------------
(* One step of the engine *)

\* The sequence number never goes back.
LEMMA SeqGrows ==
  ASSUME TypeOK, Next
  PROVE  orderSeq \in Nat /\ orderSeq' \in Nat /\ orderSeq <= orderSeq'
<1>1. orderSeq \in Nat
  BY DEF TypeOK
<1>2. orderSeq' = orderSeq \/ orderSeq' = orderSeq + 1
  BY DEF Next, Initialize, PlaceBuy, PlaceBootstrap, PlaceSell, DispatchNew, DispatchFilled,
         DispatchRejected, DispatchCanceled, RetryMissed, Pause, Resume, Stop,
         EmergencyStop, CancelAgain, RestCancel, MarkStopped, Command, WriterSend, Fill, FillBootstrap, UserCancel,
         PriceUp, PriceDown, PriceCross, SubmitLevelOrder, ExecuteBootstrap,
         OnBootstrapFilled, OnOrderFilled, OnBootstrapRejected, OnOrderRejected, mapVars
<1> QED
  BY <1>1, <1>2

\* Nothing the tracking depends on changes.
LEMMA QuietTracked ==
  ASSUME Tracked, UNCHANGED <<mapVars, sendq, book, events>>
  PROVE  Tracked'
BY DEF Tracked, mapVars

\* A command of the emergency stop is on no line.
LEMMA CancelQueued ==
  ASSUME TypeOK, Tracked, sendq' = Append(sendq, CancelAll),
         UNCHANGED <<mapVars, book, events>>
  PROVE  Tracked'
<1>1. sendq \in Seq(WireOrder)
  BY DEF TypeOK
<1>2. OffGrid(CancelAll) /\ ~GridCid(CancelAll.cid)
  BY DEF CancelAll, OffGrid, GridCid
<1> HIDE DEF CancelAll
<1>3. /\ DOMAIN sendq' = DOMAIN sendq \cup {Len(sendq) + 1}
      /\ \A i \in DOMAIN sendq : sendq'[i] = sendq[i]
      /\ sendq'[Len(sendq) + 1] = CancelAll
  BY <1>1
<1>4. \A o \in book : ~OffGrid(o) => GridCid(o.cid)
  BY DEF Tracked, Consistent, Registered
<1>5. \A i \in DOMAIN sendq : ~OffGrid(sendq[i]) => GridCid(sendq[i].cid)
  BY DEF Tracked, Consistent, Registered
<1>6. Consistent(levelOrders, orders, sendq, book, events)
  BY DEF Tracked
<1>7. Consistent(levelOrders, orders, sendq', book, events)
  <2>1. \A i \in DOMAIN sendq' : IF OffGrid(sendq'[i]) THEN ~GridCid(sendq'[i].cid)
                                ELSE Registered(levelOrders, orders, sendq'[i])
    BY <1>2, <1>3, <1>6 DEF Consistent
  <2>2. \A i \in DOMAIN sendq', o \in book : ~OffGrid(o) => sendq'[i].cid # o.cid
    BY <1>2, <1>3, <1>4, <1>6 DEF Consistent
  <2>3. \A i, j \in DOMAIN sendq' :
          ~OffGrid(sendq'[i]) /\ sendq'[i].cid = sendq'[j].cid => i = j
    BY <1>2, <1>3, <1>5, <1>6 DEF Consistent
  <2>4. \A i \in DOMAIN events : events[i].type \in Terminal /\ GridCid(events[i].cid) =>
          \A j \in DOMAIN sendq' : sendq'[j].cid # events[i].cid
    BY <1>2, <1>3, <1>6 DEF Consistent
  <2> QED
    BY <1>6, <2>1, <2>2, <2>3, <2>4 DEF Consistent
<1> QED
  BY <1>6, <1>7 DEF Tracked, mapVars

\* Commands and the emergency stop keep everything tracked.
LEMMA CommandTracked ==
  ASSUME TypeOK, Tracked,
         \/ Pause \/ Resume \/ Stop
         \/ EmergencyStop \/ CancelAgain \/ RestCancel \/ MarkStopped
  PROVE  Tracked'
<1>1. CASE Pause \/ Resume \/ Stop \/ MarkStopped
  BY <1>1, QuietTracked DEF Pause, Resume, Stop, MarkStopped, Command, marketVars
<1>2. CASE EmergencyStop \/ CancelAgain
  BY <1>2, CancelQueued DEF EmergencyStop, CancelAgain, Command, marketVars
<1>3. CASE RestCancel
  <2>1. UNCHANGED <<mapVars, sendq>>
    BY <1>3 DEF RestCancel, Command
  <2>2. CASE UNCHANGED <<book, events>>
    BY <2>1, <2>2, QuietTracked
  <2>3. CASE CancelBook
    <3>1. PICK new \in Seq(Report) : /\ events' = events \o new
                                     /\ \A i \in DOMAIN new : new[i].type = "CANCELED"
      BY <2>3, CancelType
    <3>2. \A i \in DOMAIN new : new[i].type \notin Terminal
      BY <3>1 DEF Terminal
    <3>3. book' = {} /\ events \in Seq(Report)
      BY <2>3 DEF CancelBook, TypeOK
    <3>4. Consistent(levelOrders, orders, sendq, {}, events \o new)
      BY <3>2, <3>3, BookEmptied DEF Tracked
    <3> QED
      BY <2>1, <3>1, <3>3, <3>4 DEF Tracked, mapVars
  <2> QED
    BY <1>3, <2>2, <2>3 DEF RestCancel
<1> QED
  BY <1>1, <1>2, <1>3

\* A submission outside a dispatch: every report of the stream stays.
LEMMA SubmitStepTracked ==
  ASSUME TypeOK, Tracked, "slow_ack" \notin Env, NewId,
         NEW l \in Levels, NEW side \in Sides \cup {"ANCHOR"}, NEW c \in Nat,
         SubmitLevelOrder(levelOrders, l, side, c), UNCHANGED <<book, events>>
  PROVE  Tracked'
<1>1. levelOrders \in [Levels -> Cid \cup {NoCid}] /\ events \in Seq(Report)
  BY DEF TypeOK
<1>2. \A j \in DOMAIN events : \E i \in DOMAIN events : events[j] = events[i]
  OBVIOUS
<1> QED
  BY <1>1, <1>2, SubmitTracked DEF Tracked

\* Start-up steps keep track of the orders they submit.
LEMMA StartTracked ==
  ASSUME TypeOK, Tracked, "slow_ack" \notin Env, NewId,
         Initialize \/ PlaceBuy \/ PlaceBootstrap \/ PlaceSell
  PROVE  Tracked'
<1>1. CASE Initialize
  BY <1>1, QuietTracked DEF Initialize, marketVars
<1>2. CASE PlaceBuy
  <2>1. cursor \in Levels /\ 0 \in Nat /\ "BUY" \in Sides
    BY <1>2, GridAssumption DEF PlaceBuy, Levels, Sides
  <2> QED
    BY <1>2, <2>1, SubmitStepTracked, QuietTracked DEF PlaceBuy, marketVars
<1>3. CASE PlaceBootstrap
  <2>1. UNCHANGED <<book, events>>
    BY <1>3 DEF PlaceBootstrap, marketVars
  <2>2. CASE ExecuteBootstrap(BootType)
    BY <2>1, <2>2, BootstrapTracked DEF Tracked
  <2>3. CASE UNCHANGED <<mapVars, bootCid, sendq>>
    BY <2>1, <2>3, QuietTracked
  <2> QED
    BY <1>3, <2>2, <2>3 DEF PlaceBootstrap
<1>4. CASE PlaceSell
  <2>1. cursor \in Levels /\ 0 \in Nat /\ "SELL" \in Sides
    BY <1>4, GridAssumption DEF PlaceSell, Levels, Sides
  <2>2. CASE budget = 0
    BY <1>4, <2>2, QuietTracked DEF PlaceSell, marketVars
  <2>3. CASE budget # 0
    BY <1>4, <2>1, <2>3, SubmitStepTracked DEF PlaceSell, marketVars
  <2> QED
    BY <2>2, <2>3
<1> QED
  BY <1>1, <1>2, <1>3, <1>4

\* So does the retry of a missed level.
LEMMA RetryTracked ==
  ASSUME TypeOK, Tracked, "slow_ack" \notin Env, NewId,
         NEW l \in Levels, RetryMissed(l)
  PROVE  Tracked'
<1>1. GridSide(l) \in Sides \cup {"ANCHOR"} /\ cycleSeq \in Nat
  BY DEF GridSide, Sides, TypeOK
<1> QED
  BY <1>1, SubmitStepTracked DEF RetryMissed, marketVars

\* A dispatched report frees its line before the answer is submitted.
LEMMA DispatchTracked ==
  ASSUME TypeOK, Tracked, "slow_ack" \notin Env, NewId, Dispatch
  PROVE  Tracked'
<1> DEFINE r == Head(events)
           ev == Tail(events)
<1>1. /\ events # <<>> /\ events \in Seq(Report) /\ events' = ev /\ book' = book
      /\ r \in Report /\ ev \in Seq(Report)
  BY EventsType DEF Dispatch, DispatchNew, DispatchFilled, DispatchRejected,
                    DispatchCanceled, Deliver, marketVars, TypeOK
<1>2. \A j \in DOMAIN ev : \E i \in DOMAIN events : ev[j] = events[i]
  <2>1. \A j \in DOMAIN ev : j + 1 \in DOMAIN events /\ ev[j] = events[j + 1]
    BY <1>1
  <2> QED
    BY <2>1
<1>3. Consistent(levelOrders, orders, sendq, book, ev)
  BY <1>1, ReportTaken DEF Tracked
<1>4. ASSUME UNCHANGED <<mapVars, sendq>> PROVE Tracked'
  BY <1>1, <1>3, <1>4 DEF Tracked, mapVars
<1>5. ASSUME r.cid \in DOMAIN orders, r.type \in Terminal
      PROVE  /\ [levelOrders EXCEPT ![orders[r.cid].level] = NoCid]
                   \in [Levels -> Cid \cup {NoCid}]
             /\ Consistent([levelOrders EXCEPT ![orders[r.cid].level] = NoCid],
                           orders, sendq, book, ev)
  <2>1. levelOrders \in [Levels -> Cid \cup {NoCid}]
    BY DEF TypeOK
  <2>2. \A x : [levelOrders EXCEPT ![x] = NoCid] \in [Levels -> Cid \cup {NoCid}]
    BY <2>1
  <2>3. /\ \A d \in DOMAIN orders : orders[d] \in [level : Levels, side : Sides \cup {"ANCHOR"}]
        /\ \A o \in book : o.level \in Levels
    BY DEF TypeOK, WireOrder
  <2> QED
    BY <1>1, <1>5, <2>1, <2>2, <2>3, QueueType, LineFreed DEF Tracked
<1>6. CASE DispatchNew
  BY <1>4, <1>6 DEF DispatchNew
<1>7. CASE DispatchFilled
  <2>1. r.type \in Terminal
    BY <1>7 DEF DispatchFilled, Deliver, Terminal
  <2>2. CASE UNCHANGED <<mapVars, sendq>>
    BY <1>4, <2>2
  <2>3. CASE OnOrderFilled(r.cid) /\ r.cid \in DOMAIN orders /\ cycleSeq' = cycleSeq + 1
    <3> DEFINE o == orders[r.cid]
               freed == [levelOrders EXCEPT ![o.level] = NoCid]
    <3>1. /\ freed \in [Levels -> Cid \cup {NoCid}]
          /\ Consistent(freed, orders, sendq, book, ev)
      BY <1>5, <2>1, <2>3
    <3>2. CounterSide(o) \in Sides \cup {"ANCHOR"} /\ cycleSeq + 1 \in Nat
      BY DEF CounterSide, Sides, TypeOK
    <3>3. CASE /\ CounterLevel(o) \in Levels
               /\ SubmitLevelOrder(freed, CounterLevel(o), CounterSide(o), cycleSeq + 1)
      <4> HIDE DEF freed, o, ev
      <4>1. Consistent(levelOrders', orders', sendq', book, ev)
        BY <1>1, <1>2, <1>3, <3>1, <3>2, <3>3, SubmitTracked
      <4> QED
        BY <1>1, <4>1 DEF Tracked
    <3>4. CASE levelOrders' = freed /\ UNCHANGED <<orders, orderSeq, sendq>>
      BY <1>1, <1>3, <3>1, <3>4 DEF Tracked
    <3>5. CASE UNCHANGED <<mapVars, cycleSeq, sendq>>
      BY <1>4, <3>5
    <3> QED
      BY <2>3, <3>3, <3>4, <3>5 DEF OnOrderFilled
  <2> QED
    BY <1>7, <2>2, <2>3 DEF DispatchFilled, OnBootstrapFilled, OnOrderFilled
<1>8. CASE DispatchRejected
  <2>1. r.type \in Terminal
    BY <1>8 DEF DispatchRejected, Deliver, Terminal
  <2>2. CASE UNCHANGED <<mapVars, sendq>>
    BY <1>4, <2>2
  <2>3. CASE ExecuteBootstrap("MARKET")
    BY <1>1, <1>3, <2>3, BootstrapTracked DEF Tracked
  <2>4. CASE OnOrderRejected(r.cid, r.type)
    BY <1>1, <1>3, <1>5, <2>1, <2>4 DEF OnOrderRejected, Tracked
  <2> QED
    BY <1>8, <2>2, <2>3, <2>4 DEF DispatchRejected, OnBootstrapRejected
<1>9. CASE DispatchCanceled
  BY <1>4, <1>9 DEF DispatchCanceled
<1> QED
  BY <1>6, <1>7, <1>8, <1>9 DEF Dispatch

-------------------------------------------------------------------------------
(* One step of the environment *)

\* The oldest order leaves the queue; no other place holds its id.
LEMMA OrderSent ==
  ASSUME NEW m, NEW ord, NEW sq \in Seq(WireOrder), NEW bk, NEW ev, sq # <<>>,
         Consistent(m, ord, sq, bk, ev)
  PROVE  /\ Consistent(m, ord, Tail(sq), bk, ev)
         /\ IF OffGrid(Head(sq)) THEN ~GridCid(Head(sq).cid)
            ELSE /\ Registered(m, ord, Head(sq))
                 /\ GridCid(Head(sq).cid)
                 /\ \A i \in DOMAIN Tail(sq) : Tail(sq)[i].cid # Head(sq).cid
                 /\ \A o \in bk : o.cid # Head(sq).cid
                 /\ \A i \in DOMAIN ev : ev[i].type \in Terminal => ev[i].cid # Head(sq).cid
<1> DEFINE tl == Tail(sq)
           hd == Head(sq)
<1>1. /\ 1 \in DOMAIN sq /\ hd = sq[1]
      /\ \A i \in DOMAIN tl : i + 1 \in DOMAIN sq /\ tl[i] = sq[i + 1] /\ i + 1 # 1
      /\ \A i, j \in DOMAIN tl : i + 1 = j + 1 => i = j
  OBVIOUS
<1> HIDE DEF tl, hd
<1>2. Consistent(m, ord, tl, bk, ev)
  BY <1>1 DEF Consistent
<1>3. CASE OffGrid(hd)
  BY <1>1, <1>2, <1>3 DEF Consistent, tl, hd
<1>4. CASE ~OffGrid(hd)
  <2>1. Registered(m, ord, hd) /\ GridCid(hd.cid)
    BY <1>1, <1>4 DEF Consistent, Registered
  <2>2. \A i \in DOMAIN tl : tl[i].cid # hd.cid
    BY <1>1, <1>4 DEF Consistent
  <2>3. \A o \in bk : o.cid # hd.cid
    <3>1. \A o \in bk : OffGrid(o) => ~GridCid(o.cid)
      BY DEF Consistent
    <3>2. \A o \in bk : ~OffGrid(o) => o.cid # hd.cid
      BY <1>1 DEF Consistent
    <3> QED
      BY <2>1, <3>1, <3>2
  <2>4. \A i \in DOMAIN ev : ev[i].type \in Terminal => ev[i].cid # hd.cid
    BY <1>1, <2>1 DEF Consistent
  <2> QED
    BY <1>2, <1>4, <2>1, <2>2, <2>3, <2>4 DEF tl, hd
<1> QED
  BY <1>3, <1>4

\* The report that ends an order which is neither queued nor open any more.
LEMMA OrderEnded ==
  ASSUME NEW m, NEW ord, NEW sq, NEW bk, NEW ev \in Seq(Report), NEW r \in Report,
         Consistent(m, ord, sq, bk, ev),
         r.cid \in DOMAIN ord, m[ord[r.cid].level] = r.cid,
         \A i \in DOMAIN sq : sq[i].cid # r.cid,
         \A o \in bk : o.cid # r.cid,
         \A i \in DOMAIN ev : ev[i].type \in Terminal => ev[i].cid # r.cid
  PROVE  Consistent(m, ord, sq, bk, Append(ev, r))
<1> DEFINE ev2 == Append(ev, r)
<1>1. /\ DOMAIN ev2 = DOMAIN ev \cup {Len(ev) + 1}
      /\ \A i \in DOMAIN ev : ev2[i] = ev[i]
      /\ ev2[Len(ev) + 1] = r
  OBVIOUS
<1> HIDE DEF ev2
<1>2. \A i, j \in DOMAIN ev2 :
         /\ ev2[i].type \in Terminal /\ GridCid(ev2[i].cid)
         /\ ev2[j].type \in Terminal /\ ev2[j].cid = ev2[i].cid
         => i = j
  BY <1>1 DEF Consistent
<1>3. \A i \in DOMAIN ev2 : ev2[i].type \in Terminal /\ GridCid(ev2[i].cid) =>
         /\ ev2[i].cid \in DOMAIN ord
         /\ m[ord[ev2[i].cid].level] = ev2[i].cid
         /\ \A j \in DOMAIN sq : sq[j].cid # ev2[i].cid
         /\ \A o \in bk : o.cid # ev2[i].cid
  BY <1>1 DEF Consistent
<1>4. Consistent(m, ord, sq, bk, ev2)
  BY <1>2, <1>3 DEF Consistent
<1> QED
  BY <1>4 DEF ev2

\* An order enters the book when neither the queue nor a report has its id.
LEMMA OrderRests ==
  ASSUME NEW m, NEW ord, NEW sq, NEW bk, NEW ev, NEW o,
         Consistent(m, ord, sq, bk, ev),
         IF OffGrid(o) THEN ~GridCid(o.cid)
         ELSE /\ Registered(m, ord, o)
              /\ \A i \in DOMAIN sq : sq[i].cid # o.cid
              /\ \A i \in DOMAIN ev : ev[i].type \in Terminal => ev[i].cid # o.cid
  PROVE  Consistent(m, ord, sq, bk \cup {o}, ev)
BY DEF Consistent

\* The exchange's answer to the order sent keeps everything tracked.
LEMMA WriterTracked ==
  ASSUME TypeOK, Tracked, WriterSend
  PROVE  Tracked'
<1> DEFINE o == Head(sendq)
           tl == Tail(sendq)
<1>1. /\ sendq \in Seq(WireOrder) /\ sendq # <<>> /\ sendq' = tl
      /\ UNCHANGED mapVars /\ events \in Seq(Report)
  BY DEF WriterSend, TypeOK
<1>2. o \in WireOrder
  BY <1>1
<1>3. /\ Consistent(levelOrders, orders, tl, book, events)
      /\ IF OffGrid(o) THEN ~GridCid(o.cid)
         ELSE /\ Registered(levelOrders, orders, o)
              /\ GridCid(o.cid)
              /\ \A i \in DOMAIN tl : tl[i].cid # o.cid
              /\ \A p \in book : p.cid # o.cid
              /\ \A i \in DOMAIN events : events[i].type \in Terminal => events[i].cid # o.cid
  BY <1>1, OrderSent DEF Tracked
<1>4. /\ Reports("NEW", o.cid) \in Report /\ Reports("NEW", o.cid).type \notin Terminal
      /\ \A t \in {"EXPIRED", "REJECTED"} :
           Reports(t, o.cid) \in Report /\ Reports(t, o.cid).cid = o.cid
  BY <1>2, GridAssumption DEF Reports, Report, Terminal, WireOrder
<1>5. o.cid \in Cid /\ BootYield \subseteq 0 .. Hi
  BY <1>2, GridAssumption DEF WireOrder, BootYield
<1> HIDE DEF o, tl
<1>6. ASSUME Consistent(levelOrders, orders, tl, book', events') PROVE Tracked'
  BY <1>1, <1>6 DEF Tracked, mapVars
<1>7. CASE UNCHANGED <<book, events>>
  BY <1>3, <1>6, <1>7
<1>8. CASE book' = book \cup {o} /\ events' = Append(events, Reports("NEW", o.cid))
  BY <1>1, <1>3, <1>4, <1>6, <1>8, InertReport, OrderRests
<1>9. CASE /\ UNCHANGED book
           /\ \E t \in {"EXPIRED", "REJECTED"} : events' = Append(events, Reports(t, o.cid))
  <2>1. PICK t \in {"EXPIRED", "REJECTED"} : events' = Append(events, Reports(t, o.cid))
    BY <1>9
  <2>2. CASE OffGrid(o)
    BY <1>1, <1>3, <1>4, <1>6, <1>9, <2>1, <2>2, InertReport
  <2>3. CASE ~OffGrid(o)
    <3>1. o.cid \in DOMAIN orders /\ levelOrders[orders[o.cid].level] = o.cid
      BY <1>3, <2>3 DEF Registered
    <3> QED
      BY <1>1, <1>3, <1>4, <1>6, <1>9, <2>1, <2>3, <3>1, OrderEnded
  <2> QED
    BY <2>2, <2>3
<1>10. CASE /\ o.side = "MARKET" /\ UNCHANGED book
            /\ \E q \in BootYield :
                 events' = events \o <<Reports("NEW", o.cid),
                                 [type |-> "FILLED", cid |-> o.cid, qty |-> q]>>
  <2>1. PICK q \in BootYield :
          events' = events \o <<Reports("NEW", o.cid),
                          [type |-> "FILLED", cid |-> o.cid, qty |-> q]>>
    BY <1>10
  <2> DEFINE new == Reports("NEW", o.cid)
             fill == [type |-> "FILLED", cid |-> o.cid, qty |-> q]
  <2>2. new \in Report /\ new.type \notin Terminal /\ fill \in Report
    BY <1>4, <1>5 DEF Report
  <2>3. ~GridCid(o.cid) /\ ~GridCid(fill.cid)
    BY <1>3, <1>10 DEF OffGrid, IsBoot
  <2> HIDE DEF new, fill
  <2>4. events' = Append(Append(events, new), fill) /\ Append(events, new) \in Seq(Report)
    BY <1>1, <2>1, <2>2 DEF new, fill
  <2>5. Consistent(levelOrders, orders, tl, book, Append(events, new))
    BY <1>1, <1>3, <2>2, InertReport
  <2>6. Consistent(levelOrders, orders, tl, book, Append(Append(events, new), fill))
    BY <2>2, <2>3, <2>4, <2>5, InertReport
  <2> QED
    BY <1>6, <1>10, <2>4, <2>6
<1>11. CASE CancelBook
  <2>1. PICK new \in Seq(Report) : /\ events' = events \o new
                                   /\ \A i \in DOMAIN new : new[i].type = "CANCELED"
    BY <1>11, CancelType
  <2>2. \A i \in DOMAIN new : new[i].type \notin Terminal
    BY <2>1 DEF Terminal
  <2>3. book' = {}
    BY <1>11 DEF CancelBook
  <2>4. Consistent(levelOrders, orders, tl, {}, events \o new)
    BY <1>1, <1>3, <2>2, BookEmptied
  <2> QED
    BY <1>6, <2>1, <2>3, <2>4
<1> QED
  BY <1>7, <1>8, <1>9, <1>10, <1>11 DEF WriterSend, Answer, o

\* An order that leaves the book is the only one there with its id.
LEMMA OrderLeaves ==
  ASSUME TypeOK, Tracked, NEW o \in book
  PROVE  /\ Consistent(levelOrders, orders, sendq, book \ {o}, events)
         /\ ~OffGrid(o) =>
              /\ Registered(levelOrders, orders, o)
              /\ \A i \in DOMAIN sendq : sendq[i].cid # o.cid
              /\ \A p \in book \ {o} : p.cid # o.cid
              /\ \A i \in DOMAIN events : events[i].type \in Terminal => events[i].cid # o.cid
         /\ OffGrid(o) => ~GridCid(o.cid)
<1>1. Consistent(levelOrders, orders, sendq, book \ {o}, events)
  BY DEF Tracked, Consistent
<1>2. OffGrid(o) => ~GridCid(o.cid)
  BY DEF Tracked, Consistent
<1>3. ASSUME ~OffGrid(o)
      PROVE  /\ Registered(levelOrders, orders, o)
             /\ \A i \in DOMAIN sendq : sendq[i].cid # o.cid
             /\ \A p \in book \ {o} : p.cid # o.cid
             /\ \A i \in DOMAIN events : events[i].type \in Terminal => events[i].cid # o.cid
  <2>1. Registered(levelOrders, orders, o) /\ GridCid(o.cid)
    BY <1>3 DEF Tracked, Consistent, Registered
  <2>2. \A i \in DOMAIN sendq : sendq[i].cid # o.cid
    BY <1>3 DEF Tracked, Consistent
  <2>3. ASSUME NEW p \in book \ {o} PROVE p.cid # o.cid
    <3>1. o \in WireOrder /\ p \in WireOrder
      BY DEF TypeOK
    <3>2. OffGrid(p) => ~GridCid(p.cid)
      BY DEF Tracked, Consistent
    <3>3. ~OffGrid(p) => Registered(levelOrders, orders, p)
      BY DEF Tracked, Consistent
    <3>4. CASE p.cid = o.cid
      <4>1. [level |-> p.level, side |-> p.side] = [level |-> o.level, side |-> o.side]
        BY <2>1, <3>2, <3>3, <3>4 DEF Registered
      <4>2. p = o
        BY <3>1, <3>4, <4>1 DEF WireOrder
      <4> QED
        BY <4>2
    <3> QED
      BY <3>4
  <2>4. \A i \in DOMAIN events : events[i].type \in Terminal => events[i].cid # o.cid
    BY <2>1 DEF Tracked, Consistent
  <2> QED
    BY <2>1, <2>2, <2>3, <2>4
<1> QED
  BY <1>1, <1>2, <1>3

\* Fills, cancellations and price moves keep everything tracked.
LEMMA MarketTracked ==
  ASSUME TypeOK, Tracked,
         \/ PriceUp \/ PriceDown
         \/ \E o \in book : Fill(o) \/ FillBootstrap(o) \/ UserCancel(o)
  PROVE  Tracked'
<1>1. CASE PriceUp \/ PriceDown
  BY <1>1, QuietTracked DEF PriceUp, PriceDown, PriceCross
<1>2. ASSUME NEW o \in book, Fill(o) \/ FillBootstrap(o) \/ UserCancel(o) PROVE Tracked'
  <2>1. /\ book' = book \ {o} /\ UNCHANGED <<mapVars, sendq>>
        /\ events \in Seq(Report) /\ o.cid \in Cid
    BY <1>2 DEF Fill, FillBootstrap, UserCancel, TypeOK, WireOrder
  <2>2. ASSUME Consistent(levelOrders, orders, sendq, book \ {o}, events') PROVE Tracked'
    BY <2>1, <2>2 DEF Tracked, mapVars
  <2>3. CASE Fill(o)
    <3>1. /\ ~OffGrid(o) /\ events' = Append(events, Reports("FILLED", o.cid))
          /\ Reports("FILLED", o.cid) \in Report /\ Reports("FILLED", o.cid).cid = o.cid
      BY <2>1, <2>3, GridAssumption DEF Fill, OffGrid, IsBoot, Sides, Reports, Report
    <3>2. o.cid \in DOMAIN orders /\ levelOrders[orders[o.cid].level] = o.cid
      <4>1. Registered(levelOrders, orders, o)
        BY <3>1, OrderLeaves
      <4>2. levelOrders[[level |-> o.level, side |-> o.side].level] = o.cid
        BY <4>1 DEF Registered
      <4> QED
        BY <4>1, <4>2 DEF Registered
    <3>3. Consistent(levelOrders, orders, sendq, book \ {o}, events')
      BY <2>1, <3>1, <3>2, OrderEnded, OrderLeaves
    <3> QED
      BY <2>2, <3>3
  <2>4. CASE FillBootstrap(o)
    <3>1. PICK q \in BootYield :
            events' = Append(events, [type |-> "FILLED", cid |-> o.cid, qty |-> q])
      BY <2>4 DEF FillBootstrap
    <3>2. [type |-> "FILLED", cid |-> o.cid, qty |-> q] \in Report
      BY <2>1, GridAssumption DEF Report, BootYield
    <3>3. ~GridCid(o.cid)
      BY <2>4, OrderLeaves DEF FillBootstrap, OffGrid, IsBoot
    <3>4. Consistent(levelOrders, orders, sendq, book \ {o}, events')
      BY <2>1, <3>1, <3>2, <3>3, InertReport, OrderLeaves
    <3> QED
      BY <2>2, <3>4
  <2>5. CASE UserCancel(o)
    <3>1. /\ events' = Append(events, Reports("CANCELED", o.cid))
          /\ Reports("CANCELED", o.cid) \in Report
          /\ Reports("CANCELED", o.cid).type \notin Terminal
      BY <2>1, <2>5, GridAssumption DEF UserCancel, Reports, Report, Terminal
    <3>2. Consistent(levelOrders, orders, sendq, book \ {o}, events')
      BY <2>1, <3>1, InertReport, OrderLeaves
    <3> QED
      BY <2>2, <3>2
  <2> QED
    BY <1>2, <2>3, <2>4, <2>5
<1> QED
  BY <1>1, <1>2

-------------------------------------------------------------------------------
(* The level map is exact *)

\* More reports, and more orders queued or open, hold no less.
LEMMA HeldMore ==
  ASSUME NEW m, NEW ord, NEW sq, NEW bk, NEW ev \in Seq(Report), NEW bk2,
         NEW new \in Seq(Report), bk \subseteq bk2,
         Held(m, ord, sq, bk, ev)
  PROVE  Held(m, ord, sq, bk2, ev \o new)
<1> DEFINE ev2 == ev \o new
<1>1. \A i \in DOMAIN ev : i \in DOMAIN ev2 /\ ev2[i] = ev[i]
  OBVIOUS
<1> HIDE DEF ev2
<1>2. Held(m, ord, sq, bk2, ev2)
  BY <1>1 DEF Held
<1> QED
  BY <1>2 DEF ev2

\* The line of a dispatched report that ended its order is freed; a report that
\* ended no order of the grid held none.
LEMMA HeldTaken ==
  ASSUME NEW m \in [Levels -> Cid \cup {NoCid}], NEW ord, NEW sq, NEW bk,
         NEW ev \in Seq(Report), ev # <<>>,
         Held(m, ord, sq, bk, ev)
  PROVE  /\ Head(ev).type \notin Terminal \/ Head(ev).cid \notin DOMAIN ord
               => Held(m, ord, sq, bk, Tail(ev))
         /\ Held([m EXCEPT ![ord[Head(ev).cid].level] = NoCid], ord, sq, bk, Tail(ev))
<1> DEFINE c == Head(ev).cid
           tl == Tail(ev)
           m2 == [m EXCEPT ![ord[c].level] = NoCid]
<1>1. \A i \in DOMAIN ev : ev[i] = Head(ev) \/ \E j \in DOMAIN tl : tl[j] = ev[i]
  <2>1. \A i \in DOMAIN ev : i # 1 => i - 1 \in DOMAIN tl /\ tl[i - 1] = ev[i]
    OBVIOUS
  <2>2. ev[1] = Head(ev)
    OBVIOUS
  <2> QED
    BY <2>1, <2>2
<1>2. \A l \in Levels : /\ l = ord[c].level => m2[l] = NoCid
                        /\ l # ord[c].level => m2[l] = m[l]
  OBVIOUS
<1> HIDE DEF tl, m2
<1>3. ASSUME c \notin DOMAIN ord \/ Head(ev).type \notin Terminal
      PROVE  Held(m, ord, sq, bk, tl)
  BY <1>1, <1>3 DEF Held
<1>4. Held(m2, ord, sq, bk, tl)
  BY <1>1, <1>2 DEF Held
<1> QED
  BY <1>3, <1>4 DEF tl, m2

\* A new order holds its line from the queue.
LEMMA HeldSubmit ==
  ASSUME TypeOK, NewId,
         NEW slots \in [Levels -> Cid \cup {NoCid}],
         NEW l \in Levels, NEW side \in Sides \cup {"ANCHOR"}, NEW c \in Nat, NEW ev,
         Held(slots, orders, sendq, book, ev),
         SubmitLevelOrder(slots, l, side, c)
  PROVE  Held(levelOrders', orders', sendq', book, ev)
<1>1. CASE levelOrders' = slots /\ UNCHANGED <<orders, orderSeq, sendq>>
  BY <1>1
<1> DEFINE cid == MakeClientOrderId(side, l, c, orderSeq + 1)
           new == [cid |-> cid, level |-> l, side |-> side]
<1>2. CASE /\ orderSeq' = orderSeq + 1
           /\ levelOrders' = [slots EXCEPT ![l] = cid]
           /\ orders' = [d \in DOMAIN orders \cup {cid} |->
                           IF d = cid THEN [level |-> l, side |-> side] ELSE orders[d]]
           /\ sendq' = IF cid \in DOMAIN orders THEN sendq ELSE Append(sendq, new)
  <2>1. orderSeq' # orderSeq
    BY <1>2 DEF TypeOK
  <2>2. cid \notin DOMAIN orders
    BY <1>2, <2>1 DEF NewId
  <2>3. new.cid = cid
    OBVIOUS
  <2>4. sendq' = Append(sendq, new) /\ sendq \in Seq(WireOrder)
    BY <1>2, <2>2 DEF TypeOK
  <2> HIDE DEF new, cid
  <2>5. /\ \A i \in DOMAIN sendq : i \in DOMAIN sendq' /\ sendq'[i] = sendq[i]
        /\ Len(sendq) + 1 \in DOMAIN sendq' /\ sendq'[Len(sendq) + 1] = new
    BY <2>4
  <2>6. \A x \in Levels : /\ x # l => levelOrders'[x] = slots[x]
                          /\ x = l => levelOrders'[x] = cid
    BY <1>2
  <2>7. DOMAIN orders' = DOMAIN orders \cup {cid} /\ orders'[cid].level = l
        /\ \A d \in DOMAIN orders : orders'[d] = orders[d]
    BY <1>2, <2>2
  <2> QED
    BY <2>2, <2>3, <2>5, <2>6, <2>7 DEF Held
<1> QED
  BY <1>1, <1>2 DEF SubmitLevelOrder, SubmitOrder

\* The bootstrap, queued behind the others, holds no line.
LEMMA HeldBootstrap ==
  ASSUME TypeOK, NEW type, ExecuteBootstrap(type), NEW ev,
         Held(levelOrders, orders, sendq, book, ev)
  PROVE  /\ Held(levelOrders', orders', sendq', book, ev)
         /\ ~GridCid(bootCid')
<1> DEFINE new == [cid |-> [side |-> "BOOT", lvl |-> 0, cycle |-> 0, seq |-> orderSeq + 1],
                   level |-> 0, side |-> IF type = "MARKET" THEN "MARKET" ELSE "LIMIT"]
<1>1. /\ sendq' = Append(sendq, new) /\ sendq \in Seq(WireOrder)
      /\ UNCHANGED <<levelOrders, orders>> /\ ~GridCid(bootCid')
  BY DEF ExecuteBootstrap, TypeOK, GridCid
<1> HIDE DEF new
<1>2. \A i \in DOMAIN sendq : i \in DOMAIN sendq' /\ sendq'[i] = sendq[i]
  BY <1>1
<1> QED
  BY <1>1, <1>2 DEF Held

\* The maps are as they were, and nothing has left the queue, the book or the stream.
LEMMA QuietHeld ==
  ASSUME Held(levelOrders, orders, sendq, book, events),
         UNCHANGED <<mapVars, sendq, book, events>>
  PROVE  Held(levelOrders, orders, sendq, book, events)'
BY DEF Held, mapVars

\* Start-up steps and retries hold the lines they submit for.
LEMMA SubmittingHeld ==
  ASSUME TypeOK, NewId,
         Held(levelOrders, orders, sendq, book, events),
         \/ Initialize \/ PlaceBuy \/ PlaceBootstrap \/ PlaceSell
         \/ \E l \in Levels : RetryMissed(l)
  PROVE  Held(levelOrders, orders, sendq, book, events)'
<1>1. UNCHANGED <<book, events>> /\ levelOrders \in [Levels -> Cid \cup {NoCid}]
      /\ cycleSeq \in Nat /\ 0 \in Nat
  BY DEF Initialize, PlaceBuy, PlaceBootstrap, PlaceSell, RetryMissed, marketVars, TypeOK
<1>2. CASE UNCHANGED <<mapVars, sendq>>
  BY <1>1, <1>2, QuietHeld
<1>3. ASSUME NEW l \in Levels, NEW side \in Sides \cup {"ANCHOR"}, NEW c \in Nat,
             SubmitLevelOrder(levelOrders, l, side, c)
      PROVE  Held(levelOrders, orders, sendq, book, events)'
  BY <1>1, <1>3, HeldSubmit
<1>4. CASE PlaceBuy \/ PlaceSell
  <2>1. cursor \in Levels /\ "BUY" \in Sides /\ "SELL" \in Sides
    BY <1>4, GridAssumption DEF PlaceBuy, PlaceSell, Levels, Sides
  <2> QED
    BY <1>1, <1>2, <1>3, <1>4, <2>1 DEF PlaceBuy, PlaceSell
<1>5. ASSUME NEW l \in Levels, RetryMissed(l)
      PROVE  Held(levelOrders, orders, sendq, book, events)'
  <2>1. GridSide(l) \in Sides \cup {"ANCHOR"} /\ SubmitLevelOrder(levelOrders, l, GridSide(l), cycleSeq)
    BY <1>5 DEF GridSide, Sides, RetryMissed
  <2> QED
    BY <1>1, <1>3, <2>1
<1>6. CASE PlaceBootstrap
  <2>1. CASE ExecuteBootstrap(BootType)
    BY <1>1, <2>1, HeldBootstrap
  <2> QED
    BY <1>2, <1>6, <2>1 DEF PlaceBootstrap
<1> QED
  BY <1>2, <1>4, <1>5, <1>6 DEF Initialize

\* A dispatched report that ended an order frees its line before the answer.
LEMMA DispatchHeld ==
  ASSUME TypeOK, Tracked, Undisturbed, NewId,
         Held(levelOrders, orders, sendq, book, events), Dispatch
  PROVE  Held(levelOrders, orders, sendq, book, events)'
<1> DEFINE r == Head(events)
           ev == Tail(events)
           freed == [levelOrders EXCEPT ![orders[r.cid].level] = NoCid]
<1>1. /\ events # <<>> /\ events \in Seq(Report) /\ events' = ev /\ book' = book
      /\ r \in Report /\ levelOrders \in [Levels -> Cid \cup {NoCid}]
  BY EventsType DEF Dispatch, DispatchNew, DispatchFilled, DispatchRejected,
                    DispatchCanceled, Deliver, marketVars, TypeOK
<1>2. \A d \in DOMAIN orders : GridCid(d) /\ orders[d] \in [level : Levels,
                                                    side : Sides \cup {"ANCHOR"}]
  BY DEF Tracked, Consistent, TypeOK
<1>3. r.type \notin Terminal \/ r.cid \notin DOMAIN orders
        => Held(levelOrders, orders, sendq, book, ev)
  BY <1>1, HeldTaken
<1>4. Held(freed, orders, sendq, book, ev)
  BY <1>1, HeldTaken
<1>5. r.cid \in DOMAIN orders => status = "RUNNING" /\ r.cid # bootCid
  BY <1>2 DEF Undisturbed
<1>6. freed \in [Levels -> Cid \cup {NoCid}]
  BY <1>1
<1> HIDE DEF r, ev, freed
<1>7. ASSUME UNCHANGED <<mapVars, sendq>>, r.type \notin Terminal \/ r.cid \notin DOMAIN orders
      PROVE  Held(levelOrders, orders, sendq, book, events)'
  BY <1>1, <1>3, <1>7 DEF Held, mapVars
<1>8. CASE DispatchNew
  BY <1>7, <1>8 DEF DispatchNew, Deliver, Terminal, r
<1>9. CASE DispatchCanceled
  BY <1>7, <1>9 DEF DispatchCanceled, Deliver, Terminal, r
<1>10. CASE DispatchFilled
  <2>1. CASE r.cid \notin DOMAIN orders
    <3>1. UNCHANGED <<mapVars, sendq>>
      BY <1>10, <2>1 DEF DispatchFilled, OnBootstrapFilled, OnOrderFilled, r
    <3> QED
      BY <1>7, <2>1, <3>1
  <2>2. CASE r.cid \in DOMAIN orders
    <3> DEFINE o == orders[r.cid]
    <3>1. /\ cycleSeq' = cycleSeq + 1
          /\ IF CounterLevel(o) \in Levels
             THEN SubmitLevelOrder(freed, CounterLevel(o), CounterSide(o), cycleSeq + 1)
             ELSE levelOrders' = freed /\ UNCHANGED <<orders, orderSeq, sendq>>
      BY <1>5, <1>10, <2>2 DEF DispatchFilled, OnOrderFilled, r, freed
    <3>2. CounterSide(o) \in Sides \cup {"ANCHOR"} /\ cycleSeq + 1 \in Nat
      BY DEF CounterSide, Sides, TypeOK
    <3> HIDE DEF o
    <3>3. CASE CounterLevel(o) \in Levels
      BY <1>1, <1>2, <1>4, <1>6, <3>1, <3>2, <3>3, HeldSubmit
    <3>4. CASE CounterLevel(o) \notin Levels
      BY <1>1, <1>4, <3>1, <3>4
    <3> QED
      BY <3>3, <3>4
  <2> QED
    BY <2>1, <2>2
<1>11. CASE DispatchRejected
  <2>1. CASE r.cid \notin DOMAIN orders
    <3>1. UNCHANGED <<mapVars, sendq>> \/ OnBootstrapRejected
      BY <1>11, <2>1 DEF DispatchRejected, OnOrderRejected, mapVars, r
    <3>2. CASE ExecuteBootstrap("MARKET")
      BY <1>1, <1>3, <2>1, <3>2, HeldBootstrap
    <3> QED
      BY <1>7, <2>1, <3>1, <3>2 DEF OnBootstrapRejected
  <2>2. CASE r.cid \in DOMAIN orders
    <3>1. levelOrders' = freed /\ UNCHANGED <<orders, sendq>>
      BY <1>5, <1>11, <2>2 DEF DispatchRejected, OnOrderRejected, r, freed
    <3> QED
      BY <1>1, <1>4, <3>1
  <2> QED
    BY <2>1, <2>2
<1> QED
  BY <1>8, <1>9, <1>10, <1>11 DEF Dispatch

\* An order that arrives is in the book or reported, and a fill is reported.
LEMMA ExchangeHeld ==
  ASSUME TypeOK, Tracked, Undisturbed, Faithful,
         Held(levelOrders, orders, sendq, book, events),
         \/ WriterSend \/ PriceUp \/ PriceDown
         \/ \E o \in book : Fill(o) \/ FillBootstrap(o) \/ UserCancel(o)
  PROVE  Held(levelOrders, orders, sendq, book, events)'
<1>1. UNCHANGED <<levelOrders, orders>> /\ events \in Seq(Report)
      /\ \A d \in DOMAIN orders : GridCid(d)
  BY DEF WriterSend, PriceUp, PriceDown, PriceCross, Fill, FillBootstrap, UserCancel, mapVars,
     TypeOK, Tracked, Consistent
<1>2. CASE PriceUp \/ PriceDown
  BY <1>2, QuietHeld DEF PriceUp, PriceDown, PriceCross
<1>3. ASSUME WriterSend PROVE Held(levelOrders, orders, sendq, book, events)'
  <2> DEFINE o == Head(sendq)
             tl == Tail(sendq)
  <2>1. /\ sendq \in Seq(WireOrder) /\ sendq # <<>> /\ sendq' = tl /\ Answer(o)
    BY <1>3 DEF WriterSend, TypeOK, Faithful
  <2>2. o \in WireOrder /\ o.side # "CANCEL_ALL"
    <3>1. 1 \in DOMAIN sendq /\ o = sendq[1] /\ o \in WireOrder
      BY <2>1
    <3> QED
      BY <3>1 DEF Undisturbed
  <2>3. \A i \in DOMAIN sendq : sendq[i] = o \/ \E j \in DOMAIN tl : tl[j] = sendq[i]
    <3>1. \A i \in DOMAIN sendq : i # 1 => i - 1 \in DOMAIN tl /\ tl[i - 1] = sendq[i]
      BY <2>1
    <3>2. sendq[1] = o
      BY <2>1
    <3> QED
      BY <3>1, <3>2
  <2>4. OffGrid(o) => o.cid \notin DOMAIN orders
    <3>1. 1 \in DOMAIN sendq /\ o = sendq[1]
      BY <2>1
    <3> QED
      BY <1>1, <3>1 DEF Tracked, Consistent
  <2> HIDE DEF o, tl
  <2>5. PICK new \in Seq(Report), bk2 \in {book, book \cup {o}} :
          /\ events' = events \o new /\ book' = bk2
          /\ OffGrid(o) \/ o \in bk2 \/ \E i \in DOMAIN new : new[i].type \in Terminal
                                                            /\ new[i].cid = o.cid
    <3>1. o.cid \in Cid /\ BootYield \subseteq 0 .. Hi
      BY <2>2, GridAssumption DEF WireOrder, BootYield
    <3>2. ASSUME NEW t \in {"NEW", "EXPIRED", "REJECTED"},
                 events' = Append(events, Reports(t, o.cid))
          PROVE  /\ <<Reports(t, o.cid)>> \in Seq(Report)
                 /\ events' = events \o <<Reports(t, o.cid)>>
      <4>1. Reports(t, o.cid) \in Report
        BY <3>1, GridAssumption DEF Reports, Report
      <4> QED
        BY <1>1, <3>2, <4>1
    <3>3. CASE book' = book \cup {o} /\ events' = Append(events, Reports("NEW", o.cid))
      BY <3>2, <3>3
    <3>4. ASSUME NEW t \in {"EXPIRED", "REJECTED"}, book' = book,
                 events' = Append(events, Reports(t, o.cid))
          PROVE  \E new \in Seq(Report) :
                    /\ events' = events \o new
                    /\ \E i \in DOMAIN new : new[i].type \in Terminal /\ new[i].cid = o.cid
      <4> DEFINE new == <<Reports(t, o.cid)>>
      <4>1. new \in Seq(Report) /\ events' = events \o new
        BY <3>2, <3>4
      <4>2. 1 \in DOMAIN new /\ new[1].type \in Terminal /\ new[1].cid = o.cid
        BY DEF Reports, Terminal
      <4> QED
        BY <4>1, <4>2
    <3>5. ASSUME o.side = "MARKET", NEW q \in BootYield,
                 events' = events \o <<Reports("NEW", o.cid),
                                       [type |-> "FILLED", cid |-> o.cid, qty |-> q]>>
          PROVE  OffGrid(o) /\ \E new \in Seq(Report) : events' = events \o new
      <4> DEFINE n == Reports("NEW", o.cid)
                 f == [type |-> "FILLED", cid |-> o.cid, qty |-> q]
      <4>1. n \in Report /\ f \in Report
        BY <3>1, GridAssumption DEF Reports, Report
      <4> HIDE DEF n, f
      <4>2. <<n, f>> \in Seq(Report)
        BY <4>1
      <4> QED
        BY <3>5, <4>2 DEF OffGrid, IsBoot, n, f
    <3> QED
      BY <2>1, <2>2, <3>3, <3>4, <3>5 DEF Answer
  <2>6. Held(levelOrders, orders, sendq, bk2, events \o new)
    BY <1>1, <2>5, HeldMore
  <2>7. ASSUME NEW l \in Levels, levelOrders[l] = o.cid, o.cid \in DOMAIN orders
        PROVE  \/ \E p \in book' : p.cid = o.cid
               \/ \E i \in DOMAIN events' : events'[i].type \in Terminal /\ events'[i].cid = o.cid
    <3>1. CASE o \in bk2
      BY <2>5, <3>1
    <3>2. ASSUME NEW i \in DOMAIN new, new[i].type \in Terminal, new[i].cid = o.cid
          PROVE  \E k \in DOMAIN events' : events'[k] = new[i]
      <4>1. Len(events) + i \in DOMAIN events' /\ events'[Len(events) + i] = new[i]
        BY <1>1, <2>5, <3>2
      <4> QED
        BY <4>1
    <3> QED
      BY <2>4, <2>5, <2>7, <3>1, <3>2
  <2>8. Held(levelOrders, orders, sendq, book', events')
    BY <2>5, <2>6
  <2>9. Held(levelOrders, orders, tl, book', events')
    BY <2>3, <2>7, <2>8 DEF Held
  <2> QED
    BY <1>1, <2>1, <2>9
<1>4. ASSUME NEW o \in book, Fill(o) \/ FillBootstrap(o)
      PROVE  Held(levelOrders, orders, sendq, book, events)'
  <2>1. PICK r \in Report : /\ events' = Append(events, r) /\ r.type = "FILLED" /\ r.cid = o.cid
                            /\ sendq' = sendq /\ book' = book \ {o}
    <3>1. o.cid \in Cid /\ BootYield \subseteq 0 .. Hi
      BY GridAssumption DEF TypeOK, WireOrder, BootYield
    <3>2. \A q \in 0 .. Hi : [type |-> "FILLED", cid |-> o.cid, qty |-> q] \in Report
      BY <3>1 DEF Report
    <3>3. 0 \in 0 .. Hi
      BY GridAssumption
    <3> QED
      BY <1>4, <3>1, <3>2, <3>3 DEF Fill, FillBootstrap, Reports
  <2>2. /\ \A i \in DOMAIN events : i \in DOMAIN events' /\ events'[i] = events[i]
        /\ Len(events) + 1 \in DOMAIN events' /\ events'[Len(events) + 1] = r
    BY <1>1, <2>1
  <2> QED
    BY <1>1, <2>1, <2>2 DEF Held, Terminal
<1> QED
  BY <1>2, <1>3, <1>4 DEF UserCancel, Faithful

\* Nothing disturbs a faithful environment.
LEMMA UndisturbedStep ==
  ASSUME TypeOK, Undisturbed, Faithful, [Next]_vars
  PROVE  Undisturbed'
<1>1. sendq \in Seq(WireOrder) /\ events \in Seq(Report) /\ NoCid \notin Cid
      /\ ~GridCid(NoCid)
  BY NoCidFresh DEF TypeOK, GridCid, NoCid
<1>2. ~(Pause \/ Resume \/ Stop \/ EmergencyStop \/ CancelAgain \/ RestCancel \/ MarkStopped)
  BY DEF Pause, Resume, Stop, EmergencyStop, CancelAgain, RestCancel, MarkStopped, Command,
         Faithful
<1>3. \A i \in DOMAIN events : events[i] \in Report
  BY <1>1
<1>4. Dispatch => /\ events # <<>> /\ Head(events) = events[1] /\ 1 \in DOMAIN events
                  /\ Head(events).type # "CANCELED" /\ Head(events).cid # NoCid
                  /\ events' = Tail(events) /\ cursor = 0
  BY <1>1, <1>3 DEF Dispatch, DispatchNew, DispatchFilled, DispatchRejected, DispatchCanceled,
                    Deliver, Undisturbed, Report
<1>5. ASSUME NEW type, ExecuteBootstrap(type) PROVE ~GridCid(bootCid')
  BY <1>5 DEF ExecuteBootstrap, GridCid
\* status, order map, cursor and bootstrap
<1>6. /\ \/ status' = "RUNNING"
         \/ /\ status' = "INITIALIZING" /\ DOMAIN orders' = {} /\ cursor' = 0
            /\ bootCid' = NoCid
      /\ ~GridCid(bootCid')
  <2>1. CASE Initialize
    BY <2>1 DEF Initialize, Undisturbed
  <2>2. CASE PlaceBuy \/ PlaceSell
    BY <2>2, GridAssumption DEF PlaceBuy, PlaceSell, lifeVars, Undisturbed
  <2>3. CASE PlaceBootstrap
    BY <1>5, <2>3, GridAssumption DEF PlaceBootstrap, lifeVars, Undisturbed
  <2>4. CASE DispatchNew \/ DispatchCanceled
    BY <1>4, <2>4 DEF Dispatch, DispatchNew, DispatchCanceled, Deliver, loopVars, mapVars,
                      Undisturbed
  <2>5. CASE DispatchFilled
    BY <1>1, <1>4, <2>5 DEF Dispatch, DispatchFilled, OnBootstrapFilled, OnOrderFilled,
                            loopVars, mapVars, Undisturbed
  <2>6. CASE DispatchRejected
    BY <1>1, <1>4, <1>5, <2>6 DEF Dispatch, DispatchRejected, OnBootstrapRejected,
                                  OnOrderRejected, loopVars, mapVars, Undisturbed
  <2>7. CASE \E l \in Levels : RetryMissed(l)
    BY <2>7 DEF RetryMissed, lifeVars, Undisturbed
  <2>8. CASE \/ WriterSend \/ PriceUp \/ PriceDown
             \/ \E o \in book : Fill(o) \/ FillBootstrap(o) \/ UserCancel(o)
    BY <2>8 DEF WriterSend, PriceUp, PriceDown, PriceCross, Fill, FillBootstrap, UserCancel,
                lifeVars, loopVars, mapVars, Undisturbed
  <2>9. CASE UNCHANGED vars
    BY <2>9 DEF vars, lifeVars, loopVars, mapVars, Undisturbed
  <2> QED
    BY <1>2, <2>1, <2>2, <2>3, <2>4, <2>5, <2>6, <2>7, <2>8, <2>9 DEF Next
\* the send queue
<1>7. \A i \in DOMAIN sendq' : sendq'[i].side # "CANCEL_ALL"
  <2>1. CASE sendq' = sendq
    BY <2>1 DEF Undisturbed
  <2>2. CASE sendq # <<>> /\ sendq' = Tail(sendq)
    <3>1. \A i \in DOMAIN sendq' : i + 1 \in DOMAIN sendq /\ sendq'[i] = sendq[i + 1]
      BY <1>1, <2>2
    <3> QED
      BY <3>1 DEF Undisturbed
  <2>3. ASSUME NEW o, sendq' = Append(sendq, o), o.side # "CANCEL_ALL"
        PROVE  \A i \in DOMAIN sendq' : sendq'[i].side # "CANCEL_ALL"
    <3>1. \A i \in DOMAIN sendq' : \/ i \in DOMAIN sendq /\ sendq'[i] = sendq[i]
                                   \/ sendq'[i] = o
      BY <1>1, <2>3
    <3> QED
      BY <2>3, <3>1 DEF Undisturbed
  <2>4. ASSUME NEW slots, NEW l, NEW side, NEW c, side \in Sides \cup {"ANCHOR"},
               SubmitLevelOrder(slots, l, side, c)
        PROVE  \A i \in DOMAIN sendq' : sendq'[i].side # "CANCEL_ALL"
    <3> DEFINE o == [cid |-> MakeClientOrderId(side, l, c, orderSeq + 1), level |-> l,
                     side |-> side]
    <3>1. o.side # "CANCEL_ALL" /\ (sendq' = sendq \/ sendq' = Append(sendq, o))
      BY <2>4 DEF SubmitLevelOrder, SubmitOrder, Sides
    <3> HIDE DEF o
    <3> QED
      BY <2>1, <2>3, <3>1
  <2>5. ASSUME NEW type, ExecuteBootstrap(type)
        PROVE  \A i \in DOMAIN sendq' : sendq'[i].side # "CANCEL_ALL"
    <3> DEFINE o == [cid |-> [side |-> "BOOT", lvl |-> 0, cycle |-> 0, seq |-> orderSeq + 1],
                     level |-> 0, side |-> IF type = "MARKET" THEN "MARKET" ELSE "LIMIT"]
    <3>1. o.side # "CANCEL_ALL" /\ sendq' = Append(sendq, o)
      BY <2>5 DEF ExecuteBootstrap
    <3> HIDE DEF o
    <3> QED
      BY <2>3, <3>1
  <2>6. CASE Initialize \/ PlaceBuy \/ PlaceBootstrap \/ PlaceSell
    BY <2>1, <2>4, <2>5, <2>6 DEF Initialize, PlaceBuy, PlaceBootstrap, PlaceSell, Sides
  <2>7. CASE Dispatch
    <3>1. \A o : CounterSide(o) \in Sides
      BY DEF CounterSide, Sides
    <3> QED
      BY <2>1, <2>4, <2>5, <2>7, <3>1
      DEF Dispatch, DispatchNew, DispatchFilled, DispatchRejected, DispatchCanceled,
          OnBootstrapFilled, OnOrderFilled, OnBootstrapRejected, OnOrderRejected
  <2>8. CASE \E l \in Levels : RetryMissed(l)
    BY <2>4, <2>8 DEF RetryMissed, GridSide, Sides
  <2>9. CASE \/ WriterSend \/ PriceUp \/ PriceDown \/ UNCHANGED vars
             \/ \E o \in book : Fill(o) \/ FillBootstrap(o) \/ UserCancel(o)
    BY <2>1, <2>2, <2>9 DEF WriterSend, PriceUp, PriceDown, PriceCross, Fill, FillBootstrap,
                            UserCancel, vars
  <2> QED
    BY <1>2, <2>6, <2>7, <2>8, <2>9 DEF Next, Dispatch
\* the reports
<1>8. \A i \in DOMAIN events' : events'[i].type # "CANCELED"
  <2>1. CASE events' = events
    BY <2>1 DEF Undisturbed
  <2>2. CASE Dispatch
    <3>1. \A i \in DOMAIN events' : i + 1 \in DOMAIN events /\ events'[i] = events[i + 1]
      BY <1>1, <1>4, <2>2
    <3> QED
      BY <3>1 DEF Undisturbed
  <2>3. ASSUME NEW s \in Seq(Report), NEW r \in Report, r.type # "CANCELED",
               \A i \in DOMAIN s : s[i].type # "CANCELED"
        PROVE  /\ Append(s, r) \in Seq(Report)
               /\ \A i \in DOMAIN Append(s, r) : Append(s, r)[i].type # "CANCELED"
    BY <2>3
  <2>4. ASSUME NEW o \in WireOrder, NEW q \in BootYield
        PROVE  /\ \A t \in {"NEW", "EXPIRED", "REJECTED", "FILLED"} : Reports(t, o.cid) \in Report
               /\ [type |-> "FILLED", cid |-> o.cid, qty |-> q] \in Report
    BY GridAssumption DEF WireOrder, Reports, Report, BootYield
  <2>5. ASSUME NEW o \in book, Fill(o) \/ FillBootstrap(o) \/ UserCancel(o)
        PROVE  \A i \in DOMAIN events' : events'[i].type # "CANCELED"
    <3>1. o \in WireOrder /\ ~UserCancel(o) /\ \E q \in BootYield : TRUE
      BY GridAssumption DEF TypeOK, UserCancel, Faithful, BootYield
    <3>2. PICK r \in Report : events' = Append(events, r) /\ r.type = "FILLED"
      BY <2>4, <2>5, <3>1 DEF Fill, FillBootstrap, Reports
    <3> QED
      BY <1>1, <2>3, <3>2 DEF Undisturbed
  <2>6. CASE WriterSend
    <3> DEFINE o == Head(sendq)
    <3>1. 1 \in DOMAIN sendq /\ o = sendq[1] /\ o \in WireOrder /\ Answer(o)
      BY <1>1, <2>6 DEF WriterSend, Faithful
    <3>2. o.side # "CANCEL_ALL" /\ \E q \in BootYield : TRUE
      BY <3>1, GridAssumption DEF Undisturbed, BootYield
    <3> HIDE DEF o
    <3>3. ASSUME NEW t \in {"NEW", "EXPIRED", "REJECTED"},
                 events' = Append(events, Reports(t, o.cid))
          PROVE  \A i \in DOMAIN events' : events'[i].type # "CANCELED"
      <4>1. Reports(t, o.cid) \in Report /\ Reports(t, o.cid).type # "CANCELED"
        BY <2>4, <3>1, <3>2 DEF Reports
      <4> QED
        BY <1>1, <2>3, <3>3, <4>1 DEF Undisturbed
    <3>4. ASSUME NEW q \in BootYield,
                 events' = events \o <<Reports("NEW", o.cid),
                                       [type |-> "FILLED", cid |-> o.cid, qty |-> q]>>
          PROVE  \A i \in DOMAIN events' : events'[i].type # "CANCELED"
      <4> DEFINE n == Reports("NEW", o.cid)
                 f == [type |-> "FILLED", cid |-> o.cid, qty |-> q]
      <4>1. n \in Report /\ f \in Report /\ n.type # "CANCELED" /\ f.type # "CANCELED"
        BY <2>4, <3>1 DEF Reports
      <4> HIDE DEF n, f
      <4>2. events' = Append(Append(events, n), f)
        BY <1>1, <3>4, <4>1 DEF n, f
      <4>3. /\ Append(events, n) \in Seq(Report)
            /\ \A i \in DOMAIN Append(events, n) : Append(events, n)[i].type # "CANCELED"
        BY <1>1, <2>3, <4>1 DEF Undisturbed
      <4> QED
        BY <2>3, <4>1, <4>2, <4>3
    <3> QED
      BY <3>1, <3>2, <3>3, <3>4 DEF Answer
  <2>7. CASE Initialize \/ PlaceBuy \/ PlaceBootstrap \/ PlaceSell \/ PriceUp \/ PriceDown
             \/ UNCHANGED vars \/ \E l \in Levels : RetryMissed(l)
    BY <2>1, <2>7 DEF Initialize, PlaceBuy, PlaceBootstrap, PlaceSell, RetryMissed, PriceUp,
                      PriceDown, PriceCross, vars
  <2> QED
    BY <1>2, <2>2, <2>5, <2>6, <2>7 DEF Next, Dispatch
<1> QED
  BY <1>6, <1>7, <1>8 DEF Undisturbed

\* Every step keeps the lines held.
LEMMA HeldStep ==
  ASSUME TypeOK, Tracked, Undisturbed, Held(levelOrders, orders, sendq, book, events),
         Faithful, NewId, [Next]_vars
  PROVE  Held(levelOrders, orders, sendq, book, events)'
<1>1. CASE UNCHANGED vars
  BY <1>1, QuietHeld DEF vars, mapVars, marketVars
<1>2. CASE Next
  <2>1. ~(Pause \/ Resume \/ Stop \/ EmergencyStop \/ CancelAgain \/ RestCancel \/ MarkStopped)
    BY DEF Pause, Resume, Stop, EmergencyStop, CancelAgain, RestCancel, MarkStopped, Command,
           Faithful
  <2> QED
    BY <1>2, <2>1, SubmittingHeld, DispatchHeld, ExchangeHeld DEF Next, Dispatch
<1> QED
  BY <1>1, <1>2

\* At the start no line is held.
LEMMA HoldStart == Init => HoldInv
  BY DEF Init, HoldInv, Undisturbed, Held, GridCid, NoCid

\* What holds a line is an order of the grid.
LEMMA HeldIsExact ==
  Tracked /\ Held(levelOrders, orders, sendq, book, events) => NoDeadHolder
<1> SUFFICES ASSUME Tracked, Held(levelOrders, orders, sendq, book, events),
                    NEW l \in Levels, levelOrders[l] # NoCid
             PROVE  \/ \E o \in Working : o.cid = levelOrders[l]
                    \/ levelOrders[l] \in Finishing
  BY DEF NoDeadHolder
<1>1. GridCid(levelOrders[l])
  BY DEF Tracked, Consistent, Held
<1>2. CASE \E o \in Queued \cup book : o.cid = levelOrders[l]
  BY <1>1, <1>2 DEF Tracked, Consistent, Working, Queued
<1>3. CASE \E i \in DOMAIN events : events[i].type \in Terminal /\ events[i].cid = levelOrders[l]
  BY <1>3 DEF Terminal, Finishing, Pending
<1> QED
  BY <1>2, <1>3 DEF Held, Queued

-------------------------------------------------------------------------------
(* The theorems *)

\* No order waits 30 s for its NEW report, and the router drops none.
LEMMA TrackedStep ==
  ASSUME TypeOK, Tracked, "slow_ack" \notin Env, NewId, [Next]_vars
  PROVE  Tracked'
<1>1. CASE Next
  BY <1>1, StartTracked, DispatchTracked, RetryTracked, CommandTracked,
     WriterTracked, MarketTracked DEF Next, Dispatch
<1>2. CASE UNCHANGED vars
  BY <1>2, QuietTracked DEF vars, mapVars, marketVars
<1> QED
  BY <1>1, <1>2

\* Before the sequence number wraps around, an id with the next number is new.
LEMMA FreshSubmit ==
  ASSUME TypeOK, Fresh(orders, orderSeq), orderSeq' < SeqMod,
         NEW slots, NEW l, NEW side, NEW c, SubmitLevelOrder(slots, l, side, c)
  PROVE  NewId /\ Fresh(orders', orderSeq')
<1>1. CASE UNCHANGED <<orders, orderSeq, sendq>>
  BY <1>1 DEF NewId
<1> DEFINE cid == MakeClientOrderId(side, l, c, orderSeq + 1)
           new == [cid |-> cid, level |-> l, side |-> side]
<1>2. CASE /\ orderSeq' = orderSeq + 1
           /\ orders' = [d \in DOMAIN orders \cup {cid} |->
                           IF d = cid THEN [level |-> l, side |-> side] ELSE orders[d]]
           /\ sendq' = IF cid \in DOMAIN orders THEN sendq ELSE Append(sendq, new)
  <2>1. orderSeq \in Nat /\ orderSeq + 1 < SeqMod /\ cid.seq = orderSeq + 1
    BY <1>2, ModSmall DEF MakeClientOrderId, TypeOK
  <2>2. cid \notin DOMAIN orders /\ \A d \in DOMAIN orders : d.seq \in Nat
    BY <2>1 DEF Fresh, TypeOK, Cid
  <2>3. \A x : sendq # Append(sendq, x)
    BY DEF TypeOK
  <2> HIDE DEF cid, new
  <2>4. NewId
    BY <1>2, <2>2, <2>3 DEF NewId
  <2>5. Fresh(orders', orderSeq')
    BY <1>2, <2>1, <2>2 DEF Fresh
  <2> QED
    BY <2>4, <2>5
<1> QED
  BY <1>1, <1>2 DEF SubmitLevelOrder, SubmitOrder

\* So the engine makes a new id at every step until then.
LEMMA FreshStep ==
  ASSUME TypeOK, Fresh(orders, orderSeq), orderSeq' < SeqMod, [Next]_vars
  PROVE  NewId /\ Fresh(orders', orderSeq')
<1>1. ASSUME UNCHANGED <<orders, orderSeq>> PROVE NewId /\ Fresh(orders', orderSeq')
  BY <1>1 DEF NewId
<1>2. ASSUME NEW type, ExecuteBootstrap(type) PROVE NewId /\ Fresh(orders', orderSeq')
  <2>1. \A x : sendq # Append(sendq, x)
    BY DEF TypeOK
  <2>2. NewId
    BY <1>2, <2>1 DEF NewId, ExecuteBootstrap
  <2>3. orders' = orders /\ orderSeq' = orderSeq + 1 /\ orderSeq \in Nat
        /\ \A d \in DOMAIN orders : d.seq \in Nat
    BY <1>2 DEF ExecuteBootstrap, TypeOK, Cid
  <2> QED
    BY <2>2, <2>3 DEF Fresh
<1>3. CASE PlaceBuy \/ PlaceSell \/ \E l \in Levels : RetryMissed(l)
  BY <1>1, <1>3, FreshSubmit DEF PlaceBuy, PlaceSell, RetryMissed, mapVars
<1>4. CASE PlaceBootstrap
  BY <1>1, <1>2, <1>4 DEF PlaceBootstrap, mapVars
<1>5. CASE DispatchFilled
  BY <1>1, <1>5, FreshSubmit DEF DispatchFilled, OnBootstrapFilled, OnOrderFilled, mapVars
<1>6. CASE DispatchRejected
  BY <1>1, <1>2, <1>6 DEF DispatchRejected, OnBootstrapRejected, OnOrderRejected, mapVars
<1>7. CASE \/ Initialize \/ DispatchNew \/ DispatchCanceled \/ WriterSend \/ UNCHANGED vars
           \/ Pause \/ Resume \/ Stop \/ EmergencyStop \/ CancelAgain \/ RestCancel \/ MarkStopped
           \/ PriceUp \/ PriceDown
           \/ \E o \in book : Fill(o) \/ FillBootstrap(o) \/ UserCancel(o)
  <2>1. UNCHANGED mapVars
    BY <1>7 DEF Initialize, DispatchNew, DispatchCanceled, WriterSend, vars, Pause, Resume, Stop,
       EmergencyStop, CancelAgain, RestCancel, MarkStopped, Command, PriceUp, PriceDown,
       PriceCross, Fill, FillBootstrap, UserCancel
  <2> QED
    BY <1>1, <2>1 DEF mapVars
<1> QED
  BY <1>3, <1>4, <1>5, <1>6, <1>7 DEF Next

\* What holds before the sequence number wraps around held before the step.
LEMMA NotYetWrapped ==
  ASSUME TypeOK, orderSeq' < SeqMod, [Next]_vars
  PROVE  orderSeq < SeqMod
<1>1. CASE Next
  BY <1>1, SeqGrows, GridAssumption
<1>2. CASE UNCHANGED vars
  BY <1>2 DEF vars, mapVars
<1> QED
  BY <1>1, <1>2

\* TrackInv is inductive.
LEMMA TrackStep ==
  ASSUME TypeOK, TrackInv, "slow_ack" \notin Env, [Next]_vars
  PROVE  TrackInv'
<1> SUFFICES ASSUME orderSeq' < SeqMod PROVE Fresh(orders', orderSeq') /\ Tracked'
  BY DEF TrackInv
<1>1. Fresh(orders, orderSeq) /\ Tracked
  BY NotYetWrapped DEF TrackInv
<1>2. NewId /\ Fresh(orders', orderSeq')
  BY <1>1, FreshStep
<1> QED
  BY <1>1, <1>2, TrackedStep

\* So is the exactness of the level map.
LEMMA HoldStep ==
  ASSUME TypeOK, TrackInv, HoldInv, Faithful, [Next]_vars
  PROVE  HoldInv'
<1>1. Undisturbed'
  BY UndisturbedStep DEF HoldInv
<1>2. ASSUME orderSeq' < SeqMod PROVE Held(levelOrders, orders, sendq, book, events)'
  <2>1. /\ Fresh(orders, orderSeq) /\ Tracked /\ Undisturbed
        /\ Held(levelOrders, orders, sendq, book, events)
    BY <1>2, NotYetWrapped DEF TrackInv, HoldInv
  <2>2. NewId
    BY <1>2, <2>1, FreshStep
  <2> QED
    BY <2>1, <2>2, HeldStep
<1> QED
  BY <1>1, <1>2 DEF HoldInv

\* At the start there is nothing to track.
LEMMA TrackStart == Init => TrackInv
  BY DEF Init, TrackInv, Tracked, Fresh, Consistent

\* Consistent maps are complete.
LEMMA TrackedIsComplete == Tracked => LevelTracked
<1> SUFFICES ASSUME Tracked PROVE LevelTracked
  OBVIOUS
<1>1. \A o \in Working : Registered(levelOrders, orders, o)
  BY DEF Tracked, Consistent, Working, Queued
<1>2. \A c \in Finishing \cap DOMAIN orders : levelOrders[orders[c].level] = c
  BY DEF Tracked, Consistent, Finishing, Pending, Terminal
<1> QED
  BY <1>1, <1>2 DEF LevelTracked, Registered

\* Consistent maps leave room for one order on a line.
LEMMA TrackedIsSingle == TypeOK /\ Tracked => OneOrderPerLevel
<1> SUFFICES ASSUME TypeOK, Tracked PROVE OneOrderPerLevel
  OBVIOUS
<1>1. \A o \in Working : Registered(levelOrders, orders, o) /\ o \in WireOrder
  BY QueueType DEF Tracked, Consistent, Working, Queued, TypeOK
<1>2. ASSUME NEW o \in Working, NEW p \in Working, o.level = p.level PROVE o = p
  <2>1. o.cid = p.cid
    BY <1>1, <1>2 DEF Registered
  <2>2. [level |-> p.level, side |-> p.side] = [level |-> o.level, side |-> o.side]
    BY <1>1, <2>1 DEF Registered
  <2> QED
    BY <1>1, <2>1, <2>2 DEF WireOrder
<1>3. \A i, j \in DOMAIN sendq : sendq[i] = sendq[j] /\ ~OffGrid(sendq[i]) => i = j
  BY DEF Tracked, Consistent
<1>4. \A o \in Working : o \notin Queued \/ o \notin book
  BY DEF Tracked, Consistent, Working, Queued
<1> QED
  BY <1>2, <1>3, <1>4 DEF OneOrderPerLevel

\* TrackInv is an invariant of the engine.
THEOREM TrackInvariant ==
  ASSUME "slow_ack" \notin Env
  PROVE  Spec => []TrackInv
<1>1. TypeOK /\ TrackInv /\ [Next]_vars => TrackInv'
  BY TrackStep
<1> QED
  BY <1>1, TrackStart, TypeCorrect, PTL DEF Spec

\* Anti-double: until the sequence number of the ids wraps around, no grid line
\* ever has two orders on their way to the exchange or open there.
THEOREM SingleOrder ==
  ASSUME "slow_ack" \notin Env
  PROVE  Spec => [](orderSeq < SeqMod => OneOrderPerLevel)
<1>1. TypeOK /\ TrackInv => (orderSeq < SeqMod => OneOrderPerLevel)
  BY TrackedIsSingle DEF TrackInv
<1> QED
  BY <1>1, TrackInvariant, TypeCorrect, PTL

\* The level map is complete, until the sequence number of the ids wraps around.
THEOREM Tracking ==
  ASSUME "slow_ack" \notin Env
  PROVE  Spec => [](orderSeq < SeqMod => LevelTracked)
<1>1. TrackInv => (orderSeq < SeqMod => LevelTracked)
  BY TrackedIsComplete DEF TrackInv
<1> QED
  BY <1>1, TrackInvariant, PTL

\* HoldInv is an invariant of the engine in a faithful environment.
THEOREM HoldInvariant ==
  ASSUME Faithful
  PROVE  Spec => []HoldInv
<1>1. "slow_ack" \notin Env
  BY DEF Faithful
<1>2. TypeOK /\ TrackInv /\ HoldInv /\ [Next]_vars => HoldInv'
  BY HoldStep
<1> QED
  BY <1>1, <1>2, HoldStart, TrackInvariant, TypeCorrect, PTL DEF Spec

\* The level map is exact in a faithful environment, until the sequence number of
\* the ids wraps around: no line is blocked by an order that is gone.
THEOREM NoLineBlocked ==
  ASSUME Faithful
  PROVE  Spec => [](orderSeq < SeqMod => NoDeadHolder)
<1>1. "slow_ack" \notin Env
  BY DEF Faithful
<1>2. TrackInv /\ HoldInv => (orderSeq < SeqMod => NoDeadHolder)
  BY HeldIsExact DEF TrackInv, HoldInv
<1> QED
  BY <1>1, <1>2, HoldInvariant, TrackInvariant, PTL

\* However often the sequence number wraps around: as long as the router drops no
\* order, the level map is complete and no grid line ever has two orders.
THEOREM TrackedUnlessDropped ==
  ASSUME "slow_ack" \notin Env
  PROVE  Spec /\ NothingDropped => []Tracked /\ [](OneOrderPerLevel /\ LevelTracked)
<1>1. Init => Tracked
  BY DEF Init, Tracked, Consistent
<1>2. TypeOK /\ Tracked /\ [Next]_vars /\ [NewId]_vars => Tracked'
  <2>1. UNCHANGED vars => NewId
    BY DEF vars, mapVars, NewId
  <2> QED
    BY <2>1, TrackedStep
<1>3. TypeOK /\ Tracked => OneOrderPerLevel /\ LevelTracked
  BY TrackedIsSingle, TrackedIsComplete
<1> QED
  BY <1>1, <1>2, <1>3, TypeCorrect, PTL DEF Spec, NothingDropped

\* And in a faithful environment no line is blocked by an order that is gone.
THEOREM ExactUnlessDropped ==
  ASSUME Faithful
  PROVE  Spec /\ NothingDropped => []ExactInv /\ []NoDeadHolder
<1>1. "slow_ack" \notin Env
  BY DEF Faithful
<1>2. Init => ExactInv
  BY DEF Init, ExactInv, Undisturbed, Held, GridCid, NoCid
<1>3. TypeOK /\ Tracked /\ ExactInv /\ [Next]_vars /\ [NewId]_vars => ExactInv'
  <2>1. UNCHANGED vars => NewId
    BY DEF vars, mapVars, NewId
  <2>2. TypeOK /\ Undisturbed /\ [Next]_vars => Undisturbed'
    BY UndisturbedStep
  <2> QED
    BY <2>1, <2>2, HeldStep DEF ExactInv
<1>4. Tracked /\ ExactInv => NoDeadHolder
  BY HeldIsExact DEF ExactInv
<1> QED
  BY <1>1, <1>2, <1>3, <1>4, TrackedUnlessDropped, TypeCorrect, PTL DEF Spec, NothingDropped

===============================================================================
