-------------------------- MODULE GridEngineProofs --------------------------
(***************************************************************************)
(* Proofs about the grid engine, for every grid, bound and environment.    *)
(***************************************************************************)
EXTENDS GridEngineProperties, FiniteSetTheorems, TLAPS

-------------------------------------------------------------------------------
(* Client order ids *)

\* The modulus keeps the sequence number a natural number.
LEMMA ModNat == \A n \in Nat : n % SeqMod \in Nat
  BY GridAssumption

\* Below the modulus a sequence number is its own remainder.
LEMMA ModSmall == \A n \in Nat : n < SeqMod => n % SeqMod = n
  BY GridAssumption

\* What make_client_order_id returns is a client order id, never the bootstrap's.
LEMMA CidType ==
  ASSUME NEW side, NEW l \in Levels, NEW c \in Nat, NEW n \in Nat
  PROVE  /\ MakeClientOrderId(side, l, c, n) \in Cid
         /\ GridCid(MakeClientOrderId(side, l, c, n))
  BY ModNat, GridAssumption DEF MakeClientOrderId, Cid, GridCid, Abs, Levels

\* The marker of a free grid line is not a client order id.
LEMMA NoCidFresh == NoCid \notin Cid
  BY DEF NoCid, Cid

-------------------------------------------------------------------------------
(* Type correctness *)

\* Submitting keeps the maps, the sequence number and the send queue typed.
LEMMA SubmitType ==
  ASSUME TypeOK,
         NEW slots \in [Levels -> Cid \cup {NoCid}],
         NEW l \in Levels, NEW side \in Sides \cup {"ANCHOR"}, NEW c \in Nat,
         SubmitLevelOrder(slots, l, side, c)
  PROVE  /\ levelOrders' \in [Levels -> Cid \cup {NoCid}]
         /\ DOMAIN orders' \subseteq Cid
         /\ \A d \in DOMAIN orders' :
              orders'[d] \in [level : Levels, side : Sides \cup {"ANCHOR"}]
         /\ orderSeq' \in Nat
         /\ sendq' \in Seq(WireOrder)
<1>1. CASE levelOrders' = slots /\ UNCHANGED <<orders, orderSeq, sendq>>
  BY <1>1 DEF TypeOK
<1> DEFINE cid == MakeClientOrderId(side, l, c, orderSeq + 1)
<1>2. CASE /\ orderSeq' = orderSeq + 1
           /\ levelOrders' = [slots EXCEPT ![l] = cid]
           /\ orders' = [d \in DOMAIN orders \cup {cid} |->
                           IF d = cid THEN [level |-> l, side |-> side] ELSE orders[d]]
           /\ sendq' = IF cid \in DOMAIN orders THEN sendq
                       ELSE Append(sendq, [cid |-> cid, level |-> l, side |-> side])
  <2>1. cid \in Cid
    BY CidType DEF TypeOK
  <2> HIDE DEF cid
  <2>2. [cid |-> cid, level |-> l, side |-> side] \in WireOrder
    BY <2>1 DEF WireOrder
  <2> QED
    BY <1>2, <2>1, <2>2 DEF TypeOK
<1> QED
  BY <1>1, <1>2 DEF SubmitLevelOrder, SubmitOrder

\* So does the bootstrap.
LEMMA BootType0 ==
  ASSUME TypeOK, NEW type, ExecuteBootstrap(type)
  PROVE  /\ levelOrders' = levelOrders /\ orders' = orders
         /\ orderSeq' \in Nat /\ bootCid' \in Cid
         /\ sendq' \in Seq(WireOrder)
<1> DEFINE cid == [side |-> "BOOT", lvl |-> 0, cycle |-> 0, seq |-> orderSeq + 1]
           o == [cid |-> cid, level |-> 0,
                 side |-> IF type = "MARKET" THEN "MARKET" ELSE "LIMIT"]
<1>1. cid \in Cid
  BY DEF TypeOK, Cid
<1>2. o \in WireOrder
  BY <1>1, GridAssumption DEF WireOrder, Levels
<1> QED
  BY <1>1, <1>2 DEF ExecuteBootstrap, TypeOK

\* The start is well typed.
LEMMA InitTypeOK == Init => TypeOK
<1> SUFFICES ASSUME Init PROVE TypeOK
  OBVIOUS
<1>1. book \subseteq WireOrder /\ IsFiniteSet(book)
  BY FS_EmptySet DEF Init
<1>2. sendq \in Seq(WireOrder) /\ events \in Seq(Report)
  BY DEF Init
<1>3. /\ levelOrders \in [Levels -> Cid \cup {NoCid}]
      /\ missed \in [Levels -> Sides \cup {"ANCHOR", "NONE"}]
      /\ DOMAIN orders = {} /\ acked = {} /\ bootCid = NoCid
  BY DEF Init
<1>4. /\ cursor \in Lo - 1 .. Hi /\ budget \in 0 .. Hi
      /\ gap \in Lo - 1 .. Hi /\ credit \in Int
      /\ cycleSeq \in Nat /\ orderSeq \in Nat
  BY GridAssumption DEF Init
<1>5. status \in Statuses /\ waiter = "idle" /\ initialized \in BOOLEAN
  BY DEF Init, Statuses
<1> QED
  BY <1>1, <1>2, <1>3, <1>4, <1>5 DEF TypeOK

\* A report and its sequence: consuming or adding reports keeps them typed.
LEMMA EventsType ==
  ASSUME TypeOK
  PROVE  /\ events # <<>> => Head(events) \in Report /\ Tail(events) \in Seq(Report)
         /\ \A t \in {"NEW", "FILLED", "EXPIRED", "REJECTED", "CANCELED"}, c \in Cid :
              Append(events, Reports(t, c)) \in Seq(Report)
<1>1. \A t \in {"NEW", "FILLED", "EXPIRED", "REJECTED", "CANCELED"}, c \in Cid :
        Reports(t, c) \in Report
  BY GridAssumption DEF Reports, Report
<1> QED
  BY <1>1 DEF TypeOK

\* Start-up steps keep the state typed.
LEMMA StartType ==
  ASSUME TypeOK, Initialize \/ PlaceBuy \/ PlaceBootstrap \/ PlaceSell
  PROVE  TypeOK'
<1>1. CASE Initialize
  BY <1>1, GridAssumption DEF Initialize, TypeOK, Statuses, mapVars, marketVars
<1>2. CASE PlaceBuy
  <2>1. cursor \in Levels /\ 0 \in Nat
    BY <1>2, GridAssumption DEF PlaceBuy, Levels
  <2>2. CASE SubmitLevelOrder(levelOrders, cursor, "BUY", 0)
    <3>1. levelOrders \in [Levels -> Cid \cup {NoCid}]
      BY DEF TypeOK
    <3>2. "BUY" \in Sides \cup {"ANCHOR"}
      BY DEF Sides
    <3> QED
      BY <2>1, <2>2, <3>1, <3>2, <1>2, SubmitType, GridAssumption
      DEF PlaceBuy, TypeOK, lifeVars, marketVars
  <2>3. CASE UNCHANGED <<mapVars, sendq>>
    BY <1>2, <2>3, GridAssumption DEF PlaceBuy, TypeOK, mapVars, lifeVars, marketVars
  <2> QED
    BY <1>2, <2>2, <2>3 DEF PlaceBuy
<1>3. CASE PlaceBootstrap
  <2>1. CASE ExecuteBootstrap(BootType) /\ cursor' = 0
    BY <1>3, <2>1, BootType0, GridAssumption
    DEF PlaceBootstrap, TypeOK, lifeVars, marketVars
  <2>2. CASE cursor' = 1 /\ UNCHANGED <<mapVars, bootCid, sendq>>
    BY <1>3, <2>2, GridAssumption DEF PlaceBootstrap, TypeOK, mapVars, lifeVars, marketVars
  <2> QED
    BY <1>3, <2>1, <2>2 DEF PlaceBootstrap
<1>4. CASE PlaceSell
  <2>1. CASE budget = 0
    BY <1>4, <2>1, GridAssumption DEF PlaceSell, TypeOK, mapVars, lifeVars, marketVars
  <2>2. CASE budget # 0
    <3>1. /\ cursor \in Levels /\ 0 \in Nat /\ "SELL" \in Sides \cup {"ANCHOR"}
          /\ levelOrders \in [Levels -> Cid \cup {NoCid}]
      BY <1>4, GridAssumption DEF PlaceSell, Levels, Sides, TypeOK
    <3>2. SubmitLevelOrder(levelOrders, cursor, "SELL", 0)
      BY <1>4, <2>2 DEF PlaceSell
    <3>3. cursor' \in Lo - 1 .. Hi /\ budget' \in 0 .. Hi
      BY <1>4, <2>2, GridAssumption DEF PlaceSell, TypeOK
    <3> QED
      BY <1>4, <3>1, <3>2, <3>3, SubmitType DEF PlaceSell, TypeOK, lifeVars, marketVars
  <2> QED
    BY <2>1, <2>2
<1> QED
  BY <1>1, <1>2, <1>3, <1>4

\* Dispatching a report keeps the state typed.
LEMMA DispatchType ==
  ASSUME TypeOK, Dispatch
  PROVE  TypeOK'
<1>1. /\ events # <<>> /\ Head(events) \in Report /\ events' \in Seq(Report)
      /\ UNCHANGED <<waiter, initialized, marketVars>>
  BY EventsType DEF Dispatch, DispatchNew, DispatchFilled, DispatchRejected,
                    DispatchCanceled, Deliver
<1> DEFINE r == Head(events)
<1>2. r.cid \in Cid /\ r.qty \in 0 .. Hi
  BY <1>1 DEF Report
<1>3. CASE DispatchNew
  BY <1>1, <1>2, <1>3 DEF DispatchNew, TypeOK, mapVars, loopVars, marketVars
<1>4. CASE DispatchFilled
  <2>1. CASE UNCHANGED <<loopVars, mapVars, cycleSeq, bootCid, sendq>>
    BY <1>1, <1>4, <2>1 DEF DispatchFilled, TypeOK, mapVars, loopVars, marketVars
  <2>2. CASE OnBootstrapFilled(r.qty)
    BY <1>1, <1>2, <1>4, <2>2, GridAssumption
    DEF DispatchFilled, OnBootstrapFilled, TypeOK, mapVars, marketVars
  <2>3. CASE OnOrderFilled(r.cid)
    <3>1. CASE UNCHANGED <<mapVars, cycleSeq, sendq>>
      BY <1>1, <1>4, <2>3, <3>1
      DEF DispatchFilled, OnOrderFilled, TypeOK, mapVars, loopVars, marketVars
    <3>2. CASE r.cid \in DOMAIN orders /\ cycleSeq' = cycleSeq + 1
      <4> DEFINE o == orders[r.cid]
                 freed == [levelOrders EXCEPT ![o.level] = NoCid]
      <4>1. freed \in [Levels -> Cid \cup {NoCid}] /\ cycleSeq + 1 \in Nat
        <5>1. levelOrders \in [Levels -> Cid \cup {NoCid}] /\ cycleSeq \in Nat
          BY DEF TypeOK
        <5>2. \A x : [levelOrders EXCEPT ![x] = NoCid] \in [Levels -> Cid \cup {NoCid}]
          BY <5>1
        <5> QED
          BY <5>1, <5>2
      <4>2. CounterSide(o) \in Sides \cup {"ANCHOR"}
        BY DEF CounterSide, Sides
      <4>3. CASE /\ CounterLevel(o) \in Levels
                 /\ SubmitLevelOrder(freed, CounterLevel(o), CounterSide(o), cycleSeq + 1)
        <5> HIDE DEF o, freed
        <5>1. /\ levelOrders' \in [Levels -> Cid \cup {NoCid}]
              /\ DOMAIN orders' \subseteq Cid
              /\ \A d \in DOMAIN orders' :
                   orders'[d] \in [level : Levels, side : Sides \cup {"ANCHOR"}]
              /\ orderSeq' \in Nat
              /\ sendq' \in Seq(WireOrder)
          BY <4>1, <4>2, <4>3, SubmitType
        <5> QED
          BY <1>1, <1>4, <2>3, <3>2, <4>1, <5>1
          DEF DispatchFilled, OnOrderFilled, TypeOK, loopVars, marketVars
      <4>4. CASE levelOrders' = freed /\ UNCHANGED <<orders, orderSeq, sendq>>
        BY <1>1, <1>4, <2>3, <3>2, <4>1, <4>4
        DEF DispatchFilled, OnOrderFilled, TypeOK, loopVars, marketVars
      <4> QED
        BY <1>4, <2>3, <3>2, <4>3, <4>4, <3>1 DEF OnOrderFilled
    <3> QED
      BY <2>3, <3>1, <3>2 DEF OnOrderFilled
  <2> QED
    BY <1>4, <2>1, <2>2, <2>3 DEF DispatchFilled
<1>5. CASE DispatchRejected
  <2>1. CASE UNCHANGED <<mapVars, missed, bootCid, sendq>>
    BY <1>1, <1>5, <2>1 DEF DispatchRejected, TypeOK, mapVars, loopVars, marketVars
  <2>2. CASE OnBootstrapRejected
    <3>1. CASE ExecuteBootstrap("MARKET")
      BY <1>1, <1>5, <2>2, <3>1, BootType0
      DEF DispatchRejected, OnBootstrapRejected, TypeOK, loopVars, marketVars
    <3>2. CASE UNCHANGED <<mapVars, bootCid, sendq>>
      BY <1>1, <1>5, <2>2, <3>2
      DEF DispatchRejected, OnBootstrapRejected, TypeOK, mapVars, loopVars, marketVars
    <3> QED
      BY <2>2, <3>1, <3>2 DEF OnBootstrapRejected
  <2>3. CASE OnOrderRejected(r.cid, r.type)
    <3>1. levelOrders' \in [Levels -> Cid \cup {NoCid}]
      BY <2>3 DEF OnOrderRejected, TypeOK
    <3>2. missed' \in [Levels -> Sides \cup {"ANCHOR", "NONE"}]
      BY <2>3 DEF OnOrderRejected, TypeOK
    <3> QED
      BY <1>1, <1>5, <2>3, <3>1, <3>2
      DEF DispatchRejected, OnOrderRejected, TypeOK, loopVars, marketVars
  <2> QED
    BY <1>5, <2>1, <2>2, <2>3 DEF DispatchRejected
<1>6. CASE DispatchCanceled
  <2>1. status' \in Statuses
    BY <1>6, GridAssumption DEF DispatchCanceled, PolicyStatus, TypeOK, Statuses
  <2> QED
    BY <1>1, <1>6, <2>1 DEF DispatchCanceled, TypeOK, mapVars, loopVars, marketVars
<1> QED
  BY <1>3, <1>4, <1>5, <1>6 DEF Dispatch

\* A retry keeps the state typed.
LEMMA RetryType ==
  ASSUME TypeOK, NEW l \in Levels, RetryMissed(l)
  PROVE  TypeOK'
<1>1. GridSide(l) \in Sides \cup {"ANCHOR"}
  BY DEF GridSide, Sides
<1>2. /\ levelOrders \in [Levels -> Cid \cup {NoCid}] /\ cycleSeq \in Nat
      /\ SubmitLevelOrder(levelOrders, l, GridSide(l), cycleSeq)
  BY DEF TypeOK, RetryMissed
<1>3. missed' \in [Levels -> Sides \cup {"ANCHOR", "NONE"}]
  BY DEF TypeOK, RetryMissed
<1> QED
  BY <1>1, <1>2, <1>3, SubmitType DEF RetryMissed, TypeOK, lifeVars, loopVars, marketVars

\* Cancelling every open order leaves an empty book and a stream of reports.
LEMMA CancelType ==
  ASSUME TypeOK, CancelBook
  PROVE  /\ book' = {} /\ IsFiniteSet(book') /\ events' \in Seq(Report)
         /\ \E new \in Seq(Report) : /\ events' = events \o new
                                    /\ \A i \in DOMAIN new : new[i].type = "CANCELED"
<1>1. PICK s \in [1 .. Cardinality(book) -> book] :
        events' = events \o [i \in DOMAIN s |-> Reports("CANCELED", s[i].cid)]
  BY DEF CancelBook
<1> DEFINE new == [i \in DOMAIN s |-> Reports("CANCELED", s[i].cid)]
<1>2. Cardinality(book) \in Nat /\ DOMAIN s = 1 .. Cardinality(book)
  BY <1>1, FS_CardinalityType DEF TypeOK
<1>3. \A i \in DOMAIN s : Reports("CANCELED", s[i].cid) \in Report
  <2>1. \A i \in DOMAIN s : s[i].cid \in Cid
    BY DEF TypeOK, WireOrder
  <2> QED
    BY <2>1, GridAssumption DEF Reports, Report
<1>4. new \in [1 .. Cardinality(book) -> Report]
  BY <1>2, <1>3
<1>5. new \in Seq(Report) /\ \A i \in DOMAIN new : new[i].type = "CANCELED"
  BY <1>2, <1>4 DEF Reports
<1> HIDE DEF new
<1>6. events \o new \in Seq(Report)
  BY <1>5 DEF TypeOK
<1> QED
  BY <1>1, <1>5, <1>6, FS_EmptySet DEF CancelBook, new

\* Commands and the emergency stop keep the state typed.
LEMMA CommandType ==
  ASSUME TypeOK,
         \/ Pause \/ Resume \/ Stop
         \/ EmergencyStop \/ CancelAgain \/ RestCancel \/ MarkStopped
  PROVE  TypeOK'
<1>1. CASE Pause \/ Resume \/ Stop \/ MarkStopped
  BY <1>1 DEF Pause, Resume, Stop, MarkStopped, Command, TypeOK, Statuses,
              mapVars, loopVars, marketVars
<1>2. CASE EmergencyStop \/ CancelAgain
  <2>1. CancelAll \in WireOrder
    <3>1. [side |-> "ALL", lvl |-> 0, cycle |-> 0, seq |-> 0] \in Cid
      BY DEF Cid
    <3> QED
      BY <3>1, GridAssumption DEF CancelAll, WireOrder, Levels
  <2>2. sendq \in Seq(WireOrder) /\ sendq' = Append(sendq, CancelAll)
    BY <1>2 DEF EmergencyStop, CancelAgain, TypeOK
  <2>3. sendq' \in Seq(WireOrder)
    BY <2>1, <2>2
  <2> QED
    BY <1>2, <2>3 DEF EmergencyStop, CancelAgain, Command, TypeOK, Statuses,
                      mapVars, loopVars, marketVars
<1>3. CASE RestCancel
  <2>1. book' \subseteq WireOrder /\ IsFiniteSet(book') /\ events' \in Seq(Report)
    BY <1>3, CancelType DEF RestCancel, TypeOK
  <2> QED
    BY <1>3, <2>1 DEF RestCancel, Command, TypeOK, mapVars, loopVars
<1> QED
  BY <1>1, <1>2, <1>3

\* The environment keeps the state typed.
LEMMA EnvType ==
  ASSUME TypeOK,
         \/ WriterSend \/ PriceUp \/ PriceDown
         \/ \E o \in book : Fill(o) \/ FillBootstrap(o) \/ UserCancel(o)
  PROVE  TypeOK'
<1>0. BootYield \subseteq 0 .. Hi
  BY GridAssumption DEF BootYield
<1>1. CASE WriterSend
  <2> DEFINE o == Head(sendq)
  <2>1. o \in WireOrder /\ sendq' \in Seq(WireOrder) /\ o.cid \in Cid
    <3>1. sendq \in Seq(WireOrder) /\ sendq # <<>> /\ sendq' = Tail(sendq)
      BY <1>1 DEF WriterSend, TypeOK
    <3>2. o \in WireOrder /\ sendq' \in Seq(WireOrder)
      BY <3>1
    <3> QED
      BY <3>2 DEF WireOrder
  <2>2. CASE UNCHANGED <<book, credit, events>>
    BY <1>1, <2>1, <2>2 DEF WriterSend, TypeOK, mapVars, lifeVars, loopVars
  <2>3. CASE Answer(o)
    <3> HIDE DEF o
    <3>1. book' \subseteq WireOrder /\ IsFiniteSet(book')
      <4>1. book \subseteq WireOrder /\ IsFiniteSet(book)
        BY DEF TypeOK
      <4>2. IsFiniteSet(book \cup {o})
        BY <4>1, FS_AddElement
      <4>3. CASE CancelBook
        BY <4>3, CancelType
      <4>4. CASE book' \in {book, book \cup {o}}
        BY <2>1, <4>1, <4>2, <4>4
      <4> QED
        BY <2>3, <4>3, <4>4 DEF Answer
    <3>2. credit' \in Int
      <4>1. credit \in Int /\ (credit' = credit \/ \E q \in BootYield : credit' = credit + q)
        BY <2>3 DEF Answer, TypeOK
      <4>2. \A q \in BootYield : q \in Int
        BY <1>0, GridAssumption
      <4> QED
        BY <4>1, <4>2
    <3>3. events' \in Seq(Report)
      <4>1. CASE \E q \in BootYield :
                   events' = events \o <<Reports("NEW", o.cid),
                               [type |-> "FILLED", cid |-> o.cid, qty |-> q]>>
        <5>1. PICK q \in BootYield :
                   events' = events \o <<Reports("NEW", o.cid),
                               [type |-> "FILLED", cid |-> o.cid, qty |-> q]>>
          BY <4>1
        <5>2. /\ Reports("NEW", o.cid) \in Report
              /\ [type |-> "FILLED", cid |-> o.cid, qty |-> q] \in Report
          BY <1>0, <2>1, GridAssumption DEF Reports, Report
        <5> QED
          BY <5>1, <5>2 DEF TypeOK
      <4>2. CASE \E t \in {"NEW", "EXPIRED", "REJECTED"} :
                   events' = Append(events, Reports(t, o.cid))
        BY <2>1, <4>2, EventsType
      <4>3. CASE CancelBook
        BY <4>3, CancelType
      <4> QED
        BY <2>3, <4>1, <4>2, <4>3 DEF Answer
    <3> QED
      BY <1>1, <2>1, <3>1, <3>2, <3>3 DEF WriterSend, TypeOK, mapVars, lifeVars, loopVars
  <2> QED
    BY <1>1, <2>2, <2>3 DEF WriterSend
<1>2. CASE PriceUp \/ PriceDown
  BY <1>2, GridAssumption
  DEF PriceUp, PriceDown, PriceCross, TypeOK, mapVars, lifeVars, loopVars
<1>3. CASE \E o \in book : Fill(o) \/ FillBootstrap(o) \/ UserCancel(o)
  <2>1. PICK o \in book : Fill(o) \/ FillBootstrap(o) \/ UserCancel(o)
    BY <1>3
  <2>2. o.cid \in Cid /\ IsFiniteSet(book \ {o}) /\ book \ {o} \subseteq WireOrder
    <3>1. IsFiniteSet(book) /\ book \subseteq WireOrder
      BY DEF TypeOK
    <3>2. IsFiniteSet(book \ {o})
      BY <3>1, FS_RemoveElement
    <3> QED
      BY <3>1, <3>2 DEF WireOrder
  <2>3. CASE Fill(o)
    BY <2>2, <2>3, EventsType DEF Fill, TypeOK, mapVars, lifeVars, loopVars
  <2>4. CASE FillBootstrap(o)
    <3>1. PICK q \in BootYield : credit' = credit + q /\
            events' = Append(events, [type |-> "FILLED", cid |-> o.cid, qty |-> q])
      BY <2>4 DEF FillBootstrap
    <3>2. [type |-> "FILLED", cid |-> o.cid, qty |-> q] \in Report /\ q \in Int
      BY <1>0, <2>2, GridAssumption DEF Report
    <3>3. credit' \in Int /\ events' \in Seq(Report) /\ book' = book \ {o}
      BY <2>4, <3>1, <3>2 DEF FillBootstrap, TypeOK
    <3> QED
      BY <2>2, <2>4, <3>3 DEF FillBootstrap, TypeOK, mapVars, lifeVars, loopVars
  <2>5. CASE UserCancel(o)
    BY <2>2, <2>5, EventsType DEF UserCancel, TypeOK, mapVars, lifeVars, loopVars
  <2> QED
    BY <2>1, <2>3, <2>4, <2>5
<1> QED
  BY <1>1, <1>2, <1>3

\* Every reachable state of the engine is well typed.
THEOREM TypeCorrect == Spec => []TypeOK
<1>1. TypeOK /\ [Next]_vars => TypeOK'
  <2>1. ASSUME TypeOK, Next PROVE TypeOK'
    BY <2>1, StartType, DispatchType, RetryType, CommandType, EnvType DEF Next, Dispatch
  <2>2. ASSUME TypeOK, UNCHANGED vars PROVE TypeOK'
    BY <2>2 DEF TypeOK, vars, lifeVars, loopVars, mapVars, marketVars
  <2> QED
    BY <2>1, <2>2
<1> QED
  BY <1>1, InitTypeOK, PTL DEF Spec

-------------------------------------------------------------------------------
(* Only a running engine submits *)

\* At the start no bootstrap order is pending and no loop runs.
LEMMA PlacingStart == Init => PlacingRuns
  BY DEF Init, PlacingRuns

\* In prebalanced mode no bootstrap is ever submitted, and only initialize() starts a loop.
LEMMA PlacingStep ==
  ASSUME TypeOK, PlacingRuns, InventoryMode = "prebalanced", [Next]_vars
  PROVE  PlacingRuns'
<1>1. CASE Initialize \/ PlaceBuy \/ PlaceBootstrap \/ PlaceSell
  BY <1>1, GridAssumption DEF Initialize, PlaceBuy, PlaceBootstrap, PlaceSell, PlacingRuns, lifeVars
<1>2. CASE Dispatch
  <2>1. events # <<>> /\ Head(events).cid # bootCid
    BY <1>2, EventsType, NoCidFresh
    DEF Dispatch, DispatchNew, DispatchFilled, DispatchRejected, DispatchCanceled,
        Deliver, Report, PlacingRuns
  <2>2. cursor = 0 /\ UNCHANGED <<cursor, bootCid>>
    BY <1>2, <2>1
    DEF Dispatch, DispatchNew, DispatchFilled, DispatchRejected, DispatchCanceled,
        Deliver, OnOrderFilled, OnOrderRejected, loopVars
  <2> QED
    BY <2>2 DEF PlacingRuns
<1>3. CASE \E l \in Levels : RetryMissed(l)
  BY <1>3 DEF RetryMissed, PlacingRuns, lifeVars, loopVars
<1>4. CASE \/ Pause \/ Resume \/ Stop
           \/ EmergencyStop \/ CancelAgain \/ RestCancel \/ MarkStopped
  BY <1>4 DEF Pause, Resume, Stop, EmergencyStop, CancelAgain, RestCancel, MarkStopped,
              Command, PlacingRuns, loopVars
<1>5. CASE \/ WriterSend \/ PriceUp \/ PriceDown
           \/ \E o \in book : Fill(o) \/ FillBootstrap(o) \/ UserCancel(o)
  BY <1>5 DEF WriterSend, PriceUp, PriceDown, PriceCross, Fill, FillBootstrap, UserCancel,
              PlacingRuns, lifeVars, loopVars
<1>6. CASE UNCHANGED vars
  BY <1>6 DEF vars, PlacingRuns, lifeVars, loopVars
<1> QED
  BY <1>1, <1>2, <1>3, <1>4, <1>5, <1>6 DEF Next, Dispatch

\* Whatever adds to the send queue runs in status RUNNING.
LEMMA SubmitStep ==
  ASSUME TypeOK, PlacingRuns, InventoryMode = "prebalanced", [Next]_vars,
         NewOrder
  PROVE  status = "RUNNING"
<1>1. CASE UNCHANGED sendq
  BY <1>1 DEF TypeOK, NewOrder
<1>2. CASE PlaceBuy \/ PlaceBootstrap \/ PlaceSell
  BY <1>2, GridAssumption DEF PlaceBuy, PlaceBootstrap, PlaceSell, PlacingRuns
<1>3. CASE DispatchFilled \/ DispatchRejected
  <2>1. events # <<>> /\ Head(events).cid # bootCid
    BY <1>3, EventsType, NoCidFresh
    DEF DispatchFilled, DispatchRejected, Deliver, Report, PlacingRuns
  <2>2. status = "RUNNING" \/ UNCHANGED sendq
    BY <1>3, <2>1 DEF DispatchFilled, DispatchRejected, OnOrderFilled, OnOrderRejected
  <2> QED
    BY <1>1, <2>2
<1>4. CASE \E l \in Levels : RetryMissed(l)
  BY <1>4 DEF RetryMissed
<1>5. CASE WriterSend
  <2>1. sendq \in Seq(WireOrder) /\ sendq # <<>> /\ sendq' = Tail(sendq)
    BY <1>5 DEF WriterSend, TypeOK
  <2>2. Len(Tail(sendq)) = Len(sendq) - 1 /\ Len(sendq) \in Nat
    BY <2>1
  <2> QED
    BY <2>1, <2>2 DEF NewOrder
<1>6. CASE Initialize \/ DispatchNew \/ DispatchCanceled
  BY <1>1, <1>6 DEF Initialize, DispatchNew, DispatchCanceled
<1>7. CASE Pause \/ Resume \/ Stop \/ RestCancel \/ MarkStopped
  BY <1>1, <1>7 DEF Pause, Resume, Stop, RestCancel, MarkStopped
<1>10. CASE EmergencyStop \/ CancelAgain
  <2>1. sendq \in Seq(WireOrder) /\ sendq' = Append(sendq, CancelAll)
    BY <1>10 DEF EmergencyStop, CancelAgain, TypeOK
  <2> HIDE DEF CancelAll
  <2>2. sendq'[Len(sendq')] = CancelAll
    BY <2>1
  <2> QED
    BY <2>2 DEF NewOrder
<1>8. CASE \/ PriceUp \/ PriceDown
           \/ \E o \in book : Fill(o) \/ FillBootstrap(o) \/ UserCancel(o)
  BY <1>1, <1>8 DEF PriceUp, PriceDown, PriceCross, Fill, FillBootstrap, UserCancel
<1>9. CASE UNCHANGED vars
  BY <1>1, <1>9 DEF vars
<1> QED
  BY <1>2, <1>3, <1>4, <1>5, <1>6, <1>7, <1>8, <1>9, <1>10 DEF Next

\* Without a bootstrap only a running engine submits: no pause, stop or
\* emergency status lets a handler put an order into the send queue.
THEOREM SubmitsRunning ==
  ASSUME InventoryMode = "prebalanced"
  PROVE  Spec => SubmitsOnlyRunning
<1>1. TypeOK /\ PlacingRuns /\ [Next]_vars => PlacingRuns'
  BY PlacingStep
<1>2. TypeOK /\ PlacingRuns /\ [Next]_vars
        => [NewOrder => status = "RUNNING"]_vars
  BY SubmitStep
<1> QED
  BY <1>1, <1>2, PlacingStart, TypeCorrect, PTL DEF Spec, SubmitsOnlyRunning

=============================================================================
