---------------------------- MODULE GridEngineCalm ----------------------------
(***************************************************************************)
(* What the grid engine achieves in a calm environment, where the price    *)
(* does not overtake an order on its way: no id is made twice, so the      *)
(* router drops no order; no fill is answered twice; and in a regular      *)
(* run the engine implements the ladder (GridLadder).                      *)
(***************************************************************************)
EXTENDS GridEngineTracking

-------------------------------------------------------------------------------
(* The queue and the stream as sets *)

\* The queue and the stream are finite.
LEMMA RangeFinite ==
  ASSUME NEW S, NEW s \in Seq(S)
  PROVE  IsFiniteSet({s[i] : i \in DOMAIN s})
<1> DEFINE T == {s[i] : i \in DOMAIN s}
<1>1. DOMAIN s = 1 .. Len(s) /\ Len(s) \in Nat
  OBVIOUS
<1>2. [i \in 1 .. Len(s) |-> s[i]] \in Surjection(1 .. Len(s), T)
  BY <1>1 DEF Surjection
<1>3. IsFiniteSet(1 .. Len(s))
  BY <1>1, FS_Interval
<1> QED
  BY <1>2, <1>3, FS_Surjection

\* The cycles are counted.
LEMMA CyclesCounted ==
  ASSUME TypeOK
  PROVE  cycleSeq \in Nat /\ cycleSeq + 1 \in Nat
BY DEF TypeOK

\* The sets that are counted are finite, and what is bounded is a number.
LEMMA Counts ==
  ASSUME TypeOK
  PROVE  /\ IsFiniteSet(Sells) /\ Cardinality(Sells) \in Nat
         /\ IsFiniteSet(Owed) /\ Cardinality(Owed) \in Nat
         /\ Reserved \in Nat /\ Bound \in Nat
<1>1. IsFiniteSet(Queued) /\ IsFiniteSet(Undispatched)
  BY RangeFinite DEF TypeOK, Queued, Undispatched
<1>2. IsFiniteSet(Queued \cup book)
  BY <1>1, FS_Union DEF TypeOK
<1>3. Sells \in SUBSET (Queued \cup book)
  BY DEF Sells, Working
<1>4. IsFiniteSet(Sells)
  BY <1>2, <1>3, FS_Subset
<1>5. IsFiniteSet(Owed)
  <2> DEFINE T == {r.cid : r \in Undispatched}
             f == [r \in Undispatched |-> r.cid]
  <2>1. f \in Surjection(Undispatched, T)
    BY DEF Surjection
  <2>2. IsFiniteSet(T)
    BY <1>1, <2>1, FS_Surjection
  <2>3. Owed \in SUBSET T
    BY DEF Owed, Pending, Undispatched
  <2> QED
    BY <2>2, <2>3, FS_Subset
<1>6. Reserved \in Nat
  BY GridAssumption DEF Reserved, TypeOK
<1>7. Cardinality(Sells) \in Nat /\ Cardinality(Owed) \in Nat
  BY <1>4, <1>5, FS_CardinalityType
<1> QED
  BY <1>4, <1>5, <1>6, <1>7 DEF Bound

\* One more order, or one less, in the queue.
LEMMA QueueIs ==
  ASSUME TypeOK
  PROVE  /\ Queued \subseteq WireOrder
         /\ \A o \in WireOrder : sendq' = Append(sendq, o) => Queued' = Queued \cup {o}
         /\ sendq # <<>> /\ sendq' = Tail(sendq)
               => Head(sendq) \in Queued /\ Queued' \subseteq Queued
         /\ sendq' = sendq => Queued' = Queued
<1>1. sendq \in Seq(WireOrder)
  BY DEF TypeOK
<1>2. Queued \subseteq WireOrder
  BY <1>1 DEF Queued
<1>3. ASSUME NEW o \in WireOrder, sendq' = Append(sendq, o) PROVE Queued' = Queued \cup {o}
  <2>1. /\ DOMAIN sendq' = DOMAIN sendq \cup {Len(sendq) + 1}
        /\ \A i \in DOMAIN sendq : sendq'[i] = sendq[i]
        /\ sendq'[Len(sendq) + 1] = o
    BY <1>1, <1>3
  <2> QED
    BY <2>1 DEF Queued
<1>4. ASSUME sendq # <<>>, sendq' = Tail(sendq)
      PROVE  Head(sendq) \in Queued /\ Queued' \subseteq Queued
  <2>1. /\ 1 \in DOMAIN sendq /\ Head(sendq) = sendq[1]
        /\ \A i \in DOMAIN sendq' : i + 1 \in DOMAIN sendq /\ sendq'[i] = sendq[i + 1]
    BY <1>1, <1>4
  <2> QED
    BY <2>1 DEF Queued
<1>5. sendq' = sendq => Queued' = Queued
  BY DEF Queued
<1> QED
  BY <1>2, <1>3, <1>4, <1>5

\* One more report, several more, or one less, in the stream.
LEMMA StreamIs ==
  ASSUME TypeOK
  PROVE  /\ Undispatched \subseteq Report
         /\ \A r \in Report : events' = Append(events, r)
               => Undispatched' = Undispatched \cup {r}
         /\ \A r, t \in Report : events' = events \o <<r, t>>
               => Undispatched' = Undispatched \cup {r, t}
         /\ \A new \in Seq(Report) : events' = events \o new
               => Undispatched' = Undispatched \cup {new[i] : i \in DOMAIN new}
         /\ events # <<>> /\ events' = Tail(events)
               => Head(events) \in Undispatched /\ Undispatched' \subseteq Undispatched
         /\ events' = events => Undispatched' = Undispatched
<1>1. events \in Seq(Report)
  BY DEF TypeOK
<1>2. Undispatched \subseteq Report
  BY <1>1 DEF Undispatched
<1>3. ASSUME NEW r \in Report, events' = Append(events, r)
      PROVE  Undispatched' = Undispatched \cup {r}
  <2>1. /\ DOMAIN events' = DOMAIN events \cup {Len(events) + 1}
        /\ \A i \in DOMAIN events : events'[i] = events[i]
        /\ events'[Len(events) + 1] = r
    BY <1>1, <1>3
  <2> QED
    BY <2>1 DEF Undispatched
<1>4. ASSUME NEW new \in Seq(Report), events' = events \o new
      PROVE  Undispatched' = Undispatched \cup {new[i] : i \in DOMAIN new}
  <2>1. /\ \A i \in DOMAIN events : i \in DOMAIN events' /\ events'[i] = events[i]
        /\ \A i \in DOMAIN new : /\ Len(events) + i \in DOMAIN events'
                                 /\ events'[Len(events) + i] = new[i]
    BY <1>1, <1>4
  <2>2. \A i \in DOMAIN events' : \/ i \in DOMAIN events
                                  \/ i - Len(events) \in DOMAIN new
                                     /\ events'[i] = new[i - Len(events)]
    BY <1>1, <1>4
  <2> QED
    BY <2>1, <2>2 DEF Undispatched
<1>5. ASSUME NEW r \in Report, NEW t \in Report, events' = events \o <<r, t>>
      PROVE  Undispatched' = Undispatched \cup {r, t}
  <2> DEFINE new == <<r, t>>
  <2>1. new \in Seq(Report) /\ {new[i] : i \in DOMAIN new} = {r, t}
    OBVIOUS
  <2> QED
    BY <1>4, <1>5, <2>1
<1>6. ASSUME events # <<>>, events' = Tail(events)
      PROVE  Head(events) \in Undispatched /\ Undispatched' \subseteq Undispatched
  <2>1. /\ 1 \in DOMAIN events /\ Head(events) = events[1]
        /\ \A i \in DOMAIN events' : i + 1 \in DOMAIN events /\ events'[i] = events[i + 1]
    BY <1>1, <1>6
  <2> QED
    BY <2>1 DEF Undispatched
<1>7. events' = events => Undispatched' = Undispatched
  BY DEF Undispatched
<1> QED
  BY <1>2, <1>3, <1>4, <1>5, <1>6, <1>7

\* The ids of reports of a kind, read from the set of the reports.
LEMMA PendingIs == \A t : Pending(t) = {r.cid : r \in {x \in Undispatched : x.type = t}}
BY DEF Pending, Undispatched



-------------------------------------------------------------------------------
(* What a step may change *)

\* How many elements a set has that gains or loses at most one.
LEMMA AtMost ==
  ASSUME NEW S, NEW T, NEW x, IsFiniteSet(S)
  PROVE  /\ T \subseteq S \cup {x} => /\ Cardinality(T) \in Nat
                                      /\ Cardinality(T) <= Cardinality(S) + 1
         /\ T \subseteq S => Cardinality(T) \in Nat /\ Cardinality(T) <= Cardinality(S) + 0
         /\ x \in S /\ T \subseteq S \ {x} => /\ Cardinality(T) \in Nat
                                             /\ Cardinality(T) <= Cardinality(S) + (-1)
<1>1. /\ IsFiniteSet(S \cup {x}) /\ IsFiniteSet(S \ {x})
      /\ Cardinality(S) \in Nat /\ Cardinality(S \cup {x}) \in Nat /\ Cardinality(S \ {x}) \in Nat
      /\ Cardinality(S \cup {x}) <= Cardinality(S) + 1
      /\ x \in S => Cardinality(S \ {x}) = Cardinality(S) - 1
  BY FS_AddElement, FS_RemoveElement, FS_CardinalityType
<1>2. ASSUME NEW U, IsFiniteSet(U), T \subseteq U
      PROVE  Cardinality(T) \in Nat /\ Cardinality(T) <= Cardinality(U)
  BY <1>2, FS_Subset, FS_CardinalityType
<1> QED
  BY <1>1, <1>2

\* Sums on two sides.
LEMMA Sums ==
  \A b, c, x, y \in Int :
     b + x <= c + y => /\ c <= x => b <= y
                       /\ \A q \in Int : c + q <= x => b + q <= y
OBVIOUS

\* The SELLs are still paid for when the credit has grown by as many as they have.
LEMMA CreditedBy ==
  ASSUME TypeOK, TypeOK', Credited, NEW b \in Int, Bound' = b, b + credit <= Bound + credit',
         \A r \in Undispatched' : r.type = "FILLED" /\ r.cid = bootCid'
            => \/ r \in Undispatched /\ r.cid = bootCid
               \/ b + r.qty <= credit'
  PROVE  Credited'
<1>1. Bound \in Nat /\ credit \in Int /\ credit' \in Int
  BY Counts DEF TypeOK
<1>2. \A r \in Undispatched' : r.qty \in Nat
  <2>1. events' \in Seq(Report)
    BY DEF TypeOK
  <2>2. \A i \in DOMAIN events' : events'[i] \in Report
    BY <2>1
  <2>3. \A r \in Undispatched' : r \in Report
    BY <2>2 DEF Undispatched
  <2> QED
    BY <2>3, GridAssumption DEF Report
<1>3. Bound <= credit /\ Bound \in Int
  BY <1>1 DEF Credited
<1>5. b <= credit'
  BY <1>1, <1>3, Sums
<1>4. ASSUME NEW r \in Undispatched', r.type = "FILLED", r.cid = bootCid'
      PROVE  b + r.qty <= credit'
  <2>1. CASE r \in Undispatched /\ r.cid = bootCid
    <3>1. PICK q \in Int : r.qty = q
      BY <1>2, <1>4
    <3>2. Bound + q <= credit
      BY <1>4, <2>1, <3>1 DEF Credited
    <3>3. b + q <= credit'
      BY <1>1, <1>3, <3>2, Sums
    <3> QED
      BY <3>1, <3>3
  <2>2. CASE b + r.qty <= credit'
    BY <2>2
  <2> QED
    BY <1>4, <2>1, <2>2
<1> QED
  BY <1>4, <1>5 DEF Credited

\* What is offered, owed and reserved after a step, and by how much it has grown.
LEMMA BoundIs ==
  ASSUME TypeOK, TypeOK', NEW s \in Int, NEW w \in Int, NEW d \in Int,
         Cardinality(Sells') \in Nat, Cardinality(Sells') <= Cardinality(Sells) + s,
         Cardinality(Owed') \in Nat, Cardinality(Owed') <= Cardinality(Owed) + w,
         Reserved' <= Reserved + d
  PROVE  \E b \in Int : Bound' = b /\ b <= Bound + s + w + d
<1>1. Cardinality(Sells) \in Nat /\ Cardinality(Owed) \in Nat /\ Reserved \in Nat
  BY Counts
<1>2. Reserved' \in Int
  <2>1. cursor' \in Int /\ budget' \in Int /\ Hi \in Int
    BY GridAssumption DEF TypeOK
  <2> QED
    BY <2>1 DEF Reserved
<1>3. Bound' \in Int /\ Bound' <= Bound + s + w + d
  BY <1>1, <1>2 DEF Bound
<1> QED
  BY <1>3

\* Steps that add nothing to what is offered, owed or reserved.
LEMMA QuietCredited ==
  ASSUME TypeOK, TypeOK', Credited, Sells' \subseteq Sells, Owed' \subseteq Owed,
         Reserved' <= Reserved, credit <= credit',
         \A r \in Undispatched' : r.type = "FILLED" /\ r.cid = bootCid'
            => \/ r \in Undispatched /\ r.cid = bootCid
               \/ credit + r.qty <= credit'
  PROVE  Credited'
<1>1. /\ Cardinality(Sells') \in Nat /\ Cardinality(Sells') <= Cardinality(Sells) + 0
      /\ Cardinality(Owed') \in Nat /\ Cardinality(Owed') <= Cardinality(Owed) + 0
  BY Counts, AtMost
<1>2. Bound \in Nat /\ credit \in Int /\ credit' \in Int /\ Bound <= credit /\ Reserved \in Nat
  BY Counts DEF TypeOK, Credited
<1>3. Reserved' <= Reserved + 0
  BY <1>2
<1>4. PICK b \in Int : Bound' = b /\ b <= Bound
  <2>1. \E b \in Int : Bound' = b /\ b <= Bound + 0 + 0 + 0
    BY <1>1, <1>3, BoundIs
  <2> QED
    BY <1>2, <2>1
<1>5. b <= credit /\ \A x, y \in Int : b <= Bound /\ x <= y => b + x <= Bound + y
  BY <1>2, <1>4
<1>7. b + credit <= Bound + credit'
  BY <1>2, <1>4, <1>5
<1>6. \A r \in Undispatched' : r.type = "FILLED" /\ r.cid = bootCid'
            => \/ r \in Undispatched /\ r.cid = bootCid
               \/ b + r.qty <= credit'
  <2>1. \A r \in Undispatched' : r.qty \in Nat
    <3>1. events' \in Seq(Report)
      BY DEF TypeOK
    <3>2. \A i \in DOMAIN events' : events'[i] \in Report
      BY <3>1
    <3>3. \A r \in Undispatched' : r \in Report
      BY <3>2 DEF Undispatched
    <3> QED
      BY <3>3, GridAssumption DEF Report
  <2> QED
    BY <1>2, <1>5, <2>1
<1> QED
  BY <1>4, <1>6, <1>7, CreditedBy

\* Steps that neither submit nor fill an order of the grid, nor move the price.
LEMMA StillCalm ==
  ASSUME TypeOK, Tracked, NothingCrosses, BootTracked,
         UNCHANGED <<orders, orderSeq, missed, gap>>,
         \A o \in Queued' : o \in Queued \/ o = CancelAll,
         \A o \in book' : o \in book \cup Queued,
         \A r \in Undispatched' :
            \/ r \in Undispatched
            \/ r.type \in {"NEW", "CANCELED"}
            \/ ~GridCid(r.cid) /\ (r.cid.side = "BOOT" => r.cid.seq <= orderSeq),
         bootCid' \in {bootCid, NoCid},
         ~initialized' => UNCHANGED <<initialized, cursor, bootCid>>,
         cursor' # 0 => ~initialized \/ cursor # 0 \/ bootCid # NoCid,
         cursor' < 0 => ~initialized \/ cursor < 0
  PROVE  /\ NothingCrosses' /\ BootTracked'
         /\ Sells' \subseteq Sells /\ Owed' \subseteq Owed
<1>1. /\ OffGrid(CancelAll) /\ CancelAll.cid.side # "BOOT"
      /\ ~GridCid(NoCid)
  BY DEF OffGrid, CancelAll, GridCid, NoCid
<1>2. \A c \in DOMAIN orders : GridCid(c)
  BY DEF Tracked, Consistent
<1>3. Working' \subseteq Working
  BY <1>1 DEF Working
<1>4. Sells' \subseteq Sells
  BY <1>3 DEF Sells
<1>5. \A r \in Undispatched' : r.type \in {"FILLED", "EXPIRED", "REJECTED"} =>
         r \in Undispatched \/ ~GridCid(r.cid)
  OBVIOUS
<1>6. Owed' \subseteq Owed
  BY <1>2, <1>5, PendingIs DEF Owed, Pending, Undispatched
<1>7. NothingCrosses'
  <2>1. \A o \in Working' : o.side \in Sides
    BY <1>3 DEF NothingCrosses
  <2>2. \A o \in Queued' : OffGrid(o) \/ MakerSafe(o.level, o.side)'
    BY <1>1 DEF NothingCrosses, MakerSafe
  <2>3. \A r \in Undispatched' : r.type = "FILLED" /\ r.cid \in DOMAIN orders =>
            MakerSafe(CounterLevel(orders[r.cid]), CounterSide(orders[r.cid]))'
    BY <1>2, <1>5 DEF NothingCrosses, MakerSafe
  <2>4. \A r \in Undispatched' : r.type \in {"EXPIRED", "REJECTED"} => ~GridCid(r.cid)
    BY <1>5 DEF NothingCrosses
  <2>5. /\ ~initialized' \/ cursor' # 0 \/ bootCid' # NoCid => gap' <= 0
        /\ ~initialized' \/ cursor' < 0 => gap' >= -1
    BY DEF NothingCrosses
  <2>6. /\ \A c \in DOMAIN orders' : orders'[c].side \in Sides
        /\ \A l \in Levels : missed'[l] = "NONE"
    BY DEF NothingCrosses
  <2> QED
    BY <2>1, <2>2, <2>3, <2>4, <2>5, <2>6 DEF NothingCrosses
<1>8. BootTracked'
  <2>1. \A o \in Queued' \cup book' : o.cid.side = "BOOT" => o.cid.seq <= orderSeq
    BY <1>1 DEF BootTracked
  <2>2. \A r \in Undispatched' : r.type = "FILLED" /\ r.cid.side = "BOOT"
                              => r.cid.seq <= orderSeq
    BY DEF BootTracked
  <2> QED
    BY <1>1, <2>1, <2>2 DEF BootTracked
<1> QED
  BY <1>4, <1>6, <1>7, <1>8

\* The step submits one order more, with an id of its own.
Submits(new, l, side) ==
    /\ new.level = l /\ new.side = side /\ ~OffGrid(new)
    /\ GridCid(new.cid) /\ new.cid \notin DOMAIN orders
    /\ Queued' = Queued \cup {new}
    /\ DOMAIN orders' = DOMAIN orders \cup {new.cid}
    /\ orders'[new.cid].side = side
    /\ \A d \in DOMAIN orders : orders'[d] = orders[d]
    /\ orderSeq' = orderSeq + 1

\* What a submission adds, when it adds anything.
LEMMA SubmitIs ==
  ASSUME TypeOK, Tracked, NewId,
         NEW slots, NEW l \in Levels, NEW side \in Sides, NEW c \in Nat,
         SubmitLevelOrder(slots, l, side, c)
  PROVE  \/ UNCHANGED <<orders, orderSeq, sendq>>
         \/ \E new \in WireOrder : Submits(new, l, side)
<1> DEFINE cid == MakeClientOrderId(side, l, c, orderSeq + 1)
           new == [cid |-> cid, level |-> l, side |-> side]
<1>1. CASE /\ orderSeq' = orderSeq + 1
           /\ orders' = [d \in DOMAIN orders \cup {cid} |->
                           IF d = cid THEN [level |-> l, side |-> side] ELSE orders[d]]
           /\ sendq' = IF cid \in DOMAIN orders THEN sendq ELSE Append(sendq, new)
  <2>1. orderSeq \in Nat /\ orderSeq' # orderSeq
    BY <1>1 DEF TypeOK
  <2>2. cid \notin DOMAIN orders
    BY <1>1, <2>1 DEF NewId
  <2>3. cid \in Cid /\ GridCid(cid)
    BY <2>1, CidType
  <2> HIDE DEF cid
  <2>4. /\ new \in WireOrder /\ new.level = l /\ new.side = side /\ new.cid = cid
        /\ ~OffGrid(new)
    BY <2>3 DEF WireOrder, OffGrid, IsBoot, Sides
  <2>5. DOMAIN orders' = DOMAIN orders \cup {cid} /\ orders'[cid].side = side
        /\ \A d \in DOMAIN orders : orders'[d] = orders[d]
    BY <1>1, <2>2
  <2> HIDE DEF new
  <2>6. Queued' = Queued \cup {new}
    BY <1>1, <2>2, <2>4, QueueIs
  <2>7. Submits(new, l, side)
    BY <1>1, <2>2, <2>3, <2>4, <2>5, <2>6 DEF Submits
  <2> QED
    BY <2>4, <2>7
<1> QED
  BY <1>1 DEF SubmitLevelOrder, SubmitOrder

\* A submission on the maker's side of the price.
LEMMA SubmitCalm ==
  ASSUME TypeOK, Tracked, NothingCrosses, BootTracked, NewId,
         NEW slots, NEW l \in Levels, NEW side \in Sides, NEW c \in Nat,
         SubmitLevelOrder(slots, l, side, c), MakerSafe(l, side), initialized,
         UNCHANGED <<book, gap, missed, bootCid, initialized>>,
         Undispatched' \subseteq Undispatched,
         cursor' # 0 => cursor # 0, cursor' < 0 => cursor < 0
  PROVE  /\ NothingCrosses' /\ BootTracked'
         /\ \E new : Sells' \subseteq Sells \cup {new}
         /\ side = "BUY" => Sells' \subseteq Sells
         /\ Owed' \subseteq {d \in Owed : \E r \in Undispatched' : r.type = "FILLED" /\ r.cid = d}
<1>1. /\ \A d \in DOMAIN orders : GridCid(d)
      /\ \A r \in Undispatched : r.type \in Terminal /\ GridCid(r.cid) => r.cid \in DOMAIN orders
  BY DEF Tracked, Consistent, Undispatched
<1>2. orderSeq \in Nat /\ \A r \in Undispatched : r.type = "FILLED" => r.type \in Terminal
  BY DEF TypeOK, Terminal
<1> DEFINE Submitted(new) ==
      /\ \/ Queued' = Queued
         \/ /\ Queued' = Queued \cup {new} /\ new.side = side /\ ~OffGrid(new)
            /\ new.level = l /\ GridCid(new.cid)
      /\ \A d \in DOMAIN orders' :
            \/ d \in DOMAIN orders
            \/ d = new.cid /\ orders'[d].side = side
      /\ \A d \in DOMAIN orders : d \in DOMAIN orders' /\ orders'[d] = orders[d]
      /\ orderSeq \in Nat /\ orderSeq' \in Nat /\ orderSeq <= orderSeq'
      /\ \A d \in DOMAIN orders' : d \in DOMAIN orders
             \/ \A r \in Undispatched : r.type = "FILLED" => r.cid # d
<1>3. PICK new : Submitted(new)
  <2>1. CASE UNCHANGED <<orders, orderSeq, sendq>>
    <3>1. Queued' = Queued /\ orders' = orders /\ orderSeq' = orderSeq
      BY <2>1, QueueIs
    <3>2. Submitted(CancelAll)
      BY <1>2, <3>1
    <3> QED
      BY <3>2
  <2>2. ASSUME NEW new \in WireOrder, Submits(new, l, side)
        PROVE  Submitted(new)
    <3>1. \A r \in Undispatched : r.type = "FILLED" => r.cid # new.cid
      BY <1>1, <1>2, <2>2 DEF Submits
    <3>2. orderSeq' \in Nat /\ orderSeq <= orderSeq'
      BY <1>2, <2>2 DEF Submits
    <3> QED
      BY <1>2, <2>2, <3>1, <3>2 DEF Submits
  <2> HIDE DEF Submitted
  <2>3. \/ UNCHANGED <<orders, orderSeq, sendq>>
        \/ \E new \in WireOrder : Submits(new, l, side)
    BY SubmitIs
  <2> QED
    BY <2>1, <2>2, <2>3
<1>4. Working' \subseteq Working \cup {new} /\ \A o \in Working' : o \in Working \/ o.side = side
  BY <1>3 DEF Working
<1>5. Sells' \subseteq Sells \cup {new} /\ (side = "BUY" => Sells' \subseteq Sells)
  BY <1>4 DEF Sells
<1>6. Owed' \subseteq {d \in Owed : \E r \in Undispatched' : r.type = "FILLED" /\ r.cid = d}
  <2>1. ASSUME NEW d \in Owed' PROVE d \in Owed /\ \E r \in Undispatched' : r.type = "FILLED" /\ r.cid = d
    <3>1. d \in DOMAIN orders' /\ orders'[d].side = "BUY"
          /\ \E r \in Undispatched' : r.type = "FILLED" /\ r.cid = d
      BY <2>1 DEF Owed, Pending, Undispatched
    <3>2. d \in DOMAIN orders /\ orders[d].side = "BUY"
      BY <1>3, <3>1
    <3> QED
      BY <3>1, <3>2, PendingIs DEF Owed
  <2> QED
    BY <2>1
<1>7. NothingCrosses'
  <2>1. \A o \in Working' : o.side \in Sides
    BY <1>4 DEF NothingCrosses
  <2>2. \A o \in Queued' : OffGrid(o) \/ MakerSafe(o.level, o.side)'
    BY <1>3 DEF NothingCrosses, MakerSafe
  <2>3. \A r \in Undispatched' : r.type = "FILLED" /\ r.cid \in DOMAIN orders' =>
            MakerSafe(CounterLevel(orders[r.cid]), CounterSide(orders[r.cid]))'
    <3>1. \A r \in Undispatched' : r.type = "FILLED" /\ r.cid \in DOMAIN orders' =>
             r \in Undispatched /\ r.cid \in DOMAIN orders /\ orders'[r.cid] = orders[r.cid]
      BY <1>3
    <3> QED
      BY <3>1 DEF NothingCrosses, MakerSafe
  <2>4. \A r \in Undispatched' : r.type \in {"EXPIRED", "REJECTED"} => ~GridCid(r.cid)
    BY DEF NothingCrosses
  <2>5. /\ ~initialized' \/ cursor' # 0 \/ bootCid' # NoCid => gap' <= 0
        /\ ~initialized' \/ cursor' < 0 => gap' >= -1
    BY DEF NothingCrosses
  <2>6. /\ \A d \in DOMAIN orders' : orders'[d].side \in Sides
        /\ \A k \in Levels : missed'[k] = "NONE"
    BY <1>3 DEF NothingCrosses
  <2> QED
    BY <2>1, <2>2, <2>3, <2>4, <2>5, <2>6 DEF NothingCrosses
<1>8. BootTracked'
  <2>1. /\ \A o \in Queued \cup book : o.cid.side = "BOOT" => o.cid.seq \in Nat
        /\ \A r \in Undispatched : r.cid.side = "BOOT" => r.cid.seq \in Nat
    BY QueueIs, StreamIs DEF TypeOK, WireOrder, Report, Cid
  <2>2. \A o \in Queued' \cup book' : o.cid.side = "BOOT" => o.cid.seq <= orderSeq'
    BY <1>3, <2>1 DEF BootTracked, GridCid
  <2>3. \A r \in Undispatched' : r.type = "FILLED" /\ r.cid.side = "BOOT"
                              => r.cid.seq <= orderSeq'
    BY <1>3, <2>1 DEF BootTracked
  <2> QED
    BY <2>2, <2>3 DEF BootTracked
<1> QED
  BY <1>5, <1>6, <1>7, <1>8

\* A bootstrap order has an id of its own.
LEMMA BootstrapCalm ==
  ASSUME TypeOK, Tracked, NothingCrosses, BootTracked,
         NEW type, ExecuteBootstrap(type), initialized, cursor # 0 \/ bootCid # NoCid,
         InventoryMode # "prebalanced",
         UNCHANGED <<book, gap, missed, initialized>>, cursor' = 0,
         Undispatched' \subseteq Undispatched
  PROVE  /\ NothingCrosses' /\ BootTracked'
         /\ Sells' \subseteq Sells /\ Owed' \subseteq Owed
         /\ \A r \in Undispatched' : r.type = "FILLED" => r.cid # bootCid'
<1> DEFINE cid == [side |-> "BOOT", lvl |-> 0, cycle |-> 0, seq |-> orderSeq + 1]
           new == [cid |-> cid, level |-> 0, side |-> IF type = "MARKET" THEN "MARKET" ELSE "LIMIT"]
<1>1. /\ sendq' = Append(sendq, new) /\ bootCid' = cid /\ UNCHANGED orders
      /\ orderSeq' = orderSeq + 1 /\ orderSeq \in Nat
  BY DEF ExecuteBootstrap, TypeOK
<1>2. /\ new \in WireOrder /\ OffGrid(new) /\ ~GridCid(cid) /\ cid.side = "BOOT"
      /\ cid.seq = orderSeq + 1 /\ new.cid = cid /\ cid # NoCid
  BY <1>1, GridAssumption DEF WireOrder, Cid, OffGrid, IsBoot, GridCid, Levels, NoCid
<1> HIDE DEF new, cid
<1>3. Queued' = Queued \cup {new}
  BY <1>1, <1>2, QueueIs
<1>4. /\ \A o \in Queued \cup book : o.cid.side = "BOOT" => o.cid.seq \in Nat
      /\ \A r \in Undispatched : r.cid.side = "BOOT" => r.cid.seq \in Nat
  BY QueueIs, StreamIs DEF TypeOK, WireOrder, Report, Cid
<1>5. Working' = Working
  BY <1>2, <1>3 DEF Working
<1>6. Sells' \subseteq Sells
  BY <1>5 DEF Sells
<1>7. Owed' \subseteq Owed
  <2>1. \A d \in Owed' : \E r \in Undispatched : r.type = "FILLED" /\ r.cid = d
    BY DEF Owed, Pending, Undispatched
  <2>2. \A d \in Owed' : d \in DOMAIN orders /\ orders[d].side = "BUY"
    BY <1>1 DEF Owed
  <2> QED
    BY <2>1, <2>2, PendingIs DEF Owed
<1>8. NothingCrosses'
  <2>1. \A o \in Queued' : OffGrid(o) \/ MakerSafe(o.level, o.side)'
    BY <1>2, <1>3 DEF NothingCrosses, MakerSafe
  <2>2. \A r \in Undispatched' : r.type = "FILLED" /\ r.cid \in DOMAIN orders' =>
            MakerSafe(CounterLevel(orders[r.cid]), CounterSide(orders[r.cid]))'
    BY <1>1 DEF NothingCrosses, MakerSafe
  <2>3. /\ ~initialized' \/ cursor' # 0 \/ bootCid' # NoCid => gap' <= 0
        /\ ~initialized' \/ cursor' < 0 => gap' >= -1
    BY DEF NothingCrosses
  <2> QED
    BY <1>1, <1>5, <2>1, <2>2, <2>3 DEF NothingCrosses
<1>9. \A r \in Undispatched' : r.type = "FILLED" => r.cid # bootCid'
  BY <1>1, <1>2, <1>4 DEF BootTracked
<1>10. BootTracked'
  BY <1>1, <1>2, <1>3, <1>4 DEF BootTracked
<1> QED
  BY <1>6, <1>7, <1>8, <1>9, <1>10


-------------------------------------------------------------------------------
(* Every step of a calm environment *)

\* A report names an order, so never none.
LEMMA ReportIs ==
  ASSUME TypeOK
  PROVE  \A r \in Undispatched : r.cid \in Cid /\ r.cid # NoCid
<1>1. \A r \in Undispatched : r.cid \in Cid
  BY StreamIs DEF Report
<1> QED
  BY <1>1, NoCidFresh

\* Steps that only pass on, cancel or drop.
LEMMA QuietCalm ==
  ASSUME TypeOK, TypeOK', Tracked, NothingCrosses, BootTracked, Credited,
         UNCHANGED <<orders, orderSeq, missed, gap, credit>>,
         \A o \in Queued' : o \in Queued \/ o = CancelAll,
         \A o \in book' : o \in book \cup Queued,
         \A r \in Undispatched' :
            \/ r \in Undispatched
            \/ r.type \in {"NEW", "CANCELED"}
            \/ /\ ~GridCid(r.cid) /\ r.type # "FILLED"
               /\ r.cid.side = "BOOT" => r.cid.seq <= orderSeq,
         bootCid' \in {bootCid, NoCid},
         ~initialized' => UNCHANGED <<initialized, cursor, bootCid>>,
         cursor' # 0 => ~initialized \/ cursor # 0 \/ bootCid # NoCid,
         cursor' < 0 => ~initialized \/ cursor < 0,
         Reserved' <= Reserved
  PROVE  NothingCrosses' /\ BootTracked' /\ Credited'
<1>1. /\ NothingCrosses' /\ BootTracked'
      /\ Sells' \subseteq Sells /\ Owed' \subseteq Owed
  BY StillCalm
<1>2. \A r \in Undispatched' : r.type = "FILLED" => r \in Undispatched
  OBVIOUS
<1>3. \A r \in Undispatched' : r.type = "FILLED" /\ r.cid = bootCid'
         => r \in Undispatched /\ r.cid = bootCid
  BY <1>2, ReportIs
<1>4. credit <= credit'
  BY DEF TypeOK
<1>5. Credited'
  BY <1>1, <1>3, <1>4, QuietCredited
<1> QED
  BY <1>1, <1>5

\* The start of the placing loop, and its steps that place nothing.
LEMMA LoopCalm ==
  ASSUME TypeOK, TypeOK', Tracked, NothingCrosses, BootTracked, Credited,
         initialized \/ initialized',
         UNCHANGED <<orders, orderSeq, missed, gap, credit, sendq, book, events, bootCid>>,
         ~initialized' => UNCHANGED <<initialized, cursor, bootCid>>,
         cursor' # 0 => ~initialized \/ cursor # 0,
         cursor' < 0 => ~initialized \/ cursor < 0,
         Reserved' <= Reserved
  PROVE  NothingCrosses' /\ BootTracked' /\ Credited'
<1>1. Queued' = Queued /\ Undispatched' = Undispatched
  BY QueueIs, StreamIs
<1> QED
  BY <1>1, QuietCalm

\* Steps that move SELL orders between those out, owed, reserved and paid for.
LEMMA MovedCredited ==
  ASSUME TypeOK, TypeOK', Credited, NEW s \in Int, NEW w \in Int, NEW d \in Int,
         Cardinality(Sells') \in Nat, Cardinality(Sells') <= Cardinality(Sells) + s,
         Cardinality(Owed') \in Nat, Cardinality(Owed') <= Cardinality(Owed) + w,
         Reserved' <= Reserved + d, credit + s + w + d <= credit',
         \A r \in Undispatched' : r.type = "FILLED" /\ r.cid = bootCid'
            => r \in Undispatched /\ r.cid = bootCid
  PROVE  Credited'
<1>1. Bound \in Int /\ credit \in Int /\ credit' \in Int
  <2>1. Bound \in Nat
    BY Counts
  <2>2. credit \in Int /\ credit' \in Int
    BY DEF TypeOK
  <2> QED
    BY <2>1, <2>2
<1>2. PICK b \in Int : Bound' = b /\ b <= Bound + s + w + d
  BY BoundIs
<1>3. \A p, x, y \in Int : b <= p + s + w + d /\ x + s + w + d <= y => b + x <= p + y
  OBVIOUS
<1>4. b + credit <= Bound + credit'
  BY <1>1, <1>2, <1>3
<1> QED
  BY <1>2, <1>4, CreditedBy

\* The placing loop offers no more than was reserved for it.
LEMMA PlaceCalm ==
  ASSUME TypeOK, TypeOK', Tracked, NothingCrosses, BootTracked, Credited, NewId,
         PlaceBuy \/ PlaceSell
  PROVE  NothingCrosses' /\ BootTracked' /\ Credited'
<1>1. /\ initialized /\ cursor \in Int /\ gap \in Int /\ Lo \in Int /\ Hi \in Int /\ Lo < 0 /\ 0 < Hi
      /\ budget \in Int /\ budget >= 0 /\ Reserved \in Nat
      /\ UNCHANGED <<initialized, missed, bootCid, book, gap, credit, events>>
  BY GridAssumption, Counts DEF TypeOK, BootTracked, PlaceBuy, PlaceSell, lifeVars, marketVars
<1>2. Undispatched' = Undispatched
  BY <1>1, StreamIs
<1>3. CASE PlaceBuy
  <2>1. cursor \in Levels /\ cursor' = cursor - 1 /\ cursor < 0 /\ budget' = budget
    BY <1>1, <1>3 DEF PlaceBuy, Levels
  <2>2. Reserved' <= Reserved
    <3>1. Reserved' = Reserved
      BY <1>1, <2>1 DEF Reserved
    <3> QED
      BY <1>1, <3>1
  <2>3. CASE UNCHANGED <<mapVars, sendq>>
    BY <1>1, <2>1, <2>2, <2>3, LoopCalm DEF mapVars
  <2>4. CASE SubmitLevelOrder(levelOrders, cursor, "BUY", 0)
    <3>1. MakerSafe(cursor, "BUY")
      BY <1>1, <2>1 DEF MakerSafe, NothingCrosses
    <3>2. NothingCrosses' /\ BootTracked' /\ Sells' \subseteq Sells /\ Owed' \subseteq Owed
      <4>1. /\ "BUY" \in Sides /\ 0 \in Nat /\ Undispatched' \subseteq Undispatched
            /\ UNCHANGED <<book, gap, missed, bootCid, initialized>>
            /\ cursor' # 0 => cursor # 0
            /\ cursor' < 0 => cursor < 0
        BY <1>1, <1>2, <2>1 DEF Sides
      <4> QED
        BY <1>1, <2>1, <2>4, <3>1, <4>1, SubmitCalm
    <3>3. credit <= credit'
      BY <1>1 DEF TypeOK
    <3>4. Credited'
      BY <1>1, <1>2, <2>2, <3>2, <3>3, QuietCredited
    <3> QED
      BY <3>2, <3>4
  <2> QED
    BY <1>3, <2>3, <2>4 DEF PlaceBuy
<1>4. CASE PlaceSell
  <2>1. cursor \in Levels /\ cursor # 0 /\ ~(cursor < 0) /\ ~(cursor' < 0) /\ cursor <= Hi
    BY <1>1, <1>4 DEF PlaceSell, Levels
  <2>2. CASE budget = 0
    <3>1. cursor' = 0 /\ UNCHANGED <<budget, mapVars, sendq>>
      BY <1>4, <2>2 DEF PlaceSell
    <3>2. Reserved' <= Reserved
      BY <1>1, <3>1 DEF Reserved
    <3> QED
      BY <1>1, <2>1, <3>1, <3>2, LoopCalm DEF mapVars
  <2>3. CASE budget # 0
    <3>1. /\ cursor' = IF cursor = Hi THEN 0 ELSE cursor + 1
          /\ budget' = IF InventoryMode = "prebalanced" THEN budget ELSE budget - 1
          /\ SubmitLevelOrder(levelOrders, cursor, "SELL", 0)
      BY <1>4, <2>3 DEF PlaceSell
    <3>2. Reserved' <= Reserved + (-1)
      BY <1>1, <2>1, <2>3, <3>1 DEF Reserved
    <3>3. MakerSafe(cursor, "SELL")
      BY <1>1, <2>1 DEF MakerSafe, NothingCrosses
    <3>4. /\ NothingCrosses' /\ BootTracked' /\ Owed' \subseteq Owed
          /\ \E new : Sells' \subseteq Sells \cup {new}
      BY <1>1, <1>2, <2>1, <3>1, <3>3, SubmitCalm DEF Sides
    <3>5. /\ Cardinality(Sells') \in Nat /\ Cardinality(Sells') <= Cardinality(Sells) + 1
          /\ Cardinality(Owed') \in Nat /\ Cardinality(Owed') <= Cardinality(Owed) + 0
      BY <3>4, Counts, AtMost
    <3>6. credit + 1 + 0 + (-1) <= credit'
      BY <1>1 DEF TypeOK
    <3>7. Credited'
      BY <1>1, <1>2, <3>2, <3>5, <3>6, MovedCredited
    <3> QED
      BY <3>4, <3>7
  <2> QED
    BY <2>2, <2>3
<1> QED
  BY <1>3, <1>4

\* Before and after the placing loop, nothing is offered.
LEMMA BeginCalm ==
  ASSUME TypeOK, TypeOK', Tracked, NothingCrosses, BootTracked, Credited,
         Initialize \/ PlaceBootstrap
  PROVE  NothingCrosses' /\ BootTracked' /\ Credited'
<1>1. /\ cursor \in Int /\ gap \in Int /\ Lo \in Int /\ Hi \in Int /\ Lo < 0 /\ 0 < Hi
      /\ Reserved \in Nat
      /\ UNCHANGED <<missed, book, gap, credit, events>>
  BY GridAssumption, Counts DEF TypeOK, Initialize, PlaceBootstrap, marketVars
<1>2. CASE Initialize
  <2>1. /\ ~initialized /\ initialized' /\ cursor' = -1
        /\ UNCHANGED <<orders, orderSeq, bootCid, sendq>>
    BY <1>2 DEF Initialize, mapVars
  <2>2. Reserved' <= Reserved
    <3>1. Reserved' = Reserved
      BY <2>1 DEF Reserved
    <3> QED
      BY <1>1, <3>1
  <2> QED
    BY <1>1, <2>1, <2>2, LoopCalm
<1>3. CASE PlaceBootstrap
  <2>1. initialized /\ UNCHANGED initialized /\ cursor < 0
    BY <1>1, <1>3 DEF PlaceBootstrap, BootTracked, lifeVars
  <2>2. CASE /\ InventoryMode = "prebalanced"
             /\ cursor' = 1
             /\ UNCHANGED <<mapVars, bootCid, sendq>>
    <3>1. Reserved' <= Reserved
      <4>1. Reserved = Hi
        BY <2>1, <2>2 DEF Reserved
      <4>2. Reserved' = Hi - 1 + 1
        BY <2>1, <2>2 DEF Reserved
      <4> QED
        BY <1>1, <4>1, <4>2
    <3> QED
      BY <1>1, <2>1, <2>2, <3>1, LoopCalm DEF mapVars
  <2>3. CASE /\ InventoryMode = "quote_only_bootstrap"
             /\ cursor' = 0
             /\ ExecuteBootstrap(BootType)
    <3>1. Undispatched' = Undispatched
      BY <1>1, StreamIs
    <3>2. /\ NothingCrosses' /\ BootTracked' /\ Sells' \subseteq Sells /\ Owed' \subseteq Owed
          /\ \A r \in Undispatched' : r.type = "FILLED" => r.cid # bootCid'
      BY <1>1, <2>1, <2>3, <3>1, BootstrapCalm
    <3>3. Reserved' <= Reserved
      <4>1. Reserved' = 0
        BY <2>1, <2>3 DEF Reserved
      <4> QED
        BY <1>1, <4>1
    <3>4. credit <= credit'
      BY <1>1 DEF TypeOK
    <3>5. Credited'
      BY <3>2, <3>3, <3>4, QuietCredited
    <3> QED
      BY <3>2, <3>5
  <2> QED
    BY <1>3, <2>2, <2>3 DEF PlaceBootstrap
<1> QED
  BY <1>2, <1>3

\* The dispatcher takes the oldest report, and no other reports the same end.
LEMMA TakenIs ==
  ASSUME TypeOK, Tracked, BootTracked, NEW types, Deliver(types)
  PROVE  /\ Head(events) \in Undispatched /\ Undispatched' \subseteq Undispatched
         /\ Head(events).type \in types
         /\ Head(events).type \in Terminal /\ GridCid(Head(events).cid)
               => \A r \in Undispatched' : r.type \in Terminal => r.cid # Head(events).cid
         /\ UNCHANGED <<initialized, book, gap, credit>> /\ cursor = 0
<1>1. events # <<>> /\ events' = Tail(events) /\ Head(events).type \in types
      /\ UNCHANGED <<initialized, book, gap, credit>> /\ cursor = 0
  BY DEF Deliver, marketVars
<1>2. events \in Seq(Report)
  BY DEF TypeOK
<1>3. /\ 1 \in DOMAIN events /\ Head(events) = events[1]
      /\ \A i \in DOMAIN events' : /\ i + 1 \in DOMAIN events /\ events'[i] = events[i + 1]
                                   /\ i + 1 # 1
  BY <1>1, <1>2
<1>4. ASSUME events[1].type \in Terminal, GridCid(events[1].cid),
             NEW i \in DOMAIN events', events'[i].type \in Terminal
      PROVE  events'[i].cid # events[1].cid
  BY <1>3, <1>4 DEF Tracked, Consistent
<1> QED
  BY <1>1, <1>3, <1>4, StreamIs DEF Undispatched

\* A fill that is answered turns what was owed into an offer.
LEMMA AnswerCalm ==
  ASSUME TypeOK, TypeOK', Tracked, NothingCrosses, BootTracked, Credited, NewId,
         Deliver({"FILLED"}), UNCHANGED <<missed, bootCid>>, UNCHANGED loopVars,
         NEW cid, cid = Head(events).cid, cid \in DOMAIN orders, NEW slots,
         CounterLevel(orders[cid]) \in Levels,
         SubmitLevelOrder(slots, CounterLevel(orders[cid]), CounterSide(orders[cid]),
                          cycleSeq + 1)
  PROVE  NothingCrosses' /\ BootTracked' /\ Credited'
<1> DEFINE o == orders[cid]
<1>1. /\ Head(events) \in Undispatched /\ Undispatched' \subseteq Undispatched
      /\ Head(events).type = "FILLED" /\ cursor = 0 /\ cursor' = 0
      /\ UNCHANGED <<initialized, book, gap, credit, missed, bootCid, budget>>
  BY TakenIs DEF loopVars
<1>2. GridCid(cid) /\ initialized
  BY DEF Tracked, Consistent, BootTracked
<1>3. \A r \in Undispatched' : r.type = "FILLED" => r.cid # cid
  BY <1>1, <1>2, TakenIs DEF Terminal
<1>4. /\ MakerSafe(CounterLevel(o), CounterSide(o)) /\ o.side \in Sides
      /\ CounterSide(o) \in Sides
  BY <1>1 DEF NothingCrosses, CounterSide, Sides
<1>5. cycleSeq + 1 \in Nat
  BY CyclesCounted
<1>6. Reserved' = Reserved /\ Reserved \in Nat
  BY <1>1, Counts DEF Reserved
<1>7. credit <= credit' /\ credit \in Int
  BY <1>1 DEF TypeOK
<1>8. /\ NothingCrosses' /\ BootTracked'
      /\ \E new : Sells' \subseteq Sells \cup {new}
      /\ CounterSide(o) = "BUY" => Sells' \subseteq Sells
      /\ Owed' \subseteq {d \in Owed : \E r \in Undispatched' : r.type = "FILLED" /\ r.cid = d}
  BY <1>1, <1>2, <1>4, <1>5, SubmitCalm
<1>9. Credited'
  <2>1. CASE o.side = "SELL"
    <3>1. Sells' \subseteq Sells /\ Owed' \subseteq Owed
      BY <1>8, <2>1 DEF CounterSide
    <3> QED
      BY <1>1, <1>6, <1>7, <3>1, QuietCredited
  <2>2. CASE o.side = "BUY"
    <3>1. cid \in Owed /\ Owed' \subseteq Owed \ {cid}
      BY <1>1, <1>3, <1>8, <2>2, PendingIs DEF Owed
    <3>2. /\ Cardinality(Sells') \in Nat /\ Cardinality(Sells') <= Cardinality(Sells) + 1
          /\ Cardinality(Owed') \in Nat /\ Cardinality(Owed') <= Cardinality(Owed) + (-1)
      BY <1>8, <3>1, Counts, AtMost
    <3>3. Reserved' <= Reserved + 0 /\ credit + 1 + (-1) + 0 <= credit'
      BY <1>6, <1>7
    <3> QED
      BY <1>1, <3>2, <3>3, MovedCredited
  <2> QED
    BY <1>4, <2>1, <2>2 DEF Sides
<1> QED
  BY <1>8, <1>9

\* Reports dispatched.
LEMMA DispatchCalm ==
  ASSUME TypeOK, TypeOK', Tracked, NothingCrosses, BootTracked, Credited, NewId,
         Dispatch
  PROVE  NothingCrosses' /\ BootTracked' /\ Credited'
<1> DEFINE r == Head(events)
<1>1. \E types : Deliver(types)
  BY DEF Dispatch, DispatchNew, DispatchFilled, DispatchRejected, DispatchCanceled
<1>2. /\ r \in Undispatched /\ Undispatched' \subseteq Undispatched
      /\ UNCHANGED <<initialized, book, gap, credit>> /\ cursor = 0
      /\ r.cid \in Cid /\ r.cid # NoCid /\ Reserved \in Nat
  BY <1>1, TakenIs, ReportIs, Counts
    \* handlers that submit nothing
<1>3. ASSUME UNCHANGED <<orders, orderSeq, missed, cursor, budget, bootCid, sendq>>
      PROVE  NothingCrosses' /\ BootTracked' /\ Credited'
  <2>1. Queued' = Queued
    BY <1>3, QueueIs
  <2>2. Reserved' <= Reserved
    <3>1. Reserved' = Reserved
      BY <1>2, <1>3 DEF Reserved
    <3> QED
      BY <1>2, <3>1
  <2> QED
    BY <1>2, <1>3, <2>1, <2>2, QuietCalm
<1>4. CASE DispatchNew \/ DispatchCanceled
  <2>1. UNCHANGED <<orders, orderSeq, missed, cursor, budget, bootCid, sendq>>
    BY <1>4 DEF DispatchNew, DispatchCanceled, mapVars, loopVars
  <2> QED
    BY <1>3, <2>1
<1>5. CASE DispatchFilled
  <2>1. r.type = "FILLED" /\ UNCHANGED missed /\ Deliver({"FILLED"})
    BY <1>5 DEF DispatchFilled, Deliver
  <2>2. CASE status = "EMERGENCY_STOPPING" /\ UNCHANGED <<loopVars, mapVars, cycleSeq, bootCid, sendq>>
    BY <1>3, <2>1, <2>2 DEF loopVars, mapVars
  <2>3. CASE r.cid = bootCid /\ OnBootstrapFilled(r.qty)
    <3>1. /\ bootCid # NoCid /\ bootCid' = NoCid /\ cursor' = 1 /\ budget' = r.qty
          /\ UNCHANGED <<orders, orderSeq, sendq>>
          /\ initialized /\ initialized' /\ InventoryMode # "prebalanced"
      BY <1>2, <2>3 DEF OnBootstrapFilled, BootTracked, mapVars
    <3>2. Queued' = Queued
      BY <3>1, QueueIs
    <3>3. /\ NothingCrosses' /\ BootTracked' /\ Sells' \subseteq Sells /\ Owed' \subseteq Owed
      <4>1. ~(cursor' < 0)
        BY <3>1
      <4> QED
        BY <1>2, <2>1, <3>1, <3>2, <4>1, StillCalm
    <3>4. PICK q \in Nat : r.qty = q
      BY <1>2, StreamIs, GridAssumption DEF Report
    <3>5. Reserved = 0 /\ Reserved' = q
      BY <1>2, <3>1, <3>4 DEF Reserved
    <3>6. /\ Cardinality(Sells') \in Nat /\ Cardinality(Sells') <= Cardinality(Sells) + 0
          /\ Cardinality(Owed') \in Nat /\ Cardinality(Owed') <= Cardinality(Owed) + 0
      BY <3>3, Counts, AtMost
    <3>7. Reserved' <= Reserved + q
      BY <3>5
    <3>8. PICK b \in Int : Bound' = b /\ b <= Bound + 0 + 0 + q
      BY <3>6, <3>7, BoundIs
    <3>9. Bound \in Nat /\ credit \in Int /\ credit' = credit /\ Bound + q <= credit
      BY <1>2, <2>1, <2>3, <3>4, Counts DEF TypeOK, Credited
    <3>10. b <= credit'
      BY <3>8, <3>9
    <3>11. \A x \in Undispatched' : x.cid # bootCid'
      BY <1>2, <3>1, ReportIs
    <3>12. Credited'
      BY <3>8, <3>10, <3>11 DEF Credited
    <3> QED
      BY <3>3, <3>12
  <2>4. CASE r.cid # bootCid /\ OnOrderFilled(r.cid)
    <3>1. UNCHANGED loopVars /\ UNCHANGED bootCid
      BY <2>4 DEF OnOrderFilled
    <3>2. CASE UNCHANGED <<mapVars, cycleSeq, sendq>>
      BY <1>3, <2>1, <3>1, <3>2 DEF loopVars, mapVars
    <3>3. CASE r.cid \in DOMAIN orders /\ UNCHANGED <<orders, orderSeq, sendq>>
      BY <1>3, <2>1, <3>1, <3>3 DEF loopVars
    <3>4. CASE /\ r.cid \in DOMAIN orders /\ CounterLevel(orders[r.cid]) \in Levels
               /\ SubmitLevelOrder([levelOrders EXCEPT ![orders[r.cid].level] = NoCid],
                                   CounterLevel(orders[r.cid]), CounterSide(orders[r.cid]),
                                   cycleSeq + 1)
      BY <2>1, <3>1, <3>4, AnswerCalm
    <3> QED
      BY <2>4, <3>2, <3>3, <3>4 DEF OnOrderFilled
  <2> QED
    BY <1>5, <2>2, <2>3, <2>4 DEF DispatchFilled
<1>6. CASE DispatchRejected
  <2>1. r.type \in {"EXPIRED", "REJECTED"} /\ UNCHANGED loopVars /\ r.cid \notin DOMAIN orders
    BY <1>2, <1>6 DEF DispatchRejected, Deliver, NothingCrosses, Tracked, Consistent
  <2>2. CASE UNCHANGED <<orders, orderSeq, missed, bootCid, sendq>>
    BY <1>3, <2>1, <2>2 DEF loopVars
  <2>3. CASE r.cid = bootCid /\ UNCHANGED missed /\ ExecuteBootstrap("MARKET")
    <3>1. bootCid # NoCid /\ initialized /\ InventoryMode # "prebalanced"
      BY <1>2, <2>3 DEF BootTracked
    <3>2. cursor' = 0 /\ budget' = budget
      BY <1>2, <2>1 DEF loopVars
    <3>3. /\ NothingCrosses' /\ BootTracked' /\ Sells' \subseteq Sells /\ Owed' \subseteq Owed
          /\ \A x \in Undispatched' : x.type = "FILLED" => x.cid # bootCid'
      BY <1>2, <2>3, <3>1, <3>2, BootstrapCalm
    <3>4. Reserved' <= Reserved
      <4>1. Reserved' = 0
        BY <1>2, <3>1, <3>2 DEF Reserved
      <4> QED
        BY <1>2, <4>1
    <3>5. credit <= credit'
      BY <1>2 DEF TypeOK
    <3>6. Credited'
      BY <3>3, <3>4, <3>5, QuietCredited
    <3> QED
      BY <3>3, <3>6
  <2> QED
    BY <1>6, <2>1, <2>2, <2>3
       DEF DispatchRejected, OnBootstrapRejected, OnOrderRejected, mapVars
<1> QED
  BY <1>4, <1>5, <1>6 DEF Dispatch

\* A cancelled book puts cancellations into the stream.
LEMMA CancelIs ==
  ASSUME TypeOK, CancelBook
  PROVE  /\ book' = {}
         /\ \A r \in Undispatched' : r \in Undispatched \/ r.type = "CANCELED"
<1>1. PICK new \in Seq(Report) : /\ events' = events \o new
                                 /\ \A i \in DOMAIN new : new[i].type = "CANCELED"
  BY CancelType
<1>2. Undispatched' = Undispatched \cup {new[i] : i \in DOMAIN new}
  BY <1>1, StreamIs
<1> QED
  BY <1>1, <1>2, CancelType

\* Commands, and the task of the emergency stop.
LEMMA CommandCalm ==
  ASSUME TypeOK, TypeOK', Tracked, NothingCrosses, BootTracked, Credited,
         Pause \/ Resume \/ Stop \/ EmergencyStop \/ CancelAgain \/ RestCancel \/ MarkStopped
  PROVE  NothingCrosses' /\ BootTracked' /\ Credited'
<1>1. /\ UNCHANGED <<initialized, cursor, budget, orders, orderSeq, missed, bootCid, gap, credit>>
      /\ sendq' = sendq \/ sendq' = Append(sendq, CancelAll)
      /\ UNCHANGED <<book, events>> \/ CancelBook
  BY DEF Pause, Resume, Stop, EmergencyStop, CancelAgain, RestCancel, MarkStopped, Command,
         loopVars, mapVars, marketVars
<1>2. CancelAll \in WireOrder
  BY GridAssumption DEF CancelAll, WireOrder, Cid, Levels
<1>3. \A o \in Queued' : o \in Queued \/ o = CancelAll
  BY <1>1, <1>2, QueueIs
<1>4. /\ \A o \in book' : o \in book \cup Queued
      /\ \A r \in Undispatched' : r \in Undispatched \/ r.type = "CANCELED"
  <2>1. CASE UNCHANGED <<book, events>>
    BY <2>1, StreamIs
  <2>2. CASE CancelBook
    BY <2>2, CancelIs
  <2> QED
    BY <1>1, <2>1, <2>2
<1>5. Reserved' <= Reserved
  <2>1. Reserved' = Reserved /\ Reserved \in Nat
    BY <1>1, Counts DEF Reserved
  <2> QED
    BY <2>1
<1> QED
  BY <1>1, <1>3, <1>4, <1>5, QuietCalm

\* An order of the bootstrap has an id that is not the grid's.
LEMMA OffGridIs ==
  ASSUME TypeOK, Tracked, BootTracked, NEW o \in Queued \cup book
  PROVE  /\ o \in WireOrder /\ o.cid \in Cid
         /\ OffGrid(o) => ~GridCid(o.cid)
         /\ o.cid.side = "BOOT" => o.cid.seq <= orderSeq
         /\ ~OffGrid(o) => /\ Registered(levelOrders, orders, o)
                           /\ GridCid(o.cid) /\ o.cid \in DOMAIN orders
<1>1. o \in WireOrder /\ o.cid \in Cid
  BY QueueIs DEF TypeOK, WireOrder
<1> QED
  BY <1>1 DEF BootTracked, Tracked, Consistent, Queued, Registered

\* The writer's order and the exchange's answer.
LEMMA WriterCalm ==
  ASSUME TypeOK, TypeOK', Tracked, NothingCrosses, BootTracked, Credited, WriterSend
  PROVE  NothingCrosses' /\ BootTracked' /\ Credited'
<1> DEFINE o == Head(sendq)
<1>1. /\ sendq # <<>> /\ sendq' = Tail(sendq)
      /\ UNCHANGED <<initialized, cursor, budget, orders, orderSeq, missed, bootCid, gap>>
  BY DEF WriterSend, lifeVars, loopVars, mapVars
<1>2. o \in Queued /\ Queued' \subseteq Queued
  BY <1>1, QueueIs
<1>3. /\ o \in WireOrder /\ o.cid \in Cid
      /\ OffGrid(o) => ~GridCid(o.cid)
      /\ o.cid.side = "BOOT" => o.cid.seq <= orderSeq
  BY <1>2, OffGridIs
<1>4. Reserved' <= Reserved
  <2>1. Reserved' = Reserved /\ Reserved \in Nat
    BY <1>1, Counts DEF Reserved
  <2> QED
    BY <2>1
<1>5. \A type \in {"NEW", "EXPIRED", "REJECTED"} :
         /\ Reports(type, o.cid) \in Report
         /\ Reports(type, o.cid).type = type /\ Reports(type, o.cid).cid = o.cid
  BY <1>3, GridAssumption DEF Reports, Report
    \* answers that fill nothing
<1>6. ASSUME \A p \in book' : p \in book \/ p = o, credit' = credit,
             \A r \in Undispatched' :
                \/ r \in Undispatched
                \/ r.type \in {"NEW", "CANCELED"}
                \/ /\ ~GridCid(r.cid) /\ r.type # "FILLED"
                   /\ r.cid.side = "BOOT" => r.cid.seq <= orderSeq
      PROVE  NothingCrosses' /\ BootTracked' /\ Credited'
  BY <1>1, <1>2, <1>4, <1>6, QuietCalm
<1>7. CASE UNCHANGED <<book, credit, events>>
  <2>1. Undispatched' = Undispatched
    BY <1>7, StreamIs
  <2> QED
    BY <1>6, <1>7, <2>1
<1>8. CASE /\ book' = book \cup {o} /\ UNCHANGED credit
           /\ events' = Append(events, Reports("NEW", o.cid))
  <2>1. Undispatched' = Undispatched \cup {Reports("NEW", o.cid)}
    BY <1>5, <1>8, StreamIs
  <2> QED
    BY <1>5, <1>6, <1>8, <2>1
<1>9. CASE /\ Crosses(o) \/ IsBoot(o)
           /\ UNCHANGED <<book, credit>>
           /\ events' = Append(events, Reports("EXPIRED", o.cid))
  <2>1. Undispatched' = Undispatched \cup {Reports("EXPIRED", o.cid)}
    BY <1>5, <1>9, StreamIs
  <2>2. ~Crosses(o)
    BY <1>2 DEF NothingCrosses, Crosses, OffGrid, IsBoot, Sides
  <2>3. ~GridCid(o.cid) /\ UNCHANGED <<book, credit>>
    BY <1>3, <1>9, <2>2 DEF OffGrid
  <2> QED
    BY <1>3, <1>5, <1>6, <2>1, <2>3
<1>10. o.side # "ANCHOR"
  BY <1>2 DEF NothingCrosses, Working, OffGrid, IsBoot, Sides
<1>11. CASE CancelBook /\ UNCHANGED credit
  BY <1>6, <1>11, CancelIs
<1>12. CASE /\ o.side = "MARKET" /\ UNCHANGED book
            /\ \E q \in BootYield :
                 /\ credit' = credit + q
                 /\ events' = events \o <<Reports("NEW", o.cid),
                                  [type |-> "FILLED", cid |-> o.cid, qty |-> q]>>
  <2>1. PICK q \in BootYield :
           /\ credit' = credit + q
           /\ events' = events \o <<Reports("NEW", o.cid),
                            [type |-> "FILLED", cid |-> o.cid, qty |-> q]>>
    BY <1>12
  <2> DEFINE fill == [type |-> "FILLED", cid |-> o.cid, qty |-> q]
  <2>2. q \in Nat /\ fill \in Report /\ fill.cid = o.cid /\ fill.qty = q
    BY <1>3, GridAssumption DEF BootYield, Report
  <2> HIDE DEF fill
  <2>3. Undispatched' = Undispatched \cup {Reports("NEW", o.cid), fill}
    <3>1. events' = events \o <<Reports("NEW", o.cid), fill>>
      BY <2>1 DEF fill
    <3> QED
      BY <1>5, <2>2, <3>1, StreamIs
  <2>4. ~GridCid(o.cid) /\ book' = book
    BY <1>3, <1>12 DEF OffGrid, IsBoot
  <2>5. /\ NothingCrosses' /\ BootTracked'
        /\ Sells' \subseteq Sells /\ Owed' \subseteq Owed
    BY <1>1, <1>2, <1>3, <1>5, <2>2, <2>3, <2>4, StillCalm
  <2>6. credit <= credit' /\ credit + q <= credit'
    BY <2>1, <2>2 DEF TypeOK
  <2>7. \A r \in Undispatched' : r.type = "FILLED" /\ r.cid = bootCid'
            => \/ r \in Undispatched /\ r.cid = bootCid
               \/ credit + r.qty <= credit'
    BY <1>1, <1>5, <2>2, <2>3, <2>6
  <2>8. Credited'
    BY <1>4, <2>5, <2>6, <2>7, QuietCredited
  <2> QED
    BY <2>5, <2>8
<1> QED
  BY <1>7, <1>8, <1>9, <1>10, <1>11, <1>12 DEF WriterSend, Answer, marketVars

\* The price fills an order of the grid.
LEMMA FillCalm ==
  ASSUME TypeOK, TypeOK', Tracked, NothingCrosses, BootTracked, Credited,
         NEW o \in book, Fill(o)
  PROVE  NothingCrosses' /\ BootTracked' /\ Credited'
<1> DEFINE fill == Reports("FILLED", o.cid)
<1>1. /\ o.side \in Sides /\ o.level = IF o.side = "BUY" THEN gap ELSE gap + 1
      /\ book' = book \ {o} /\ events' = Append(events, fill)
      /\ UNCHANGED <<initialized, cursor, budget, orders, orderSeq, missed, bootCid, sendq, gap>>
  BY DEF Fill, lifeVars, loopVars, mapVars
<1>2. /\ ~OffGrid(o) /\ o \in WireOrder /\ o.cid \in Cid /\ GridCid(o.cid)
      /\ o.cid \in DOMAIN orders
      /\ orders[o.cid] = [level |-> o.level, side |-> o.side]
  BY <1>1, OffGridIs DEF OffGrid, IsBoot, Sides, Registered
<1>3. o \notin Queued
  BY <1>2 DEF Tracked, Consistent, Queued
<1>4. fill \in Report /\ fill.cid = o.cid /\ fill.type = "FILLED"
  BY <1>2, GridAssumption DEF Reports, Report
<1> HIDE DEF fill
<1>5. Undispatched' = Undispatched \cup {fill} /\ Queued' = Queued
  BY <1>1, <1>4, StreamIs, QueueIs
<1>6. /\ Working' \subseteq Working /\ o \in Working /\ o \notin Working'
  BY <1>1, <1>2, <1>3, <1>5 DEF Working
<1>7. gap \in Int /\ credit \in Int
  BY DEF TypeOK, Levels
<1>8. MakerSafe(CounterLevel(orders[o.cid]), CounterSide(orders[o.cid]))
  <2>1. orders[o.cid].level = o.level /\ orders[o.cid].side = o.side
    BY <1>2
  <2>2. CASE o.side = "BUY"
    BY <1>1, <1>7, <2>1, <2>2 DEF MakerSafe, CounterLevel, CounterSide
  <2>3. CASE o.side = "SELL"
    BY <1>1, <1>7, <2>1, <2>3 DEF MakerSafe, CounterLevel, CounterSide
  <2> QED
    BY <1>1, <2>2, <2>3 DEF Sides
<1>9. NothingCrosses'
  <2>1. \A p \in Queued' : OffGrid(p) \/ MakerSafe(p.level, p.side)'
    BY <1>1, <1>5 DEF NothingCrosses, MakerSafe
  <2>2. \A r \in Undispatched' : r.type = "FILLED" /\ r.cid \in DOMAIN orders' =>
            MakerSafe(CounterLevel(orders[r.cid]), CounterSide(orders[r.cid]))'
    BY <1>1, <1>4, <1>5, <1>8 DEF NothingCrosses, MakerSafe
  <2>3. \A r \in Undispatched' : r.type \in {"EXPIRED", "REJECTED"} => ~GridCid(r.cid)
    BY <1>4, <1>5 DEF NothingCrosses
  <2>4. /\ ~initialized' \/ cursor' # 0 \/ bootCid' # NoCid => gap' <= 0
        /\ ~initialized' \/ cursor' < 0 => gap' >= -1
    BY <1>1 DEF NothingCrosses
  <2> QED
    BY <1>1, <1>6, <2>1, <2>2, <2>3, <2>4 DEF NothingCrosses
<1>10. BootTracked'
  BY <1>1, <1>2, <1>4, <1>5 DEF BootTracked, GridCid
<1>11. Owed' \subseteq Owed \cup {o.cid} /\ (o.side = "SELL" => Owed' \subseteq Owed)
  <2>1. \A d \in Owed' : d \in DOMAIN orders /\ orders[d].side = "BUY"
                         /\ \E r \in Undispatched' : r.type = "FILLED" /\ r.cid = d
    BY <1>1 DEF Owed, Pending, Undispatched
  <2>2. \A d \in Owed' : d = o.cid \/ d \in Owed
    BY <1>4, <1>5, <2>1, PendingIs DEF Owed
  <2>3. o.side = "SELL" => orders[o.cid].side # "BUY"
    BY <1>2
  <2> QED
    BY <2>1, <2>2, <2>3
<1>12. Reserved' = Reserved /\ Reserved \in Nat
  BY <1>1, Counts DEF Reserved
<1>13. \A r \in Undispatched' : r.type = "FILLED" /\ r.cid = bootCid'
            => r \in Undispatched /\ r.cid = bootCid
  BY <1>1, <1>2, <1>4, <1>5 DEF BootTracked
<1>14. CASE o.side = "BUY"
  <2>1. Sells' \subseteq Sells /\ Owed' \subseteq Owed \cup {o.cid}
    BY <1>6, <1>11 DEF Sells
  <2>2. /\ Cardinality(Sells') \in Nat /\ Cardinality(Sells') <= Cardinality(Sells) + 0
        /\ Cardinality(Owed') \in Nat /\ Cardinality(Owed') <= Cardinality(Owed) + 1
    BY <2>1, Counts, AtMost
  <2>3. credit' = credit + 1
    BY <1>14 DEF Fill
  <2>4. Reserved' <= Reserved + 0 /\ credit + 0 + 1 + 0 <= credit'
    BY <1>7, <1>12, <2>3
  <2>5. Credited'
    BY <1>13, <2>2, <2>4, MovedCredited
  <2> QED
    BY <1>9, <1>10, <2>5
<1>15. CASE o.side = "SELL"
  <2>1. o \in Sells /\ Sells' \subseteq Sells \ {o} /\ Owed' \subseteq Owed
    BY <1>6, <1>11, <1>15 DEF Sells
  <2>2. /\ Cardinality(Sells') \in Nat /\ Cardinality(Sells') <= Cardinality(Sells) + (-1)
        /\ Cardinality(Owed') \in Nat /\ Cardinality(Owed') <= Cardinality(Owed) + 0
    BY <2>1, Counts, AtMost
  <2>3. credit' = credit - 1
    BY <1>15 DEF Fill
  <2>4. Reserved' <= Reserved + 0 /\ credit + (-1) + 0 + 0 <= credit'
    BY <1>7, <1>12, <2>3
  <2>5. Credited'
    BY <1>13, <2>2, <2>4, MovedCredited
  <2> QED
    BY <1>9, <1>10, <2>5
<1> QED
  BY <1>1, <1>14, <1>15 DEF Sides

\* The price moves, over no line whose order is on its way.
LEMMA PriceCalm ==
  ASSUME Calm, TypeOK, TypeOK', Tracked, NothingCrosses, BootTracked, Credited,
         PriceUp \/ PriceDown
  PROVE  NothingCrosses' /\ BootTracked' /\ Credited'
<1>1. /\ UNCHANGED <<initialized, cursor, budget, orders, orderSeq, missed, bootCid, sendq,
                     book, credit, events>>
      /\ cursor = 0 /\ initialized
      /\ \/ gap' = gap + 1 /\ gap + 1 \notin InFlightLevels
         \/ gap' = gap - 1 /\ gap \notin InFlightLevels
  BY DEF PriceUp, PriceDown, PriceCross, MayCross, Calm, lifeVars, loopVars, mapVars
<1>2. Queued' = Queued /\ Undispatched' = Undispatched
  BY <1>1, StreamIs, QueueIs
<1>3. gap \in Int /\ credit \in Int /\ Hi \in Int /\ 0 < Hi /\ Lo \in Int
  BY GridAssumption DEF TypeOK, Levels
<1>4. ASSUME NEW l \in InFlightLevels, l \in Int, NEW side, side \in Sides, MakerSafe(l, side)
      PROVE  MakerSafe(l, side)'
  <2>1. \/ gap' = gap + 1 /\ l # gap + 1
        \/ gap' = gap - 1 /\ l # gap
    BY <1>1
  <2> QED
    BY <1>3, <1>4, <2>1 DEF MakerSafe, Sides
<1>5. \A p \in Queued' : OffGrid(p) \/ MakerSafe(p.level, p.side)'
  <2> SUFFICES ASSUME NEW p \in Queued, ~OffGrid(p) PROVE MakerSafe(p.level, p.side)'
    BY <1>2
  <2>1. p.level \in InFlightLevels /\ MakerSafe(p.level, p.side) /\ p.side \in Sides
    BY DEF InFlightLevels, NothingCrosses, Working
  <2>2. p.level \in Int
    BY <1>3, OffGridIs DEF WireOrder, Levels
  <2> QED
    BY <1>4, <2>1, <2>2
<1>6. \A r \in Undispatched' : r.type = "FILLED" /\ r.cid \in DOMAIN orders' =>
            MakerSafe(CounterLevel(orders[r.cid]), CounterSide(orders[r.cid]))'
  <2> SUFFICES ASSUME NEW r \in Undispatched, r.type = "FILLED", r.cid \in DOMAIN orders
               PROVE  MakerSafe(CounterLevel(orders[r.cid]), CounterSide(orders[r.cid]))'
    BY <1>1, <1>2
  <2> DEFINE l == CounterLevel(orders[r.cid])
             side == CounterSide(orders[r.cid])
  <2>1. l \in InFlightLevels /\ MakerSafe(l, side) /\ side \in Sides
    BY PendingIs DEF InFlightLevels, NothingCrosses, CounterSide, Sides
  <2>2. l \in Int
    <3>1. orders[r.cid].level \in Int
      BY <1>3 DEF TypeOK, Levels
    <3> QED
      BY <3>1 DEF CounterLevel
  <2>3. orders' = orders
    BY <1>1
  <2> HIDE DEF l, side
  <2>4. PICK k \in Int, s \in Sides : k = l /\ s = side
    BY <2>1, <2>2
  <2>5. MakerSafe(k, s)'
    BY <1>4, <2>1, <2>4
  <2> QED
    BY <2>3, <2>4, <2>5 DEF l, side, MakerSafe, CounterLevel, CounterSide
<1>7. bootCid' # NoCid => gap' <= 0
  <2> SUFFICES ASSUME bootCid # NoCid PROVE gap' <= 0
    BY <1>1
  <2>1. gap <= 0 /\ 1 \in InFlightLevels
    BY <1>3 DEF NothingCrosses, InFlightLevels
  <2> QED
    BY <1>1, <1>3, <2>1
<1>8. Working' = Working
  BY <1>1, <1>2 DEF Working
<1>9. NothingCrosses'
  BY <1>1, <1>2, <1>5, <1>6, <1>7, <1>8 DEF NothingCrosses
<1>10. BootTracked'
  BY <1>1, <1>2 DEF BootTracked
<1>11. Sells' \subseteq Sells /\ Owed' \subseteq Owed
  BY <1>1, <1>8 DEF Sells, Owed, Pending
<1>12. Reserved' <= Reserved /\ credit <= credit'
  <2>1. Reserved' = Reserved /\ Reserved \in Nat
    BY <1>1, Counts DEF Reserved
  <2> QED
    BY <1>1, <1>3, <2>1
<1>13. Credited'
  BY <1>1, <1>2, <1>11, <1>12, QuietCredited
<1> QED
  BY <1>9, <1>10, <1>13

\* The limit order of the bootstrap fills, or an order is canceled by hand.
LEMMA LeaveCalm ==
  ASSUME TypeOK, TypeOK', Tracked, NothingCrosses, BootTracked, Credited,
         NEW o \in book, FillBootstrap(o) \/ UserCancel(o)
  PROVE  NothingCrosses' /\ BootTracked' /\ Credited'
<1>1. /\ book' = book \ {o}
      /\ UNCHANGED <<initialized, cursor, budget, orders, orderSeq, missed, bootCid, sendq, gap>>
  BY DEF FillBootstrap, UserCancel, lifeVars, loopVars, mapVars
<1>2. Queued' = Queued
  BY <1>1, QueueIs
<1>3. Reserved' <= Reserved
  <2>1. Reserved' = Reserved /\ Reserved \in Nat
    BY <1>1, Counts DEF Reserved
  <2> QED
    BY <2>1
<1>4. o.cid \in Cid
  BY OffGridIs
<1>5. CASE UserCancel(o)
  <2> DEFINE gone == Reports("CANCELED", o.cid)
  <2>1. gone \in Report /\ gone.type = "CANCELED"
    BY <1>4, GridAssumption DEF Reports, Report
  <2>2. events' = Append(events, gone) /\ credit' = credit
    BY <1>5 DEF UserCancel
  <2> HIDE DEF gone
  <2>3. Undispatched' = Undispatched \cup {gone}
    BY <2>1, <2>2, StreamIs
  <2> QED
    BY <1>1, <1>2, <1>3, <2>1, <2>2, <2>3, QuietCalm
<1>6. CASE FillBootstrap(o)
  <2>1. PICK q \in BootYield :
           /\ credit' = credit + q
           /\ events' = Append(events, [type |-> "FILLED", cid |-> o.cid, qty |-> q])
    BY <1>6 DEF FillBootstrap
  <2> DEFINE fill == [type |-> "FILLED", cid |-> o.cid, qty |-> q]
  <2>2. q \in Nat /\ fill \in Report /\ fill.cid = o.cid /\ fill.qty = q
    BY <1>4, GridAssumption DEF BootYield, Report
  <2>3. events' = Append(events, fill)
    BY <2>1
  <2> HIDE DEF fill
  <2>4. Undispatched' = Undispatched \cup {fill}
    BY <2>2, <2>3, StreamIs
  <2>5. ~GridCid(o.cid) /\ (o.cid.side = "BOOT" => o.cid.seq <= orderSeq)
    BY <1>6, OffGridIs DEF FillBootstrap, OffGrid, IsBoot
  <2>6. /\ NothingCrosses' /\ BootTracked'
        /\ Sells' \subseteq Sells /\ Owed' \subseteq Owed
    BY <1>1, <1>2, <2>2, <2>4, <2>5, StillCalm
  <2>7. credit <= credit' /\ credit + q <= credit'
    BY <2>1, <2>2 DEF TypeOK
  <2>8. \A r \in Undispatched' : r.type = "FILLED" /\ r.cid = bootCid'
            => \/ r \in Undispatched /\ r.cid = bootCid
               \/ credit + r.qty <= credit'
    BY <1>1, <2>2, <2>4, <2>7
  <2>9. Credited'
    BY <1>3, <2>6, <2>7, <2>8, QuietCredited
  <2> QED
    BY <2>6, <2>9
<1> QED
  BY <1>5, <1>6

-------------------------------------------------------------------------------
(* The theorems *)

\* At the start the price is below the SELL levels and nothing is offered.
LEMMA CalmStart == Init => CalmInv
<1> SUFFICES ASSUME Init PROVE CalmInv
  OBVIOUS
<1>1. /\ Queued = {} /\ Undispatched = {} /\ book = {} /\ Working = {}
      /\ DOMAIN orders = {}
  BY DEF Init, Queued, Undispatched, Working
<1>2. NothingCrosses
  BY <1>1 DEF Init, NothingCrosses
<1>3. BootTracked
  BY <1>1 DEF Init, BootTracked, GridCid, NoCid
<1>4. Sells = {} /\ Owed = {}
  BY <1>1 DEF Sells, Owed
<1>5. Cardinality(Sells) = 0 /\ Cardinality(Owed) = 0
  BY <1>4, FS_EmptySet
<1>6. Bound <= credit
  <2>1. Reserved = credit /\ credit \in Int
    BY GridAssumption DEF Init, Reserved
  <2>2. Bound = 0 + 0 + credit
    BY <1>5, <2>1 DEF Bound
  <2> QED
    BY <2>1, <2>2
<1>7. Credited
  BY <1>1, <1>6 DEF Credited
<1>8. Tracked /\ IdsSpent
  BY <1>1 DEF Init, Tracked, Consistent, IdsSpent
<1> QED
  BY <1>2, <1>3, <1>7, <1>8 DEF CalmInv

-------------------------------------------------------------------------------
(* No id is repeated *)

\* What an id that was submitted says, and that it was new when it says something else
\* than all others.
LEMMA SubmitSpent ==
  ASSUME TypeOK, NEW slots, NEW l \in Levels, NEW side \in Sides, NEW c \in Nat,
         SubmitLevelOrder(slots, l, side, c),
         NEW letter, letter = IF side = "BUY" THEN "B" ELSE "S",
         \A d \in DOMAIN orders : d.side = letter /\ d.lvl = Abs(l) => d.cycle # c
  PROVE  /\ NewId
         /\ \A d \in DOMAIN orders' :
              d \in DOMAIN orders \/ (d.side = letter /\ d.lvl = Abs(l) /\ d.cycle = c)
<1>1. CASE UNCHANGED <<orders, orderSeq, sendq>>
  BY <1>1 DEF NewId
<1> DEFINE cid == MakeClientOrderId(side, l, c, orderSeq + 1)
           new == [cid |-> cid, level |-> l, side |-> side]
<1>2. CASE /\ orders' = [d \in DOMAIN orders \cup {cid} |->
                           IF d = cid THEN [level |-> l, side |-> side] ELSE orders[d]]
           /\ sendq' = IF cid \in DOMAIN orders THEN sendq ELSE Append(sendq, new)
  <2>1. cid.side = letter /\ cid.lvl = Abs(l) /\ cid.cycle = c
    BY DEF MakeClientOrderId
  <2>2. \A x : sendq # Append(sendq, x)
    BY DEF TypeOK
  <2> HIDE DEF cid, new
  <2>3. NewId
    BY <1>2, <2>1, <2>2 DEF NewId
  <2> QED
    BY <1>2, <2>1, <2>3
<1> QED
  BY <1>1, <1>2 DEF SubmitLevelOrder, SubmitOrder

\* A bootstrap order is new: it is no order of the grid.
LEMMA BootstrapSpent ==
  ASSUME TypeOK, NEW type, ExecuteBootstrap(type)
  PROVE  NewId /\ orders' = orders
<1>1. \A x : sendq # Append(sendq, x)
  BY DEF TypeOK
<1> QED
  BY <1>1 DEF NewId, ExecuteBootstrap

\* The placing loop never comes back to a line.
LEMMA PlaceSpent ==
  ASSUME TypeOK, IdsSpent, PlaceBuy \/ PlaceSell
  PROVE  NewId /\ IdsSpent'
<1>1. /\ cursor \in Int /\ Hi \in Int /\ 0 < Hi /\ cycleSeq \in Nat
      /\ \A d \in DOMAIN orders : d.lvl \in Nat /\ d.cycle \in Nat
      /\ UNCHANGED <<bootCid, cycleSeq>> /\ cursor # 0 /\ cursor \in Levels
  BY GridAssumption DEF TypeOK, Cid, PlaceBuy, PlaceSell, Levels
<1>2. bootCid = NoCid
  BY <1>1 DEF IdsSpent
<1>3. CASE PlaceBuy
  <2>1. cursor < 0 /\ cursor' = cursor - 1 /\ Abs(cursor) = -cursor
    BY <1>1, <1>3 DEF PlaceBuy, Abs
  <2>2. /\ NewId
        /\ \A d \in DOMAIN orders' :
              d \in DOMAIN orders \/ (d.side = "B" /\ d.lvl = -cursor /\ d.cycle = 0)
    <3>1. CASE UNCHANGED <<mapVars, sendq>>
      BY <3>1 DEF NewId, mapVars
    <3>2. CASE SubmitLevelOrder(levelOrders, cursor, "BUY", 0)
      <4>1. \A d \in DOMAIN orders : d.side = "B" /\ d.lvl = Abs(cursor) => d.cycle # 0
        BY <1>1, <2>1 DEF IdsSpent
      <4> QED
        BY <1>1, <2>1, <3>2, <4>1, SubmitSpent DEF Sides
    <3> QED
      BY <1>3, <3>1, <3>2 DEF PlaceBuy
  <2> QED
    BY <1>1, <1>2, <2>1, <2>2 DEF IdsSpent
<1>4. CASE PlaceSell
  <2>1. cursor > 0 /\ cursor <= Hi /\ Abs(cursor) = cursor
    BY <1>1, <1>4 DEF PlaceSell, Abs
  <2>2. CASE cursor' = 0 /\ UNCHANGED <<mapVars, sendq>>
    BY <1>1, <1>2, <2>1, <2>2 DEF IdsSpent, NewId, mapVars
  <2>3. CASE /\ cursor' = IF cursor = Hi THEN 0 ELSE cursor + 1
             /\ SubmitLevelOrder(levelOrders, cursor, "SELL", 0)
    <3>1. \A d \in DOMAIN orders : d.side = "S" /\ d.lvl = Abs(cursor) => d.cycle # 0
      BY <1>1, <2>1 DEF IdsSpent
    <3>2. /\ NewId
          /\ \A d \in DOMAIN orders' :
              d \in DOMAIN orders \/ (d.side = "S" /\ d.lvl = cursor /\ d.cycle = 0)
      BY <1>1, <2>1, <2>3, <3>1, SubmitSpent DEF Sides
    <3> QED
      BY <1>1, <1>2, <2>1, <2>3, <3>2 DEF IdsSpent
  <2> QED
    BY <1>4, <2>2, <2>3 DEF PlaceSell
<1> QED
  BY <1>3, <1>4

\* An answered fill begins a cycle, and the bootstrap's fill starts the SELL loop for
\* the first time.
LEMMA DispatchSpent ==
  ASSUME TypeOK, Tracked, NothingCrosses, BootTracked, IdsSpent, Dispatch
  PROVE  NewId /\ IdsSpent'
<1> DEFINE r == Head(events)
<1>1. PICK types : Deliver(types)
  BY DEF Dispatch, DispatchNew, DispatchFilled, DispatchRejected, DispatchCanceled
<1>2. /\ cursor = 0 /\ r \in Undispatched /\ r.cid \in Cid /\ r.cid # NoCid
      /\ cycleSeq \in Nat /\ \A d \in DOMAIN orders : d.lvl \in Nat /\ d.cycle \in Nat
  BY <1>1, TakenIs, ReportIs DEF TypeOK, Cid
<1>3. ASSUME UNCHANGED <<orders, orderSeq, cursor, bootCid, cycleSeq>>
      PROVE  NewId /\ IdsSpent'
  BY <1>2, <1>3 DEF IdsSpent, NewId
<1>4. CASE DispatchNew \/ DispatchCanceled
  BY <1>3, <1>4 DEF DispatchNew, DispatchCanceled, mapVars, loopVars
<1>5. CASE DispatchFilled
  <2>1. CASE UNCHANGED <<loopVars, mapVars, cycleSeq, bootCid, sendq>>
    BY <1>3, <2>1 DEF loopVars, mapVars
  <2>2. CASE r.cid = bootCid /\ OnBootstrapFilled(r.qty)
    <3>1. /\ bootCid # NoCid /\ bootCid' = NoCid /\ cursor' = 1
          /\ UNCHANGED <<orders, orderSeq, cycleSeq>>
      BY <1>2, <2>2 DEF OnBootstrapFilled, mapVars
    <3> QED
      BY <1>2, <3>1 DEF IdsSpent, NewId
  <2>3. CASE OnOrderFilled(r.cid) /\ ~UNCHANGED <<mapVars, cycleSeq, sendq>>
    <3> DEFINE o == orders[r.cid]
    <3>1. /\ r.cid \in DOMAIN orders /\ cycleSeq' = cycleSeq + 1
          /\ UNCHANGED <<cursor, bootCid>>
          /\ \/ UNCHANGED <<orders, orderSeq>>
             \/ /\ CounterLevel(o) \in Levels
                /\ SubmitLevelOrder([levelOrders EXCEPT ![o.level] = NoCid],
                                    CounterLevel(o), CounterSide(o), cycleSeq + 1)
      BY <2>3 DEF OnOrderFilled, loopVars
    <3>2. CounterSide(o) \in Sides
      BY DEF CounterSide, Sides
    <3>3. \A d \in DOMAIN orders : d.cycle # cycleSeq + 1
      BY <1>2 DEF IdsSpent
    <3> HIDE DEF o
    <3>4. NewId /\ \A d \in DOMAIN orders' : d \in DOMAIN orders \/ d.cycle = cycleSeq + 1
      <4>1. CASE UNCHANGED <<orders, orderSeq>>
        BY <4>1 DEF NewId
      <4>2. ASSUME NEW slots, SubmitLevelOrder(slots, CounterLevel(o), CounterSide(o), cycleSeq + 1),
                   CounterLevel(o) \in Levels
            PROVE  NewId /\ \A d \in DOMAIN orders' : d \in DOMAIN orders \/ d.cycle = cycleSeq + 1
        <5>1. cycleSeq + 1 \in Nat
          BY <1>2
        <5> QED
          BY <3>2, <3>3, <4>2, <5>1, SubmitSpent
      <4> QED
        BY <3>1, <4>1, <4>2
    <3> QED
      BY <1>2, <3>1, <3>4 DEF IdsSpent
  <2> QED
    BY <1>5, <2>1, <2>2, <2>3 DEF DispatchFilled, OnOrderFilled
<1>6. CASE DispatchRejected
  <2>1. CASE UNCHANGED <<orders, orderSeq, bootCid>>
    BY <1>3, <1>6, <2>1 DEF DispatchRejected, loopVars
  <2>2. CASE r.cid = bootCid /\ ExecuteBootstrap("MARKET")
    <3>1. bootCid # NoCid /\ NewId /\ orders' = orders /\ UNCHANGED <<cursor, cycleSeq>>
      BY <1>2, <1>6, <2>2, BootstrapSpent DEF DispatchRejected, loopVars
    <3> QED
      BY <1>2, <3>1 DEF IdsSpent
  <2> QED
    BY <1>6, <2>1, <2>2 DEF DispatchRejected, OnBootstrapRejected, OnOrderRejected, mapVars
<1> QED
  BY <1>4, <1>5, <1>6 DEF Dispatch

\* No step of a calm environment makes an id for the second time.
LEMMA SpentStep ==
  ASSUME TypeOK, Tracked, NothingCrosses, BootTracked, IdsSpent, [Next]_vars
  PROVE  NewId /\ IdsSpent'
<1>1. \A l \in Levels : ~RetryMissed(l)
  BY DEF NothingCrosses, RetryMissed
<1>2. ASSUME UNCHANGED <<orders, orderSeq, cursor, bootCid, cycleSeq>>
      PROVE  NewId /\ IdsSpent'
  BY <1>2 DEF IdsSpent, NewId
<1>3. CASE Initialize
  <2>1. DOMAIN orders = {} /\ bootCid = NoCid /\ UNCHANGED <<orders, orderSeq, bootCid>>
    BY <1>3 DEF Initialize, BootTracked, mapVars
  <2> QED
    BY <2>1 DEF IdsSpent, NewId
<1>4. CASE PlaceBootstrap
  <2>1. /\ cursor \in Int /\ cursor < 0 /\ cycleSeq' = cycleSeq /\ bootCid = NoCid
        /\ \A d \in DOMAIN orders : d.lvl \in Nat
    BY <1>4, GridAssumption DEF PlaceBootstrap, IdsSpent, TypeOK, Cid
  <2>2. \A d \in DOMAIN orders : d.cycle = 0 => d.side = "B"
    BY <2>1 DEF IdsSpent
  <2>3. CASE cursor' = 1 /\ UNCHANGED <<mapVars, bootCid>>
    BY <2>1, <2>2, <2>3 DEF IdsSpent, NewId, mapVars
  <2>4. CASE cursor' = 0 /\ ExecuteBootstrap(BootType)
    <3>1. NewId /\ orders' = orders
      BY <2>4, BootstrapSpent
    <3> QED
      BY <2>1, <2>2, <2>4, <3>1 DEF IdsSpent
  <2> QED
    BY <1>4, <2>3, <2>4 DEF PlaceBootstrap
<1>5. CASE \/ WriterSend \/ UNCHANGED vars
           \/ Pause \/ Resume \/ Stop \/ EmergencyStop \/ CancelAgain \/ RestCancel \/ MarkStopped
           \/ PriceUp \/ PriceDown
           \/ \E o \in book : Fill(o) \/ FillBootstrap(o) \/ UserCancel(o)
  <2>1. UNCHANGED <<mapVars, loopVars, bootCid, cycleSeq>>
    BY <1>5 DEF WriterSend, vars, Pause, Resume, Stop, EmergencyStop, CancelAgain, RestCancel,
       MarkStopped, Command, PriceUp, PriceDown, PriceCross, Fill, FillBootstrap, UserCancel
  <2> QED
    BY <1>2, <2>1 DEF mapVars, loopVars
<1> QED
  BY <1>1, <1>3, <1>4, <1>5, PlaceSpent, DispatchSpent DEF Next, Dispatch

-------------------------------------------------------------------------------
(* The theorems about a calm environment *)

\* No step of a calm environment places a SELL that no fill has paid for.
LEMMA CalmStep ==
  ASSUME Calm, TypeOK, TypeOK', CalmInv, [Next]_vars
  PROVE  NewId /\ CalmInv'
<1>1. Tracked /\ IdsSpent /\ NothingCrosses /\ BootTracked /\ Credited
  BY DEF CalmInv
<1>2. NewId /\ IdsSpent'
  BY <1>1, SpentStep
<1>3. Tracked'
  BY <1>1, <1>2, TrackedStep DEF Calm
<1>4. NothingCrosses' /\ BootTracked' /\ Credited'
  <2>1. CASE Next
    <3>1. \A l \in Levels : ~RetryMissed(l)
      BY <1>1 DEF NothingCrosses, RetryMissed
    <3> QED
      BY <1>1, <1>2, <2>1, <3>1, BeginCalm, PlaceCalm, DispatchCalm, CommandCalm, WriterCalm,
         FillCalm, LeaveCalm, PriceCalm DEF Next, Dispatch
  <2>2. CASE UNCHANGED vars
    <3>1. UNCHANGED <<initialized, cursor, budget, orders, orderSeq, missed, bootCid, sendq,
                      book, gap, credit, events>>
      BY <2>2 DEF vars, lifeVars, loopVars, mapVars, marketVars
    <3> QED
      BY <1>1, <3>1 DEF NothingCrosses, BootTracked, Credited, Working, Queued, Undispatched,
         MakerSafe, Bound, Sells, Owed, Pending, Reserved
  <2> QED
    BY <2>1, <2>2
<1> QED
  BY <1>1, <1>2, <1>3, <1>4 DEF CalmInv

\* CalmInv is an invariant of the engine in a calm environment.
THEOREM CalmInvariant ==
  ASSUME Calm
  PROVE  Spec => []CalmInv
<1>1. TypeOK /\ TypeOK' /\ CalmInv /\ [Next]_vars => CalmInv'
  BY CalmStep
<1> QED
  BY <1>1, CalmStart, TypeCorrect, PTL DEF Spec

\* The router drops no order: in a calm environment all ids are different, however
\* often their sequence number wraps around and however many lines the grid has.
THEOREM NoOrderDropped ==
  ASSUME Calm
  PROVE  Spec => NothingDropped
<1>1. TypeOK /\ TypeOK' /\ CalmInv /\ [Next]_vars => [NewId]_vars
  BY CalmStep
<1> QED
  BY <1>1, CalmInvariant, TypeCorrect, PTL DEF Spec, NothingDropped

\* So the level map stays complete, with one order on a line, for ever.
THEOREM CalmTracking ==
  ASSUME Calm
  PROVE  Spec => [](OneOrderPerLevel /\ LevelTracked)
<1>1. "slow_ack" \notin Env
  BY DEF Calm
<1> QED
  BY <1>1, NoOrderDropped, TrackedUnlessDropped, PTL

\* And exact, where no order is lost and the bot just runs.
THEOREM CalmExact ==
  ASSUME Calm, Faithful
  PROVE  Spec => []NoDeadHolder
BY NoOrderDropped, ExactUnlessDropped, PTL

\* One SELL for every BUY: where the price does not overtake an order on its way, the
\* SELL orders on their way or open never outnumber the SELL levels paid for at the
\* start with the BUYs filled since, less the SELLs filled, however many levels the
\* bootstrap pays for, whoever cancels and whenever the bot is paused or stopped.  It
\* is a count of orders and says nothing of how much base they offer.
THEOREM SellsCredited ==
  ASSUME Calm
  PROVE  Spec => []OneSellPerBuy
<1>1. TypeOK /\ CalmInv => OneSellPerBuy
  <2> SUFFICES ASSUME TypeOK, Credited PROVE OneSellPerBuy
    BY DEF CalmInv
  <2>1. /\ Cardinality(Sells) \in Nat /\ Cardinality(Owed) \in Nat /\ Reserved \in Nat
        /\ credit \in Int
    BY Counts DEF TypeOK
  <2>2. Cardinality(Sells) + Cardinality(Owed) + Reserved <= credit
    BY DEF Credited, Bound
  <2> QED
    BY <2>1, <2>2 DEF OneSellPerBuy
<1> QED
  BY <1>1, CalmInvariant, TypeCorrect, PTL

-------------------------------------------------------------------------------
(* What a line has or is due *)

\* The ladder keeps its shape with every step, however many lines it has.
LEMMA LadderStep ==
  ASSUME Ladder!TypeOK, Ladder!LadderShape, [Ladder!Next]_Slots
  PROVE  Ladder!TypeOK' /\ Ladder!LadderShape'
<1>1. PICK h \in Levels : /\ Slots[h] = "NONE"
                          /\ \A l \in Levels : /\ l < h => Slots[l] = "BUY"
                                               /\ l > h => Slots[l] = "SELL"
  BY DEF Ladder!LadderShape, Ladder!Levels, Levels
<1>2. \A l \in Levels : l \in Int
  BY GridAssumption DEF Levels
<1>3. Slots \in [Levels -> {"BUY", "SELL", "NONE"}]
  BY DEF Ladder!TypeOK, Ladder!Levels, Levels
<1>4. ASSUME NEW l \in Levels, Ladder!FillBuy(l) PROVE Ladder!TypeOK' /\ Ladder!LadderShape'
  <2>1. l + 1 = h
    BY <1>1, <1>2, <1>4 DEF Ladder!FillBuy, Ladder!Levels, Levels
  <2>2. Slots' = [Slots EXCEPT ![l] = "NONE", ![h] = "SELL"] /\ l # h
    BY <1>2, <1>4, <2>1 DEF Ladder!FillBuy
  <2>3. Ladder!TypeOK'
    BY <1>3, <2>2 DEF Ladder!TypeOK, Ladder!Levels, Levels
  <2>4. /\ Slots'[l] = "NONE" /\ Slots'[h] = "SELL"
        /\ \A k \in Levels : k # l /\ k # h => Slots'[k] = Slots[k]
    BY <1>3, <2>2
  <2>5. \A k \in Levels : /\ k < l => Slots'[k] = "BUY"
                          /\ k > l => Slots'[k] = "SELL"
    BY <1>1, <1>2, <2>1, <2>4
  <2> QED
    BY <2>3, <2>4, <2>5 DEF Ladder!LadderShape, Ladder!Levels, Levels
<1>5. ASSUME NEW l \in Levels, Ladder!FillSell(l) PROVE Ladder!TypeOK' /\ Ladder!LadderShape'
  <2>1. l - 1 = h
    BY <1>1, <1>2, <1>5 DEF Ladder!FillSell, Ladder!Levels, Levels
  <2>2. Slots' = [Slots EXCEPT ![l] = "NONE", ![h] = "BUY"] /\ l # h
    BY <1>2, <1>5, <2>1 DEF Ladder!FillSell
  <2>3. Ladder!TypeOK'
    BY <1>3, <2>2 DEF Ladder!TypeOK, Ladder!Levels, Levels
  <2>4. /\ Slots'[l] = "NONE" /\ Slots'[h] = "BUY"
        /\ \A k \in Levels : k # l /\ k # h => Slots'[k] = Slots[k]
    BY <1>3, <2>2
  <2>5. \A k \in Levels : /\ k < l => Slots'[k] = "BUY"
                          /\ k > l => Slots'[k] = "SELL"
    BY <1>1, <1>2, <2>1, <2>4
  <2> QED
    BY <2>3, <2>4, <2>5 DEF Ladder!LadderShape, Ladder!Levels, Levels
<1>6. CASE UNCHANGED Slots
  BY <1>6 DEF Ladder!TypeOK, Ladder!LadderShape
<1> QED
  BY <1>4, <1>5, <1>6 DEF Ladder!Next, Ladder!Levels, Levels

\* Due, with the orders W, the fills F and the plan for the line as arguments.
DueOf(W, F, ord, planned, l) ==
    IF \E o \in W : o.level = l
    THEN (CHOOSE o \in W : o.level = l).side
    ELSE IF \E c \in F : CounterLevel(ord[c]) = l
    THEN CounterSide(ord[CHOOSE c \in F : CounterLevel(ord[c]) = l])
    ELSE IF planned THEN GridSide(l) ELSE "NONE"

\* Due, now and after the step.
LEMMA DueIsOf ==
  /\ \A l : Due(l) = DueOf(Working, Promised, orders, Planned(l), l)
  /\ \A l : Due(l)' = DueOf(Working', Promised', orders', Planned(l)', l)
BY DEF Due, DueOf, Promised

\* What is due where only one order, one fill or the plan says so.
LEMMA DueIs ==
  ASSUME NEW W, NEW F, NEW ord, NEW planned \in BOOLEAN, NEW l
  PROVE  /\ \A o \in W : o.level = l /\ (\A p \in W : p.level = l => p.side = o.side)
               => DueOf(W, F, ord, planned, l) = o.side
         /\ \A c \in F : /\ \A o \in W : o.level # l
                         /\ CounterLevel(ord[c]) = l
                         /\ \A d \in F : CounterLevel(ord[d]) = l => d = c
               => DueOf(W, F, ord, planned, l) = CounterSide(ord[c])
         /\ (\A o \in W : o.level # l) /\ (\A c \in F : CounterLevel(ord[c]) # l)
               => DueOf(W, F, ord, planned, l) = IF planned THEN GridSide(l) ELSE "NONE"
<1>1. ASSUME NEW o \in W, o.level = l, \A p \in W : p.level = l => p.side = o.side
      PROVE  DueOf(W, F, ord, planned, l) = o.side
  BY <1>1 DEF DueOf
<1>2. ASSUME NEW c \in F, \A o \in W : o.level # l, CounterLevel(ord[c]) = l,
             \A d \in F : CounterLevel(ord[d]) = l => d = c
      PROVE  DueOf(W, F, ord, planned, l) = CounterSide(ord[c])
  <2>1. (CHOOSE d \in F : CounterLevel(ord[d]) = l) = c
    BY <1>2
  <2> QED
    BY <1>2, <2>1 DEF DueOf
<1>3. ASSUME \A o \in W : o.level # l, \A c \in F : CounterLevel(ord[c]) # l
      PROVE  DueOf(W, F, ord, planned, l) = IF planned THEN GridSide(l) ELSE "NONE"
  BY <1>3 DEF DueOf
<1> QED
  BY <1>1, <1>2, <1>3

\* The plan says yes or no.
LEMMA PlannedIs == \A l : Planned(l) \in BOOLEAN /\ Planned(l)' \in BOOLEAN
BY Zenon DEF Planned

\* What consistent maps say of the orders on a line.
LEMMA WorkingIs ==
  ASSUME Tracked
  PROVE  /\ \A o \in Working : /\ Registered(levelOrders, orders, o) /\ GridCid(o.cid)
                               /\ orders[o.cid].level = o.level /\ orders[o.cid].side = o.side
         /\ \A o, p \in Working : o.level = p.level => o.side = p.side
<1>1. \A o \in Working : Registered(levelOrders, orders, o) /\ GridCid(o.cid)
  <2>1. \A o \in Working : Registered(levelOrders, orders, o)
    BY DEF Tracked, Consistent, Working, Queued
  <2>2. \A c \in DOMAIN orders : GridCid(c)
    BY DEF Tracked, Consistent
  <2> QED
    BY <2>1, <2>2 DEF Registered
<1>2. ASSUME NEW o \in Working
      PROVE  orders[o.cid].level = o.level /\ orders[o.cid].side = o.side
  <2>1. orders[o.cid] = [level |-> o.level, side |-> o.side]
    BY <1>1 DEF Registered
  <2> QED
    BY <2>1
<1>3. \A o, p \in Working : o.level = p.level => o.cid = p.cid
  BY <1>1 DEF Registered
<1>4. ASSUME NEW o \in Working, NEW p \in Working, o.level = p.level
      PROVE  o.side = p.side
  <2>1. o.cid = p.cid
    BY <1>3, <1>4
  <2>2. orders[o.cid].side = o.side /\ orders[p.cid].side = p.side
    BY <1>2
  <2> QED
    BY <2>1, <2>2
<1> QED
  BY <1>1, <1>2, <1>4

\* A line whose orders, fills and plan stay keeps what it is due.
LEMMA DueKept ==
  ASSUME Tracked, LinesApart, NEW l \in Levels,
         \A o : o \in Working' /\ o.level = l <=> o \in Working /\ o.level = l,
         \A c : c \in Promised' /\ CounterLevel(orders'[c]) = l
                  <=> c \in Promised /\ CounterLevel(orders[c]) = l,
         \A c \in Promised : orders'[c] = orders[c],
         Planned(l)' <=> Planned(l)
  PROVE  Due(l)' = Due(l)
<1>1. \A o, p \in Working : o.level = p.level => o.side = p.side
  BY WorkingIs
<1> DEFINE plan == Planned(l)
           planned == Planned(l)'
<1>2. plan \in BOOLEAN /\ planned \in BOOLEAN /\ planned = plan
  BY PlannedIs
<1>3. /\ Due(l) = DueOf(Working, Promised, orders, plan, l)
      /\ Due(l)' = DueOf(Working', Promised', orders', planned, l)
  BY DueIsOf
<1> HIDE DEF plan, planned
<1>4. CASE \E o \in Working : o.level = l
  <2>1. PICK o \in Working : o.level = l
    BY <1>4
  <2>2. DueOf(Working, Promised, orders, plan, l) = o.side
    BY <1>1, <1>2, <2>1, DueIs
  <2>3. o \in Working' /\ \A p \in Working' : p.level = l => p.side = o.side
    BY <1>1, <2>1
  <2>4. DueOf(Working', Promised', orders', planned, l) = o.side
    BY <1>2, <2>1, <2>3, DueIs
  <2> QED
    BY <1>3, <2>2, <2>4
<1>5. CASE /\ ~\E o \in Working : o.level = l
           /\ \E c \in Promised : CounterLevel(orders[c]) = l
  <2>1. PICK c \in Promised : CounterLevel(orders[c]) = l
    BY <1>5
  <2>2. \A d \in Promised : CounterLevel(orders[d]) = l => d = c
    BY <2>1 DEF LinesApart
  <2>3. \A o \in Working : o.level # l
    BY <1>5
  <2>4. DueOf(Working, Promised, orders, plan, l) = CounterSide(orders[c])
    BY <1>2, <2>1, <2>2, <2>3, DueIs
  <2>5. /\ c \in Promised' /\ CounterLevel(orders'[c]) = l
        /\ \A d \in Promised' : CounterLevel(orders'[d]) = l => d = c
        /\ \A o \in Working' : o.level # l
    BY <2>1, <2>2, <2>3
  <2>6. DueOf(Working', Promised', orders', planned, l) = CounterSide(orders'[c])
    BY <1>2, <2>5, DueIs
  <2>7. orders'[c] = orders[c]
    BY <2>1
  <2> QED
    BY <1>3, <2>4, <2>6, <2>7
<1>6. CASE /\ ~\E o \in Working : o.level = l
           /\ ~\E c \in Promised : CounterLevel(orders[c]) = l
  <2>1. /\ \A o \in Working : o.level # l
        /\ \A c \in Promised : CounterLevel(orders[c]) # l
        /\ \A o \in Working' : o.level # l
        /\ \A c \in Promised' : CounterLevel(orders'[c]) # l
    BY <1>6
  <2>2. /\ DueOf(Working, Promised, orders, plan, l)
             = IF plan THEN GridSide(l) ELSE "NONE"
        /\ DueOf(Working', Promised', orders', planned, l)
             = IF planned THEN GridSide(l) ELSE "NONE"
    BY <1>2, <2>1, DueIs
  <2> QED
    BY <1>2, <1>3, <2>2
<1> QED
  BY <1>4, <1>5, <1>6

\* What a line is due: what its order is, what a fill promised it or what is planned.
LEMMA DueNow ==
  ASSUME Tracked, LinesApart, TypeOK, NEW l \in Levels
  PROVE  /\ \A o \in Working : o.level = l => Due(l) = o.side
         /\ \A c \in Promised : CounterLevel(orders[c]) = l => Due(l) = CounterSide(orders[c])
         /\ Planned(l) => Due(l) = GridSide(l)
         /\ /\ \A o \in Working : o.level # l
            /\ \A c \in Promised : CounterLevel(orders[c]) # l
            /\ ~Planned(l)
            => Due(l) = "NONE"
         /\ Planned(l) => \A o \in Working : o.level # l
<1>1. /\ \A o, p \in Working : o.level = p.level => o.side = p.side
      /\ \A o \in Working : Registered(levelOrders, orders, o)
  BY WorkingIs
<1> DEFINE plan == Planned(l)
<1>2. plan \in BOOLEAN
  BY PlannedIs
<1>3. Due(l) = DueOf(Working, Promised, orders, plan, l)
  BY DueIsOf
<1>4. plan => \A o \in Working : o.level # l
  <2>1. plan => levelOrders[l] = NoCid
    BY DEF LinesApart
  <2>2. \A o \in Working : o.cid \in Cid
    BY QueueIs DEF Working, TypeOK, WireOrder
  <2> QED
    BY <1>1, <2>1, <2>2, NoCidFresh DEF Registered
<1>5. plan => \A c \in Promised : CounterLevel(orders[c]) # l
  BY DEF LinesApart
<1> HIDE DEF plan
<1>6. \A o \in Working : o.level = l => Due(l) = o.side
  BY <1>1, <1>2, <1>3, DueIs
<1>7. ASSUME NEW c \in Promised, CounterLevel(orders[c]) = l
      PROVE  Due(l) = CounterSide(orders[c])
  <2>1. /\ \A o \in Working : o.level # l
        /\ \A d \in Promised : CounterLevel(orders[d]) = l => d = c
    BY <1>7 DEF LinesApart
  <2>2. DueOf(Working, Promised, orders, plan, l) = CounterSide(orders[c])
    BY <1>2, <1>7, <2>1, DueIs
  <2> QED
    BY <1>3, <2>2
<1>8. ASSUME \A o \in Working : o.level # l, \A c \in Promised : CounterLevel(orders[c]) # l
      PROVE  Due(l) = IF plan THEN GridSide(l) ELSE "NONE"
  BY <1>2, <1>3, <1>8, DueIs
<1> QED
  BY <1>4, <1>5, <1>6, <1>7, <1>8 DEF plan

\* Between two loops no BUY line is due above the price and no SELL line below.
LEMMA DueSafe ==
  ASSUME TypeOK, Tracked, NothingCrosses, LinesApart, cursor = 0, initialized, NEW l \in Levels
  PROVE  /\ Due(l) = "BUY" => l <= gap
         /\ Due(l) = "SELL" => l > gap
<1>1. l \in Int /\ gap \in Int
  BY GridAssumption DEF TypeOK, Levels
<1>2. CASE \E o \in Working : o.level = l
  <2>1. PICK o \in Working : o.level = l
    BY <1>2
  <2>2. Due(l) = o.side
    BY <2>1, DueNow
  <2>3. MakerSafe(l, o.side) /\ o.side \in Sides
    BY <2>1 DEF Working, NothingCrosses, LinesApart
  <2> QED
    BY <1>1, <2>2, <2>3 DEF MakerSafe, Sides
<1>3. CASE \E c \in Promised : CounterLevel(orders[c]) = l
  <2>1. PICK c \in Promised : CounterLevel(orders[c]) = l
    BY <1>3
  <2>2. Due(l) = CounterSide(orders[c])
    BY <2>1, DueNow
  <2>3. MakerSafe(l, CounterSide(orders[c]))
    BY <2>1, PendingIs DEF Promised, NothingCrosses
  <2> QED
    BY <1>1, <2>2, <2>3 DEF MakerSafe, CounterSide
<1>4. CASE Planned(l)
  <2>1. l > 0 /\ bootCid # NoCid
    BY <1>1, <1>4 DEF Planned
  <2>2. Due(l) = "SELL" /\ gap <= 0
    BY <1>1, <1>4, <2>1, DueNow DEF GridSide, NothingCrosses
  <2> QED
    BY <1>1, <2>1, <2>2
<1>5. CASE /\ ~\E o \in Working : o.level = l
           /\ ~\E c \in Promised : CounterLevel(orders[c]) = l
           /\ ~Planned(l)
  <2>1. Due(l) = "NONE"
    BY <1>5, DueNow
  <2> QED
    BY <2>1
<1> QED
  BY <1>2, <1>3, <1>4, <1>5

\* A stream stays in turn when its oldest report is taken, when reports follow that
\* fill nothing on the grid, and when the engine submits.
LEMMA TurnKept ==
  ASSUME NEW ord, NEW ev \in Seq(Report), FillsInTurn(ord, ev)
  PROVE  /\ ev # <<>> => FillsInTurn(ord, Tail(ev))
         /\ \A new \in Seq(Report) :
               (\A i \in DOMAIN new : new[i].type = "FILLED" => new[i].cid \notin DOMAIN ord)
                  => FillsInTurn(ord, ev \o new)
         /\ \A ord2 :
               /\ \A d \in DOMAIN ord : ord2[d] = ord[d]
               /\ \A i \in DOMAIN ev : ev[i].type = "FILLED" /\ ev[i].cid \in DOMAIN ord2
                                       => ev[i].cid \in DOMAIN ord
               => FillsInTurn(ord2, ev)
<1>1. ASSUME ev # <<>> PROVE FillsInTurn(ord, Tail(ev))
  <2>1. \A i \in DOMAIN Tail(ev) : /\ i \in Int /\ i + 1 \in DOMAIN ev
                                   /\ Tail(ev)[i] = ev[i + 1]
    BY <1>1
  <2>2. \A i, j \in Int : j + 1 < i + 1 => j < i
    OBVIOUS
  <2> QED
    BY <2>1, <2>2 DEF FillsInTurn
<1>2. ASSUME NEW new \in Seq(Report),
             \A i \in DOMAIN new : new[i].type = "FILLED" => new[i].cid \notin DOMAIN ord
      PROVE  FillsInTurn(ord, ev \o new)
  <2>1. \A i \in DOMAIN (ev \o new) :
           \/ i \in DOMAIN ev /\ (ev \o new)[i] = ev[i]
           \/ i - Len(ev) \in DOMAIN new /\ (ev \o new)[i] = new[i - Len(ev)]
    BY <1>2
  <2>2. \A i \in DOMAIN (ev \o new) :
           (ev \o new)[i].type = "FILLED" /\ (ev \o new)[i].cid \in DOMAIN ord
              => i \in DOMAIN ev /\ (ev \o new)[i] = ev[i]
    BY <1>2, <2>1
  <2> QED
    BY <2>2 DEF FillsInTurn
<1>3. ASSUME NEW ord2, \A d \in DOMAIN ord : ord2[d] = ord[d],
             \A i \in DOMAIN ev : ev[i].type = "FILLED" /\ ev[i].cid \in DOMAIN ord2
                                  => ev[i].cid \in DOMAIN ord
      PROVE  FillsInTurn(ord2, ev)
  <2>1. \A i \in DOMAIN ev : ev[i].type = "FILLED" /\ ev[i].cid \in DOMAIN ord2
                             => ev[i].cid \in DOMAIN ord /\ ord2[ev[i].cid] = ord[ev[i].cid]
    BY <1>3
  <2> QED
    BY <2>1 DEF FillsInTurn
<1> QED
  BY <1>1, <1>2, <1>3

\* Steps that change neither the orders, the fills nor the plan.
LEMMA LadderStill ==
  ASSUME TypeOK, Tracked, LinesApart, UNCHANGED <<orders, levelOrders>>,
         Working' = Working, Promised' = Promised,
         \A l \in Levels : Planned(l)' <=> Planned(l),
         \A o \in book' : OffGrid(o) \/ MakerSafe(o.level, o.side)',
         FillsInTurn(orders', events')
  PROVE  LinesApart' /\ UNCHANGED Slots
<1>1. LinesApart'
  <2>1. \A o \in book' : (OffGrid(o) \/ MakerSafe(o.level, o.side))'
    BY DEF OffGrid, IsBoot
  <2>2. \A l \in Levels : Planned(l)' => levelOrders'[l] = NoCid
    BY DEF LinesApart
  <2>3. ASSUME NEW c \in Promised'
        PROVE  /\ CounterLevel(orders'[c]) \in Levels
               /\ ~Planned(CounterLevel(orders[c]))'
               /\ \A o \in Working' : o.level # CounterLevel(orders'[c])
               /\ \A d \in Promised' :
                     CounterLevel(orders'[d]) = CounterLevel(orders'[c]) => d = c
    <3>1. /\ c \in Promised /\ CounterLevel(orders[c]) \in Levels
          /\ ~Planned(CounterLevel(orders[c]))
          /\ \A o \in Working : o.level # CounterLevel(orders[c])
          /\ \A d \in Promised : CounterLevel(orders[d]) = CounterLevel(orders[c]) => d = c
      BY <2>3 DEF LinesApart
    <3>2. PICK l \in Levels : l = CounterLevel(orders[c]) /\ l = CounterLevel(orders'[c])
      BY <3>1
    <3>3. ~Planned(l)'
      BY <3>1, <3>2
    <3>4. ~Planned(CounterLevel(orders[c]))'
      BY <3>2, <3>3 DEF Planned
    <3> QED
      BY <3>1, <3>2, <3>4
  <2> QED
    BY <2>1, <2>2, <2>3 DEF LinesApart
<1>2. \A l \in Levels : Due(l)' = Due(l)
  BY DueKept
<1>3. UNCHANGED Slots
  BY <1>2 DEF Slots
<1> QED
  BY <1>1, <1>3

\* An order submitted for the line it is due on.
LEMMA LadderSubmit ==
  ASSUME TypeOK, Tracked, NothingCrosses, LinesApart, NewId,
         NEW slots, NEW k \in Levels, NEW side \in Sides, NEW n \in Nat,
         SubmitLevelOrder(slots, k, side, n), slots[k] = NoCid, DOMAIN slots = Levels,
         \A m \in Levels : slots[m] \in {levelOrders[m], NoCid},
         Due(k) = side, \A o \in Working : o.level # k,
         UNCHANGED <<book, gap>>, Undispatched' \subseteq Undispatched,
         \A d \in Promised : CounterLevel(orders[d]) # k
            <=> \E r \in Undispatched' : r.type = "FILLED" /\ r.cid = d,
         ~Planned(k)', \A m \in Levels : m # k => (Planned(m)' <=> Planned(m)),
         FillsInTurn(orders, events')
  PROVE  LinesApart' /\ UNCHANGED Slots
<1>1. orderSeq \in Nat /\ orderSeq' = orderSeq + 1
  BY DEF SubmitLevelOrder, TypeOK
<1>2. ~UNCHANGED <<orders, orderSeq, sendq>>
  BY <1>1
<1>3. PICK new \in WireOrder : Submits(new, k, side)
  BY <1>2, SubmitIs
<1>4. /\ new.level = k /\ new.side = side /\ ~OffGrid(new)
      /\ GridCid(new.cid) /\ new.cid \notin DOMAIN orders
      /\ Queued' = Queued \cup {new}
      /\ DOMAIN orders' = DOMAIN orders \cup {new.cid}
      /\ \A d \in DOMAIN orders : orders'[d] = orders[d]
  BY <1>3 DEF Submits
<1>5. Working' = Working \cup {new}
  BY <1>4 DEF Working
<1>6. \A r \in Undispatched : r.type = "FILLED" /\ GridCid(r.cid) => r.cid \in DOMAIN orders
  BY DEF Tracked, Consistent, Undispatched, Terminal
<1>7. \A d : d \in Promised' <=> d \in Promised /\ CounterLevel(orders[d]) # k
  <2>1. \A d : d \in Promised' <=> /\ d \in DOMAIN orders'
                                   /\ \E r \in Undispatched' : r.type = "FILLED" /\ r.cid = d
    BY DEF Promised, Pending, Undispatched
  <2>2. \A d : d \in Promised <=> /\ d \in DOMAIN orders
                                  /\ \E r \in Undispatched : r.type = "FILLED" /\ r.cid = d
    BY DEF Promised, Pending, Undispatched
  <2>3. ASSUME NEW d \in Promised' PROVE d \in Promised /\ CounterLevel(orders[d]) # k
    <3>1. PICK r \in Undispatched' : r.type = "FILLED" /\ r.cid = d
      BY <2>1, <2>3
    <3>2. r \in Undispatched /\ d \in DOMAIN orders'
      BY <2>1, <2>3, <3>1
    <3>3. d \in DOMAIN orders
      BY <1>4, <1>6, <3>1, <3>2
    <3>4. d \in Promised
      BY <2>2, <3>1, <3>2, <3>3
    <3> QED
      BY <3>1, <3>4
  <2>4. ASSUME NEW d \in Promised, CounterLevel(orders[d]) # k PROVE d \in Promised'
    <3>1. \E r \in Undispatched' : r.type = "FILLED" /\ r.cid = d
      BY <2>4
    <3>2. d \in DOMAIN orders'
      BY <1>4, <2>2, <2>4
    <3> QED
      BY <2>1, <3>1, <3>2
  <2> QED
    BY <2>3, <2>4
<1>8. \A d \in Promised : d \in DOMAIN orders /\ orders'[d] = orders[d]
  BY <1>4 DEF Promised
<1>9. \A m \in Levels : m # k => levelOrders'[m] = slots[m]
  BY DEF SubmitLevelOrder
<1>10. ASSUME NEW m \in Levels, m # k PROVE Due(m)' = Due(m)
  <2>1. \A o : o \in Working' /\ o.level = m <=> o \in Working /\ o.level = m
    BY <1>4, <1>5, <1>10
  <2>2. \A d : d \in Promised' /\ CounterLevel(orders'[d]) = m
                 <=> d \in Promised /\ CounterLevel(orders[d]) = m
    BY <1>7, <1>8, <1>10
  <2> QED
    BY <1>8, <1>10, <2>1, <2>2, DueKept
<1>11. Due(k)' = side
  <2> DEFINE planned == Planned(k)'
  <2>1. planned \in BOOLEAN /\ Due(k)' = DueOf(Working', Promised', orders', planned, k)
    BY PlannedIs, DueIsOf
  <2> HIDE DEF planned
  <2>2. new \in Working' /\ \A p \in Working' : p.level = k => p.side = new.side
    BY <1>5
  <2>3. DueOf(Working', Promised', orders', planned, k) = new.side
    BY <1>4, <2>1, <2>2, DueIs
  <2> QED
    BY <1>4, <2>1, <2>3
<1>12. UNCHANGED Slots
  <2>1. \A m \in Levels : Due(m)' = Due(m)
    <3>1. \A m \in Levels : m = k => Due(m)' = Due(m)
      <4> SUFFICES Due(k)' = Due(k)
        BY DEF Due
      <4> QED
        BY <1>11
    <3> QED
      BY <1>10, <3>1
  <2> QED
    BY <2>1 DEF Slots
<1>13. LinesApart'
  <2>1. \A o \in book' : (OffGrid(o) \/ MakerSafe(o.level, o.side))'
    BY DEF LinesApart, OffGrid, IsBoot, MakerSafe
  <2>2. ASSUME NEW m \in Levels, Planned(m)' PROVE levelOrders'[m] = NoCid
    <3>1. m # k
      BY <2>2 DEF Planned
    <3>2. Planned(m)
      BY <2>2, <3>1
    <3>3. levelOrders[m] = NoCid
      BY <3>2 DEF LinesApart
    <3> QED
      BY <1>9, <3>1, <3>3
  <2>3. ASSUME NEW c \in Promised'
        PROVE  /\ CounterLevel(orders'[c]) \in Levels
               /\ ~Planned(CounterLevel(orders[c]))'
               /\ \A o \in Working' : o.level # CounterLevel(orders'[c])
               /\ \A d \in Promised' :
                     CounterLevel(orders'[d]) = CounterLevel(orders'[c]) => d = c
    <3>1. /\ c \in Promised /\ CounterLevel(orders[c]) \in Levels
          /\ ~Planned(CounterLevel(orders[c])) /\ CounterLevel(orders[c]) # k
          /\ \A o \in Working : o.level # CounterLevel(orders[c])
          /\ \A d \in Promised : CounterLevel(orders[d]) = CounterLevel(orders[c]) => d = c
      BY <1>7, <2>3 DEF LinesApart
    <3>2. PICK l \in Levels : l = CounterLevel(orders[c]) /\ l = CounterLevel(orders'[c])
      BY <1>8, <3>1
    <3>3. ~Planned(l)'
      BY <3>1, <3>2
    <3>4. ~Planned(CounterLevel(orders[c]))'
      BY <3>2, <3>3 DEF Planned
    <3>5. \A o \in Working' : o.level # CounterLevel(orders'[c])
      BY <1>4, <1>5, <3>1, <3>2
    <3>6. \A d \in Promised' :
                     CounterLevel(orders'[d]) = CounterLevel(orders'[c]) => d = c
      BY <1>7, <1>8, <3>1, <3>2
    <3> QED
      BY <3>1, <3>2, <3>4, <3>5, <3>6
  <2>4. FillsInTurn(orders', events')
    <3>1. \A i \in DOMAIN events' : events'[i].type = "FILLED" /\ events'[i].cid \in DOMAIN orders'
             => events'[i].cid \in DOMAIN orders
      <4>1. \A i \in DOMAIN events' : events'[i] \in Undispatched'
        BY DEF Undispatched
      <4> QED
        BY <1>4, <1>6, <4>1
    <3> QED
      BY <1>4, <3>1 DEF FillsInTurn
  <2> QED
    BY <2>1, <2>2, <2>3, <2>4 DEF LinesApart
<1> QED
  BY <1>12, <1>13

-------------------------------------------------------------------------------
(* Every step of a regular run is a step of the ladder, or none *)

\* Nothing happens to the reports, the book and the price.
LEMMA MarketStill ==
  ASSUME TypeOK, LinesApart, UNCHANGED <<orders, events, book, gap>>
  PROVE  /\ Undispatched' = Undispatched /\ Promised' = Promised
         /\ \A o \in book' : OffGrid(o) \/ MakerSafe(o.level, o.side)'
         /\ FillsInTurn(orders', events')
<1>1. Undispatched' = Undispatched
  BY StreamIs
<1>2. Promised' = Promised
  BY DEF Promised, Pending
<1>3. \A o \in book' : OffGrid(o) \/ MakerSafe(o.level, o.side)'
  BY DEF LinesApart, MakerSafe
<1> QED
  BY <1>1, <1>2, <1>3 DEF LinesApart

\* The placing loop places what is planned.
LEMMA LadderPlace ==
  ASSUME Regular, TypeOK, Tracked, NothingCrosses, BootTracked, LoopFunded, LinesApart,
         NewId, PlaceBuy \/ PlaceSell
  PROVE  LoopFunded' /\ LinesApart' /\ UNCHANGED Slots
<1>1. /\ initialized /\ cursor \in Int /\ gap \in Int /\ Lo \in Int /\ Hi \in Int /\ Lo < 0 /\ 0 < Hi
      /\ budget \in Int /\ cursor # 0 /\ cursor \in Levels /\ cursor <= Hi
      /\ UNCHANGED <<initialized, missed, bootCid, book, gap, credit, events>>
      /\ bootCid = NoCid
  BY GridAssumption DEF TypeOK, BootTracked, PlaceBuy, PlaceSell, lifeVars, marketVars, Levels,
                        LoopFunded
<1>2. /\ Undispatched' = Undispatched
      /\ \A l \in Levels : l \in Int
      /\ DOMAIN levelOrders = Levels /\ FillsInTurn(orders, events')
  BY <1>1, StreamIs DEF Levels, TypeOK, LinesApart
<1>3. \A d \in Promised : \E r \in Undispatched' : r.type = "FILLED" /\ r.cid = d
  BY <1>2, PendingIs DEF Promised
<1>4. ASSUME Planned(cursor)
      PROVE  /\ levelOrders[cursor] = NoCid /\ \A o \in Working : o.level # cursor
             /\ Due(cursor) = GridSide(cursor)
             /\ \A d \in Promised : CounterLevel(orders[d]) # cursor
  BY <1>1, <1>4, DueNow DEF LinesApart
<1>5. CASE PlaceBuy
  <2>1. cursor < 0 /\ cursor' = cursor - 1 /\ budget' = budget
    BY <1>1, <1>5 DEF PlaceBuy
  <2>2. SubmitLevelOrder(levelOrders, cursor, "BUY", 0)
    BY <1>5 DEF PlaceBuy, Regular
  <2>3. Planned(cursor) /\ GridSide(cursor) = "BUY"
    BY <1>1, <2>1 DEF Planned, GridSide
  <2>4. PICK kk \in Levels : kk = cursor
    BY <1>1
  <2>5. ~Planned(kk)'
    BY <1>1, <2>1, <2>4 DEF Planned
  <2>6. \A m \in Levels : m # kk => (Planned(m)' <=> Planned(m))
    BY <1>1, <1>2, <2>1, <2>4 DEF Planned
  <2>7. LinesApart' /\ UNCHANGED Slots
    BY <1>1, <1>2, <1>3, <1>4, <2>2, <2>3, <2>4, <2>5, <2>6, LadderSubmit DEF Sides
  <2>8. LoopFunded'
    BY <1>1, <1>2, <2>1 DEF LoopFunded
  <2> QED
    BY <2>7, <2>8
<1>6. CASE PlaceSell
  <2>1. cursor > 0 /\ budget # 0
    BY <1>1, <1>6 DEF PlaceSell, LoopFunded
  <2>2. /\ SubmitLevelOrder(levelOrders, cursor, "SELL", 0)
        /\ cursor' = IF cursor = Hi THEN 0 ELSE cursor + 1
        /\ budget' = IF InventoryMode = "prebalanced" THEN budget ELSE budget - 1
    BY <1>6, <2>1 DEF PlaceSell
  <2>3. Planned(cursor) /\ GridSide(cursor) = "SELL"
    BY <1>1, <2>1 DEF Planned, GridSide
  <2>4. PICK kk \in Levels : kk = cursor
    BY <1>1
  <2>5. ~Planned(kk)'
    BY <1>1, <2>1, <2>2, <2>4 DEF Planned
  <2>6. \A m \in Levels : m # kk => (Planned(m)' <=> Planned(m))
    BY <1>1, <1>2, <2>1, <2>2, <2>4 DEF Planned, Levels
  <2>7. LinesApart' /\ UNCHANGED Slots
    BY <1>1, <1>2, <1>3, <1>4, <2>2, <2>3, <2>4, <2>5, <2>6, LadderSubmit DEF Sides
  <2>8. LoopFunded'
    BY <1>1, <1>2, <2>1, <2>2 DEF LoopFunded
  <2> QED
    BY <2>7, <2>8
<1> QED
  BY <1>5, <1>6

\* A bootstrap order is none of the grid's.
LEMMA BootWorking ==
  ASSUME TypeOK, NEW type, ExecuteBootstrap(type), UNCHANGED book
  PROVE  Working' = Working /\ bootCid' # NoCid /\ UNCHANGED <<orders, levelOrders>>
<1> DEFINE cid == [side |-> "BOOT", lvl |-> 0, cycle |-> 0, seq |-> orderSeq + 1]
           new == [cid |-> cid, level |-> 0, side |-> IF type = "MARKET" THEN "MARKET" ELSE "LIMIT"]
<1>1. sendq' = Append(sendq, new) /\ bootCid' = cid /\ UNCHANGED <<orders, levelOrders>>
  BY DEF ExecuteBootstrap
<1>2. orderSeq + 1 \in Nat /\ 0 \in Levels
  BY GridAssumption DEF TypeOK, Levels
<1>3. new \in WireOrder /\ OffGrid(new) /\ cid # NoCid
  BY <1>2 DEF WireOrder, Cid, OffGrid, IsBoot, NoCid
<1> HIDE DEF new, cid
<1>4. Queued' = Queued \cup {new}
  BY <1>1, <1>3, QueueIs
<1> QED
  BY <1>1, <1>3, <1>4 DEF Working

\* The start of the loop and the bootstrap change no line's plan.
LEMMA LadderBegin ==
  ASSUME TypeOK, Tracked, BootTracked, LoopFunded, LinesApart, Initialize \/ PlaceBootstrap
  PROVE  LoopFunded' /\ LinesApart' /\ UNCHANGED Slots
<1>1. /\ cursor \in Int /\ Lo \in Int /\ Hi \in Int /\ Lo < 0 /\ 0 < Hi
      /\ \A l \in Levels : l \in Int /\ Lo <= l /\ l <= Hi
      /\ UNCHANGED <<missed, book, gap, credit, events, orders, levelOrders>>
  BY GridAssumption DEF TypeOK, Initialize, PlaceBootstrap, marketVars, Levels, mapVars,
                        ExecuteBootstrap
<1>2. /\ Undispatched' = Undispatched /\ Promised' = Promised
      /\ \A o \in book' : OffGrid(o) \/ MakerSafe(o.level, o.side)'
      /\ FillsInTurn(orders', events')
  BY <1>1, MarketStill
<1>3. CASE Initialize
  <2>1. /\ ~initialized /\ initialized' /\ cursor' = -1 /\ UNCHANGED <<bootCid, sendq>>
        /\ cursor = 0 /\ bootCid = NoCid
        /\ budget' = IF InventoryMode = "prebalanced" THEN Hi ELSE 0
    BY <1>3 DEF Initialize, BootTracked
  <2>2. \A l \in Levels : Planned(l)' <=> Planned(l)
    BY <1>1, <2>1 DEF Planned
  <2>3. Working' = Working
    BY <1>1, <2>1, QueueIs DEF Working
  <2>4. LoopFunded'
    BY <1>2, <2>1 DEF LoopFunded
  <2> QED
    BY <1>1, <1>2, <2>2, <2>3, <2>4, LadderStill
<1>4. CASE PlaceBootstrap
  <2>1. cursor = Lo - 1 /\ initialized /\ initialized' /\ budget' = budget
    BY <1>1, <1>4 DEF PlaceBootstrap, BootTracked, lifeVars
  <2>2. bootCid = NoCid
    BY <1>1, <2>1 DEF LoopFunded
  <2>3. CASE /\ InventoryMode = "prebalanced"
             /\ cursor' = 1
             /\ UNCHANGED <<mapVars, bootCid, sendq>>
    <3>1. \A l \in Levels : Planned(l)' <=> Planned(l)
      BY <1>1, <2>1, <2>2, <2>3 DEF Planned
    <3>2. Working' = Working
      BY <1>1, <2>3, QueueIs DEF Working
    <3>3. LoopFunded'
      BY <1>2, <2>1, <2>2, <2>3 DEF LoopFunded
    <3> QED
      BY <1>1, <1>2, <3>1, <3>2, <3>3, LadderStill
  <2>4. CASE /\ InventoryMode = "quote_only_bootstrap"
             /\ cursor' = 0
             /\ ExecuteBootstrap(BootType)
    <3>1. bootCid' # NoCid
      BY <2>4 DEF ExecuteBootstrap, NoCid
    <3>2. \A l \in Levels : Planned(l)' <=> Planned(l)
      BY <1>1, <2>1, <2>4, <3>1 DEF Planned
    <3>3. Working' = Working
      BY <1>1, <2>4, BootWorking
    <3>4. LoopFunded'
      BY <1>2, <2>1, <2>4 DEF LoopFunded
    <3> QED
      BY <1>1, <1>2, <3>2, <3>3, <3>4, LadderStill
  <2> QED
    BY <1>4, <2>3, <2>4 DEF PlaceBootstrap
<1> QED
  BY <1>3, <1>4

\* The oldest report is taken and the others stay.
LEMMA LeftIs ==
  ASSUME events \in Seq(Report), events # <<>>, events' = Tail(events)
  PROVE  \A r \in Undispatched : r = Head(events) \/ r \in Undispatched'
<1>1. ASSUME NEW i \in DOMAIN events
      PROVE  \/ events[i] = Head(events)
             \/ i - 1 \in DOMAIN events' /\ events'[i - 1] = events[i]
  OBVIOUS
<1> QED
  BY <1>1 DEF Undispatched

\* A report taken from the stream that fills nothing of the grid.
LEMMA OtherTaken ==
  ASSUME TypeOK, LinesApart, UNCHANGED <<orders, book, gap>>,
         events # <<>>, events' = Tail(events),
         Head(events).type = "FILLED" => Head(events).cid \notin DOMAIN orders
  PROVE  /\ Undispatched' \subseteq Undispatched /\ Promised' = Promised
         /\ \A o \in book' : OffGrid(o) \/ MakerSafe(o.level, o.side)'
         /\ FillsInTurn(orders', events')
<1>1. events \in Seq(Report)
  BY DEF TypeOK
<1>2. Undispatched' \subseteq Undispatched
  BY StreamIs
<1>3. \A r \in Undispatched : r = Head(events) \/ r \in Undispatched'
  BY <1>1, LeftIs
<1>4. Promised' = Promised
  <2>1. \A d : d \in Promised' <=> /\ d \in DOMAIN orders
                                   /\ \E r \in Undispatched' : r.type = "FILLED" /\ r.cid = d
    BY DEF Promised, Pending, Undispatched
  <2>2. \A d : d \in Promised <=> /\ d \in DOMAIN orders
                                  /\ \E r \in Undispatched : r.type = "FILLED" /\ r.cid = d
    BY DEF Promised, Pending, Undispatched
  <2>3. ASSUME NEW d \in Promised PROVE d \in Promised'
    <3>1. PICK r \in Undispatched : r.type = "FILLED" /\ r.cid = d
      BY <2>2, <2>3
    <3>2. r \in Undispatched' /\ d \in DOMAIN orders
      BY <1>3, <2>2, <2>3, <3>1
    <3> QED
      BY <2>1, <3>1, <3>2
  <2>4. \A d : d \in Promised' => d \in Promised
    BY <1>2, <2>1, <2>2
  <2>5. \A d : d \in Promised' <=> d \in Promised
    BY <2>3, <2>4
  <2> HIDE DEF Promised
  <2> QED
    BY <2>5
<1>5. FillsInTurn(orders', events')
  BY <1>1, TurnKept DEF LinesApart
<1>6. \A o \in book' : OffGrid(o) \/ MakerSafe(o.level, o.side)'
  BY DEF LinesApart, MakerSafe
<1> QED
  BY <1>2, <1>4, <1>5, <1>6

\* The line a dispatched fill is answered on is free: no order holds it, and a fill
\* that held it was dispatched before.
LEMMA LineFree ==
  ASSUME TypeOK, Tracked, NothingCrosses, LinesApart,
         Held(levelOrders, orders, sendq, book, events),
         events # <<>>, Head(events).type = "FILLED", Head(events).cid \in Promised,
         NEW k \in Levels, k = CounterLevel(orders[Head(events).cid])
  PROVE  levelOrders[k] = NoCid
<1>1. /\ events \in Seq(Report) /\ 1 \in DOMAIN events /\ Head(events) = events[1]
      /\ \A i \in DOMAIN events : ~(i < 1)
  BY DEF TypeOK
<1> SUFFICES ASSUME levelOrders[k] # NoCid PROVE FALSE
  OBVIOUS
<1> DEFINE x == levelOrders[k]
<1>2. x \in DOMAIN orders /\ orders[x].level = k /\ GridCid(x)
  BY DEF Held, Tracked, Consistent
<1>3. \A o \in Working : o.cid = x => o.level = k
  BY <1>2, WorkingIs
<1>4. \A o \in Working : o.level # k
  BY DEF LinesApart
<1>5. ASSUME NEW o \in Queued \cup book, o.cid = x PROVE FALSE
  <2>1. o \in Working
    BY <1>2, <1>5 DEF Tracked, Consistent, Working, Queued
  <2> QED
    BY <1>3, <1>4, <1>5, <2>1
<1>6. ASSUME NEW i \in DOMAIN events, events[i].type \in Terminal, events[i].cid = x PROVE FALSE
  <2>1. events[i] \in Undispatched
    BY DEF Undispatched
  <2>2. events[i].type = "FILLED"
    BY <1>2, <1>6, <2>1 DEF NothingCrosses, Terminal
  <2>3. events[1].type = "FILLED" /\ events[1].cid \in DOMAIN orders
    BY <1>1 DEF Promised
  <2>4. i < 1
    BY <1>1, <1>2, <1>6, <2>2, <2>3 DEF LinesApart, FillsInTurn
  <2> QED
    BY <1>1, <2>4
<1> QED
  BY <1>5, <1>6 DEF Held, Queued

\* A dispatched fill gets its order on the line it was promised.
LEMMA LadderAnswer ==
  ASSUME TypeOK, Tracked, NothingCrosses, BootTracked, LoopFunded, LinesApart,
         Held(levelOrders, orders, sendq, book, events), NewId,
         Deliver({"FILLED"}), UNCHANGED <<bootCid, loopVars>>,
         NEW c, c = Head(events).cid, c \in DOMAIN orders,
         CounterLevel(orders[c]) \in Levels =>
            SubmitLevelOrder([levelOrders EXCEPT ![orders[c].level] = NoCid],
                             CounterLevel(orders[c]), CounterSide(orders[c]), cycleSeq + 1)
  PROVE  LoopFunded' /\ LinesApart' /\ UNCHANGED Slots
<1>1. /\ Head(events) \in Undispatched /\ Undispatched' \subseteq Undispatched
      /\ Head(events).type = "FILLED"
      /\ UNCHANGED <<initialized, book, gap, credit, bootCid, cursor, budget>>
      /\ events # <<>> /\ events' = Tail(events) /\ events \in Seq(Report)
      /\ GridCid(c)
  BY TakenIs DEF loopVars, Deliver, TypeOK, Tracked, Consistent
<1>2. c \in Promised
  BY <1>1, PendingIs DEF Promised
<1>3. PICK k \in Levels : k = CounterLevel(orders[c])
  BY <1>2 DEF LinesApart
<1>4. /\ \A o \in Working : o.level # k
      /\ \A d \in Promised : CounterLevel(orders[d]) = k => d = c
      /\ ~Planned(k) /\ Due(k) = CounterSide(orders[c])
  BY <1>2, <1>3, DueNow DEF LinesApart
<1>5. levelOrders[k] = NoCid
  BY <1>1, <1>2, <1>3, LineFree
<1> DEFINE slots == [levelOrders EXCEPT ![orders[c].level] = NoCid]
<1>6. /\ slots[k] = NoCid /\ DOMAIN slots = Levels
      /\ \A m \in Levels : slots[m] \in {levelOrders[m], NoCid}
  BY <1>5 DEF TypeOK
<1>7. SubmitLevelOrder(slots, k, CounterSide(orders[c]), cycleSeq + 1)
  BY <1>3
<1> HIDE DEF slots
<1>8. CounterSide(orders[c]) \in Sides /\ cycleSeq + 1 \in Nat
  BY DEF TypeOK, CounterSide, Sides
<1>9. \A d \in Promised : CounterLevel(orders[d]) # k
            <=> \E r \in Undispatched' : r.type = "FILLED" /\ r.cid = d
  <2>1. \A r \in Undispatched' : r.type = "FILLED" => r.cid # c
    BY <1>1, TakenIs DEF Terminal
  <2>2. \A r \in Undispatched : r = Head(events) \/ r \in Undispatched'
    BY <1>1, LeftIs
  <2>3. \A d \in Promised : \E r \in Undispatched : r.type = "FILLED" /\ r.cid = d
    BY PendingIs DEF Promised
  <2>4. ASSUME NEW d \in Promised, CounterLevel(orders[d]) # k
        PROVE  \E r \in Undispatched' : r.type = "FILLED" /\ r.cid = d
    <3>1. d # c
      BY <1>3, <2>4
    <3> QED
      BY <2>2, <2>3, <2>4, <3>1
  <2>5. ASSUME NEW d \in Promised, NEW r \in Undispatched', r.type = "FILLED", r.cid = d
        PROVE  CounterLevel(orders[d]) # k
    BY <1>4, <2>1, <2>5
  <2> QED
    BY <2>4, <2>5
<1>10. \A m \in Levels : Planned(m)' <=> Planned(m)
  BY <1>1 DEF Planned
<1>11. FillsInTurn(orders, events')
  BY <1>1, TurnKept DEF LinesApart
<1>12. LinesApart' /\ UNCHANGED Slots
  BY <1>1, <1>4, <1>6, <1>7, <1>8, <1>9, <1>10, <1>11, LadderSubmit
<1>13. LoopFunded'
  BY <1>1 DEF LoopFunded
<1> QED
  BY <1>12, <1>13

\* Reports dispatched.
LEMMA LadderDispatch ==
  ASSUME TypeOK, Tracked, NothingCrosses, BootTracked, LoopFunded, LinesApart, Undisturbed,
         Held(levelOrders, orders, sendq, book, events), NewId, Dispatch
  PROVE  LoopFunded' /\ LinesApart' /\ UNCHANGED Slots
<1> DEFINE r == Head(events)
<1>1. PICK types : Deliver(types)
  BY DEF Dispatch, DispatchNew, DispatchFilled, DispatchRejected, DispatchCanceled
<1>2. /\ r \in Undispatched /\ r.type \in types /\ Undispatched' \subseteq Undispatched
      /\ UNCHANGED <<initialized, book, gap, credit>> /\ cursor = 0
      /\ r.cid \in Cid /\ r.cid # NoCid /\ events # <<>> /\ events' = Tail(events)
      /\ \A l \in Levels : l \in Int
  BY <1>1, TakenIs, ReportIs, GridAssumption DEF Deliver, Levels
<1>3. r.type # "CANCELED"
  BY <1>2 DEF Undisturbed, Undispatched
    \* handlers that answer nothing
<1>4. ASSUME r.type = "FILLED" => r.cid \notin DOMAIN orders,
             UNCHANGED <<orders, levelOrders>>, Working' = Working, LoopFunded',
             \A l \in Levels : Planned(l)' <=> Planned(l)
      PROVE  LoopFunded' /\ LinesApart' /\ UNCHANGED Slots
  <2>1. /\ Promised' = Promised
        /\ \A o \in book' : OffGrid(o) \/ MakerSafe(o.level, o.side)'
        /\ FillsInTurn(orders', events')
    BY <1>2, <1>4, OtherTaken
  <2> QED
    BY <1>4, <2>1, LadderStill
<1>5. ASSUME r.type = "FILLED" => r.cid \notin DOMAIN orders,
             UNCHANGED <<orders, levelOrders, cursor, budget, bootCid, sendq>>
      PROVE  LoopFunded' /\ LinesApart' /\ UNCHANGED Slots
  <2>1. Working' = Working
    BY <1>2, <1>5, QueueIs DEF Working
  <2>2. \A l \in Levels : Planned(l)' <=> Planned(l)
    BY <1>2, <1>5 DEF Planned
  <2>3. LoopFunded'
    BY <1>2, <1>5 DEF LoopFunded
  <2> QED
    BY <1>4, <1>5, <2>1, <2>2, <2>3
<1>6. CASE DispatchNew
  <2>1. r.type = "NEW"
    BY <1>6 DEF DispatchNew, Deliver
  <2> QED
    BY <1>5, <1>6, <2>1 DEF DispatchNew, mapVars, loopVars
<1>7. CASE DispatchFilled
  <2>1. r.type = "FILLED" /\ Deliver({"FILLED"}) /\ status # "EMERGENCY_STOPPING"
    BY <1>7 DEF DispatchFilled, Deliver, Undisturbed
  <2>2. CASE r.cid = bootCid /\ OnBootstrapFilled(r.qty)
    <3>1. /\ bootCid # NoCid /\ bootCid' = NoCid /\ cursor' = 1 /\ budget' = r.qty
          /\ UNCHANGED <<orders, levelOrders, sendq>>
          /\ initialized /\ initialized' /\ InventoryMode # "prebalanced"
          /\ ~GridCid(r.cid)
      BY <1>2, <2>2 DEF OnBootstrapFilled, BootTracked, mapVars
    <3>2. r.cid \notin DOMAIN orders
      BY <3>1 DEF Tracked, Consistent
    <3>3. Working' = Working
      BY <1>2, <3>1, QueueIs DEF Working
    <3>4. \A l \in Levels : Planned(l)' <=> Planned(l)
      BY <1>2, <3>1 DEF Planned
    <3>5. r.qty = Hi /\ Hi \in Int
      BY <1>2, <2>1, <3>1, GridAssumption DEF LoopFunded
    <3>6. LoopFunded'
      BY <1>2, <3>1, <3>5 DEF LoopFunded
    <3> QED
      BY <1>4, <3>1, <3>2, <3>3, <3>4, <3>6
  <2>3. CASE r.cid # bootCid /\ OnOrderFilled(r.cid)
    <3>1. UNCHANGED loopVars /\ UNCHANGED bootCid
      BY <2>3 DEF OnOrderFilled
    <3>2. CASE r.cid \notin DOMAIN orders
      <4>1. UNCHANGED <<mapVars, cycleSeq, sendq>>
        BY <2>3, <3>2 DEF OnOrderFilled
      <4> QED
        BY <1>5, <3>1, <3>2, <4>1 DEF loopVars, mapVars
    <3>3. CASE r.cid \in DOMAIN orders
      <4>1. status = "RUNNING"
        BY <3>3 DEF Undisturbed
      <4>2. CounterLevel(orders[r.cid]) \in Levels =>
               SubmitLevelOrder([levelOrders EXCEPT ![orders[r.cid].level] = NoCid],
                                CounterLevel(orders[r.cid]), CounterSide(orders[r.cid]),
                                cycleSeq + 1)
        BY <2>3, <3>3, <4>1 DEF OnOrderFilled
      <4> QED
        BY <2>1, <3>1, <3>3, <4>2, LadderAnswer
    <3> QED
      BY <3>2, <3>3
  <2> QED
    BY <1>7, <2>1, <2>2, <2>3 DEF DispatchFilled
<1>8. CASE DispatchRejected
  <2>1. /\ r.type \in {"EXPIRED", "REJECTED"} /\ UNCHANGED loopVars
        /\ r.cid \notin DOMAIN orders /\ r.type # "FILLED"
    BY <1>2, <1>8 DEF DispatchRejected, Deliver, NothingCrosses, Tracked, Consistent
  <2>2. CASE UNCHANGED <<orders, levelOrders, bootCid, sendq>>
    BY <1>5, <2>1, <2>2 DEF loopVars
  <2>3. CASE r.cid = bootCid /\ ExecuteBootstrap("MARKET")
    <3>1. /\ Working' = Working /\ bootCid' # NoCid /\ UNCHANGED <<orders, levelOrders>>
          /\ bootCid # NoCid /\ initialized /\ initialized' /\ cursor' = 0 /\ budget' = budget
      BY <1>2, <2>1, <2>3, BootWorking DEF BootTracked, loopVars
    <3>2. \A l \in Levels : Planned(l)' <=> Planned(l)
      BY <1>2, <3>1 DEF Planned
    <3>3. LoopFunded'
      BY <1>2, <3>1 DEF LoopFunded
    <3> QED
      BY <1>4, <2>1, <3>1, <3>2, <3>3
  <2> QED
    BY <1>8, <2>1, <2>2, <2>3
       DEF DispatchRejected, OnBootstrapRejected, OnOrderRejected, mapVars
<1>9. CASE DispatchCanceled
  BY <1>3, <1>9 DEF DispatchCanceled, Deliver
<1> QED
  BY <1>6, <1>7, <1>8, <1>9 DEF Dispatch

\* Reports that fill nothing of the grid.
LEMMA OtherReports ==
  ASSUME TypeOK, LinesApart, UNCHANGED orders, NEW new \in Seq(Report), events' = events \o new,
         \A i \in DOMAIN new : new[i].type = "FILLED" => new[i].cid \notin DOMAIN orders
  PROVE  /\ Promised' = Promised /\ FillsInTurn(orders', events')
         /\ Undispatched' = Undispatched \cup {new[i] : i \in DOMAIN new}
<1>1. Undispatched' = Undispatched \cup {new[i] : i \in DOMAIN new}
  BY StreamIs
<1>2. Promised' = Promised
  <2>1. \A d : d \in Promised' <=> /\ d \in DOMAIN orders
                                   /\ \E r \in Undispatched' : r.type = "FILLED" /\ r.cid = d
    BY DEF Promised, Pending, Undispatched
  <2>2. \A d : d \in Promised <=> /\ d \in DOMAIN orders
                                  /\ \E r \in Undispatched : r.type = "FILLED" /\ r.cid = d
    BY DEF Promised, Pending, Undispatched
  <2>3. ASSUME NEW d \in Promised' PROVE d \in Promised
    <3>1. PICK r \in Undispatched' : r.type = "FILLED" /\ r.cid = d /\ d \in DOMAIN orders
      BY <2>1, <2>3
    <3>2. r \in Undispatched
      BY <1>1, <3>1
    <3> QED
      BY <2>2, <3>1, <3>2
  <2>4. \A d : d \in Promised => d \in Promised'
    BY <1>1, <2>1, <2>2
  <2>5. \A d : d \in Promised' <=> d \in Promised
    BY <2>3, <2>4
  <2> HIDE DEF Promised
  <2> QED
    BY <2>5
<1>3. FillsInTurn(orders', events')
  <2>1. events \in Seq(Report)
    BY DEF TypeOK
  <2> QED
    BY <2>1, TurnKept DEF LinesApart
<1> QED
  BY <1>1, <1>2, <1>3

\* The writer moves an order of the grid from the queue to the book.
LEMMA LadderWriter ==
  ASSUME Regular, TypeOK, Tracked, NothingCrosses, BootTracked, LoopFunded, LinesApart,
         Undisturbed, WriterSend
  PROVE  LoopFunded' /\ LinesApart' /\ UNCHANGED Slots
<1> DEFINE o == Head(sendq)
<1>1. /\ sendq # <<>> /\ sendq' = Tail(sendq) /\ sendq \in Seq(WireOrder)
      /\ UNCHANGED <<initialized, cursor, budget, orders, levelOrders, missed, bootCid, gap>>
  BY DEF WriterSend, lifeVars, loopVars, mapVars, TypeOK
<1>2. o \in Queued /\ Queued' \subseteq Queued /\ \A p \in Queued : p = o \/ p \in Queued'
  <2>1. \A i \in DOMAIN sendq : \/ sendq[i] = o
                                \/ i - 1 \in DOMAIN sendq' /\ sendq'[i - 1] = sendq[i]
    BY <1>1
  <2> QED
    BY <1>1, <2>1, QueueIs DEF Queued
<1>3. /\ o \in WireOrder /\ o.cid \in Cid
      /\ OffGrid(o) => ~GridCid(o.cid)
  BY <1>2, OffGridIs
<1>4. \A c \in DOMAIN orders : GridCid(c)
  BY DEF Tracked, Consistent
<1>5. \A l \in Levels : Planned(l)' <=> Planned(l)
  BY <1>1 DEF Planned
<1>6. \A type \in {"NEW", "EXPIRED"} :
         /\ <<Reports(type, o.cid)>> \in Seq(Report)
         /\ Reports(type, o.cid).type = type /\ Reports(type, o.cid).cid = o.cid
         /\ Append(events, Reports(type, o.cid)) = events \o <<Reports(type, o.cid)>>
  <2>1. \A type \in {"NEW", "EXPIRED"} : Reports(type, o.cid) \in Report
    BY <1>3, GridAssumption DEF Reports, Report
  <2>2. events \in Seq(Report)
    BY DEF TypeOK
  <2>3. \A r \in Report : Append(events, r) = events \o <<r>> /\ <<r>> \in Seq(Report)
    BY <2>2
  <2> QED
    BY <2>1, <2>3 DEF Reports
    \* answers, whatever they report
<1>7. ASSUME NEW new \in Seq(Report), events' = events \o new,
             \A i \in DOMAIN new : new[i].type = "FILLED" => /\ new[i].cid \notin DOMAIN orders
                                                             /\ new[i].qty = Hi,
             \/ book' = book /\ OffGrid(o)
             \/ book' = book \cup {o}
      PROVE  LoopFunded' /\ LinesApart' /\ UNCHANGED Slots
  <2>1. /\ Promised' = Promised /\ FillsInTurn(orders', events')
        /\ Undispatched' = Undispatched \cup {new[i] : i \in DOMAIN new}
    BY <1>1, <1>7, OtherReports
  <2>2. Working' = Working
    BY <1>2, <1>7 DEF Working
  <2>3. \A p \in book' : OffGrid(p) \/ MakerSafe(p.level, p.side)'
    BY <1>1, <1>2, <1>7 DEF NothingCrosses, LinesApart, MakerSafe
  <2>4. LoopFunded'
    BY <1>1, <1>7, <2>1 DEF LoopFunded
  <2> QED
    BY <1>1, <1>5, <2>1, <2>2, <2>3, <2>4, LadderStill
<1>8. CASE /\ book' = book \cup {o}
           /\ events' = Append(events, Reports("NEW", o.cid))
  <2> DEFINE new == <<Reports("NEW", o.cid)>>
  <2>1. new \in Seq(Report) /\ events' = events \o new
    BY <1>6, <1>8
  <2>2. DOMAIN new = {1} /\ new[1].type = "NEW"
    BY <1>6
  <2> HIDE DEF new
  <2>3. \A i \in DOMAIN new : new[i].type # "FILLED"
    BY <2>2
  <2> QED
    BY <1>7, <1>8, <2>1, <2>3
<1>9. CASE /\ Crosses(o) \/ IsBoot(o)
           /\ book' = book
           /\ events' = Append(events, Reports("EXPIRED", o.cid))
  <2>1. OffGrid(o)
    BY <1>2, <1>9 DEF NothingCrosses, Crosses, OffGrid, IsBoot, Sides
  <2> DEFINE new == <<Reports("EXPIRED", o.cid)>>
  <2>2. new \in Seq(Report) /\ events' = events \o new
    BY <1>6, <1>9
  <2>3. DOMAIN new = {1} /\ new[1].type = "EXPIRED"
    BY <1>6
  <2> HIDE DEF new
  <2>4. \A i \in DOMAIN new : new[i].type # "FILLED"
    BY <2>3
  <2> QED
    BY <1>7, <1>9, <2>1, <2>2, <2>4
<1>10. o.side # "ANCHOR" /\ o.side # "CANCEL_ALL"
  BY <1>2 DEF NothingCrosses, Working, OffGrid, IsBoot, Sides, Undisturbed, Queued
<1>11. CASE /\ o.side = "MARKET" /\ book' = book
            /\ \E q \in BootYield :
                 events' = events \o <<Reports("NEW", o.cid),
                                  [type |-> "FILLED", cid |-> o.cid, qty |-> q]>>
  <2> DEFINE fill == [type |-> "FILLED", cid |-> o.cid, qty |-> Hi]
             new == <<Reports("NEW", o.cid), fill>>
  <2>1. events' = events \o new
    BY <1>11 DEF BootYield, Regular
  <2>2. fill \in Report /\ fill.cid = o.cid /\ fill.qty = Hi /\ Reports("NEW", o.cid) \in Report
    BY <1>3, GridAssumption DEF Report, Reports
  <2>3. OffGrid(o)
    BY <1>11 DEF OffGrid, IsBoot
  <2>4. o.cid \notin DOMAIN orders
    BY <1>3, <1>4, <2>3
  <2> HIDE DEF fill
  <2>5. /\ new \in Seq(Report) /\ DOMAIN new = {1, 2}
        /\ new[1] = Reports("NEW", o.cid) /\ new[2] = fill
    BY <2>2
  <2>6. \A i \in DOMAIN new : new[i].type = "FILLED" => /\ new[i].cid \notin DOMAIN orders
                                                        /\ new[i].qty = Hi
    BY <1>6, <2>2, <2>4, <2>5
  <2> HIDE DEF new
  <2> QED
    BY <1>7, <1>11, <2>1, <2>3, <2>5, <2>6
<1> QED
  BY <1>8, <1>9, <1>10, <1>11 DEF WriterSend, Answer, marketVars, Regular

\* The price is next to the hole: a fill is answered on a line that is due nothing.
LEMMA HoleIs ==
  ASSUME TypeOK, Tracked, NothingCrosses, LinesApart, Ladder!LadderShape,
         cursor = 0, initialized, NEW o \in Working,
         o.level = IF o.side = "BUY" THEN gap ELSE gap + 1
  PROVE  \E h \in Levels : /\ h = IF o.side = "BUY" THEN o.level + 1 ELSE o.level - 1
                           /\ Due(h) = "NONE" /\ ~Planned(h)
                           /\ \A p \in Working : p.level # h
                           /\ \A d \in Promised : CounterLevel(orders[d]) # h
<1>1. /\ gap \in Int /\ \A l \in Levels : l \in Int
      /\ \A l \in Int : Lo <= l /\ l <= Hi => l \in Levels
      /\ \A l \in Levels : Lo <= l /\ l <= Hi
      /\ Lo \in Int /\ Hi \in Int
  BY GridAssumption DEF TypeOK, Levels
<1>2. o.level \in Levels /\ o.side \in Sides /\ Due(o.level) = o.side
  <2>1. o.level \in Levels
    BY QueueIs DEF Working, TypeOK, WireOrder
  <2> QED
    BY <2>1, DueNow DEF NothingCrosses
<1>3. PICK h \in Levels : /\ Due(h) = "NONE"
                          /\ \A l \in Levels : /\ l < h => Due(l) = "BUY"
                                               /\ l > h => Due(l) = "SELL"
  BY DEF Ladder!LadderShape, Ladder!Levels, Levels, Slots
<1>4. \A l \in Levels : /\ Due(l) = "BUY" => l <= gap
                        /\ Due(l) = "SELL" => l > gap
  BY DueSafe
<1>5. h = IF o.side = "BUY" THEN o.level + 1 ELSE o.level - 1
  <2>1. CASE o.side = "BUY"
    <3>1. o.level = gap /\ gap \in Levels /\ Due(gap) = "BUY"
      BY <1>2, <2>1
    <3>2. gap < h
      BY <1>1, <1>3, <3>1
    <3>3. ~(gap + 1 < h)
      <4> SUFFICES ASSUME gap + 1 < h PROVE FALSE
        OBVIOUS
      <4>1. gap + 1 \in Levels
        BY <1>1, <3>1
      <4>2. Due(gap + 1) = "BUY"
        BY <1>3, <4>1
      <4> QED
        BY <1>1, <1>4, <4>1, <4>2
    <3> QED
      BY <1>1, <2>1, <3>1, <3>2, <3>3
  <2>2. CASE o.side = "SELL"
    <3>1. o.level = gap + 1 /\ gap + 1 \in Levels /\ Due(gap + 1) = "SELL"
      BY <1>2, <2>2
    <3>2. h < gap + 1
      BY <1>1, <1>3, <3>1
    <3>3. ~(h < gap)
      <4> SUFFICES ASSUME h < gap PROVE FALSE
        OBVIOUS
      <4>1. gap \in Levels
        BY <1>1, <3>1
      <4>2. Due(gap) = "SELL"
        BY <1>1, <1>3, <4>1
      <4> QED
        BY <1>1, <1>4, <4>1, <4>2
    <3> QED
      BY <1>1, <2>2, <3>1, <3>2, <3>3
  <2> QED
    BY <1>2, <2>1, <2>2 DEF Sides
<1>6. /\ \A p \in Working : p.level = h => Due(h) \in Sides
      /\ \A d \in Promised : CounterLevel(orders[d]) = h => Due(h) \in Sides
      /\ Planned(h) => Due(h) \in Sides \cup {"ANCHOR"}
  BY DueNow DEF NothingCrosses, CounterSide, GridSide, Sides
<1> QED
  BY <1>3, <1>5, <1>6 DEF Sides

\* A fill moves the hole by one line.
LEMMA LadderFill ==
  ASSUME TypeOK, Tracked, NothingCrosses, BootTracked, LoopFunded, LinesApart,
         Ladder!TypeOK, Ladder!LadderShape, NEW o \in book, Fill(o)
  PROVE  LoopFunded' /\ LinesApart' /\ Ladder!Next
<1> DEFINE fill == Reports("FILLED", o.cid)
<1>1. /\ o.side \in Sides /\ o.level = IF o.side = "BUY" THEN gap ELSE gap + 1
      /\ book' = book \ {o} /\ events' = Append(events, fill) /\ cursor = 0 /\ initialized
      /\ UNCHANGED <<initialized, cursor, budget, orders, levelOrders, bootCid, sendq, gap>>
  BY DEF Fill, MayCross, lifeVars, loopVars, mapVars
<1>2. /\ ~OffGrid(o) /\ o \in WireOrder /\ o.cid \in Cid /\ GridCid(o.cid)
      /\ o.cid \in DOMAIN orders /\ o.level \in Levels
      /\ orders[o.cid] = [level |-> o.level, side |-> o.side]
  BY <1>1, OffGridIs DEF OffGrid, IsBoot, Sides, Registered, WireOrder
<1>3. o \in Working /\ orders[o.cid].level = o.level /\ orders[o.cid].side = o.side
  BY <1>2 DEF Working
<1>4. fill \in Report /\ fill.cid = o.cid /\ fill.type = "FILLED"
  BY <1>2, GridAssumption DEF Reports, Report
<1> HIDE DEF fill
<1>5. Undispatched' = Undispatched \cup {fill} /\ Queued' = Queued
  BY <1>1, <1>4, StreamIs, QueueIs
<1>6. Working' = Working \ {o}
  <2>1. o \notin Queued
    BY <1>2 DEF Tracked, Consistent, Queued
  <2> QED
    BY <1>1, <1>5, <2>1 DEF Working
<1>7. \A p \in Working : p.level = o.level => p = o
  BY <1>3, TrackedIsSingle DEF OneOrderPerLevel
<1>8. Promised' = Promised \cup {o.cid}
  <2>1. \A d : d \in Promised' <=> /\ d \in DOMAIN orders
                                   /\ \E r \in Undispatched' : r.type = "FILLED" /\ r.cid = d
    BY <1>1 DEF Promised, Pending, Undispatched
  <2>2. \A d : d \in Promised <=> /\ d \in DOMAIN orders
                                  /\ \E r \in Undispatched : r.type = "FILLED" /\ r.cid = d
    BY DEF Promised, Pending, Undispatched
  <2>3. \A d : d \in Promised' => d \in Promised \/ d = o.cid
    BY <1>4, <1>5, <2>1, <2>2
  <2>4. o.cid \in Promised' /\ \A d : d \in Promised => d \in Promised'
    BY <1>2, <1>4, <1>5, <2>1, <2>2
  <2>5. \A d : d \in Promised' <=> d \in Promised \cup {o.cid}
    BY <2>3, <2>4
  <2> HIDE DEF Promised
  <2> QED
    BY <2>5
<1>9. PICK h \in Levels : /\ h = IF o.side = "BUY" THEN o.level + 1 ELSE o.level - 1
                          /\ Due(h) = "NONE" /\ ~Planned(h)
                          /\ \A p \in Working : p.level # h
                          /\ \A d \in Promised : CounterLevel(orders[d]) # h
  BY <1>1, <1>3, HoleIs
<1>10. CounterLevel(orders[o.cid]) = h /\ h # o.level /\ h \in Int /\ o.level \in Int
  BY <1>1, <1>2, <1>3, <1>9, GridAssumption DEF CounterLevel, Levels
<1>11. \A l \in Levels : Planned(l)' <=> Planned(l)
  BY <1>1 DEF Planned
<1>12. /\ ~Planned(o.level) /\ \A d \in Promised : CounterLevel(orders[d]) # o.level
       /\ Due(o.level) = o.side
  BY <1>2, <1>3, DueNow DEF LinesApart
<1>13. LinesApart'
  <2>1. \A p \in book' : (OffGrid(p) \/ MakerSafe(p.level, p.side))'
    BY <1>1 DEF LinesApart, OffGrid, IsBoot, MakerSafe
  <2>2. \A l \in Levels : Planned(l)' => levelOrders'[l] = NoCid
    BY <1>1, <1>11 DEF LinesApart
  <2>3. ASSUME NEW c \in Promised'
        PROVE  /\ CounterLevel(orders'[c]) \in Levels
               /\ ~Planned(CounterLevel(orders[c]))'
               /\ \A p \in Working' : p.level # CounterLevel(orders'[c])
               /\ \A d \in Promised' :
                     CounterLevel(orders'[d]) = CounterLevel(orders'[c]) => d = c
    <3>1. PICK l \in Levels : l = CounterLevel(orders[c])
      BY <1>8, <1>9, <1>10, <2>3 DEF LinesApart
    <3>2. /\ ~Planned(l) /\ \A p \in Working : p.level # l
      BY <1>8, <1>9, <1>10, <2>3, <3>1 DEF LinesApart
    <3>3. ~Planned(l)' /\ orders' = orders
      BY <1>1, <1>11, <3>2
    <3>4. ~Planned(CounterLevel(orders[c]))'
      BY <3>1, <3>3 DEF Planned
    <3>5. \A p \in Working' : p.level # CounterLevel(orders'[c])
      BY <1>6, <3>1, <3>2, <3>3
    <3>6. \A d \in Promised' :
                     CounterLevel(orders'[d]) = CounterLevel(orders'[c]) => d = c
      BY <1>8, <1>9, <1>10, <2>3, <3>1, <3>3 DEF LinesApart
    <3> QED
      BY <3>1, <3>3, <3>4, <3>5, <3>6
  <2>4. FillsInTurn(orders', events')
    <3>1. /\ events \in Seq(Report) /\ Len(events) \in Int
          /\ DOMAIN events' = DOMAIN events \cup {Len(events) + 1}
          /\ events'[Len(events) + 1] = fill
          /\ \A i \in DOMAIN events : events'[i] = events[i] /\ i \in Int /\ i < Len(events) + 1
      BY <1>1, <1>4 DEF TypeOK
    <3>2. \A i \in DOMAIN events : events[i].type = "FILLED" /\ events[i].cid \in DOMAIN orders
             => CounterLevel(orders[events[i].cid]) # o.level
      <4>1. \A i \in DOMAIN events : events[i].type = "FILLED" /\ events[i].cid \in DOMAIN orders
               => events[i].cid \in Promised
        BY DEF Promised, Pending
      <4> QED
        BY <1>12, <4>1
    <3>3. FillsInTurn(orders, events)
      BY DEF LinesApart
    <3>4. ASSUME NEW i \in DOMAIN events', NEW j \in DOMAIN events',
                 events'[i].type = "FILLED", events'[i].cid \in DOMAIN orders,
                 events'[j].type = "FILLED", events'[j].cid \in DOMAIN orders,
                 orders[events'[j].cid].level = CounterLevel(orders[events'[i].cid])
          PROVE  j < i
      <4>1. CASE j = Len(events) + 1
        <5>1. events'[j].cid = o.cid
          BY <1>4, <3>1, <4>1
        <5>2. i # Len(events) + 1
          BY <1>3, <1>4, <1>10, <3>1, <3>4, <5>1
        <5>3. i \in DOMAIN events /\ events'[i] = events[i]
          BY <3>1, <5>2
        <5> QED
          BY <1>3, <3>2, <3>4, <5>1, <5>3
      <4>2. CASE j \in DOMAIN events /\ i = Len(events) + 1
        BY <3>1, <4>2
      <4>3. CASE j \in DOMAIN events /\ i \in DOMAIN events
        BY <3>1, <3>3, <3>4, <4>3 DEF FillsInTurn
      <4> QED
        BY <3>1, <4>1, <4>2, <4>3
    <3> QED
      BY <1>1, <3>4 DEF FillsInTurn
  <2> QED
    BY <2>1, <2>2, <2>3, <2>4 DEF LinesApart
<1>14. LoopFunded'
  BY <1>1, <1>2, <1>4, <1>5 DEF LoopFunded
<1>15. Due(o.level)' = "NONE"
  <2> DEFINE planned == Planned(o.level)'
  <2>1. planned \in BOOLEAN /\ Due(o.level)' = DueOf(Working', Promised', orders', planned, o.level)
    BY PlannedIs, DueIsOf
  <2>2. ~planned
    BY <1>2, <1>11, <1>12
  <2> HIDE DEF planned
  <2>3. /\ \A p \in Working' : p.level # o.level
        /\ \A d \in Promised' : CounterLevel(orders'[d]) # o.level
    BY <1>1, <1>6, <1>7, <1>8, <1>10, <1>12
  <2> QED
    BY <2>1, <2>2, <2>3, DueIs
<1>16. Due(h)' = CounterSide(orders[o.cid])
  <2> DEFINE planned == Planned(h)'
  <2>1. planned \in BOOLEAN /\ Due(h)' = DueOf(Working', Promised', orders', planned, h)
    BY PlannedIs, DueIsOf
  <2> HIDE DEF planned
  <2>2. /\ o.cid \in Promised' /\ CounterLevel(orders'[o.cid]) = h
        /\ \A p \in Working' : p.level # h
        /\ \A d \in Promised' : CounterLevel(orders'[d]) = h => d = o.cid
    BY <1>1, <1>6, <1>8, <1>9, <1>10
  <2>3. PICK c \in Promised' : c = o.cid
    BY <2>2
  <2>4. /\ \A p \in Working' : p.level # h
        /\ CounterLevel(orders'[c]) = h
        /\ \A d \in Promised' : CounterLevel(orders'[d]) = h => d = c
    BY <2>2, <2>3
  <2>5. planned \in BOOLEAN
    BY <2>1
  <2>6. DueOf(Working', Promised', orders', planned, h) = CounterSide(orders'[c])
    BY <2>4, <2>5, DueIs
  <2> QED
    BY <1>1, <2>1, <2>3, <2>6
<1>17. ASSUME NEW l \in Levels, l # o.level, l # h PROVE Due(l)' = Due(l)
  <2>1. \A p : p \in Working' /\ p.level = l <=> p \in Working /\ p.level = l
    BY <1>6, <1>17
  <2>2. \A c : c \in Promised' /\ CounterLevel(orders'[c]) = l
                 <=> c \in Promised /\ CounterLevel(orders[c]) = l
    BY <1>1, <1>8, <1>10, <1>17
  <2>3. Planned(l)' <=> Planned(l)
    BY <1>11
  <2>4. \A c \in Promised : orders'[c] = orders[c]
    BY <1>1
  <2> QED
    BY <2>1, <2>2, <2>3, <2>4, DueKept
<1>18. /\ Slots \in [Levels -> {"BUY", "SELL", "NONE"}] /\ DOMAIN Slots' = Levels
       /\ Slots[o.level] = o.side /\ Slots[h] = "NONE"
       /\ Slots'[o.level] = "NONE" /\ Slots'[h] = CounterSide(orders[o.cid])
       /\ \A l \in Levels : l # o.level /\ l # h => Slots'[l] = Slots[l]
  <2>1. Slots \in [Levels -> {"BUY", "SELL", "NONE"}]
    BY DEF Ladder!TypeOK, Ladder!Levels, Levels
  <2>2. Slots[o.level] = o.side /\ Slots[h] = "NONE"
    BY <1>2, <1>9, <1>12 DEF Slots
  <2>3. \A l \in Levels : Slots'[l] = Due(l)'
    BY DEF Slots
  <2>4. PICK g \in Levels : g = o.level
    BY <1>2
  <2>5. Slots'[o.level] = "NONE" /\ Slots'[h] = CounterSide(orders[o.cid])
    <3>1. Slots'[h] = Due(h)'
      BY <2>3
    <3>2. Slots'[o.level] = Due(o.level)'
      BY <1>2, <2>3
    <3> QED
      BY <1>15, <1>16, <3>1, <3>2
  <2>6. \A l \in Levels : l # o.level /\ l # h => Slots'[l] = Slots[l]
    BY <1>17, <2>3 DEF Slots
  <2>7. DOMAIN Slots' = Levels
    BY DEF Slots
  <2> QED
    BY <2>1, <2>2, <2>5, <2>6, <2>7
<1>19. Slots' = [Slots EXCEPT ![o.level] = "NONE", ![h] = CounterSide(orders[o.cid])]
  <2>1. Slots' = [l \in Levels |-> Slots'[l]]
    BY DEF Slots
  <2> HIDE DEF Slots
  <2> QED
    BY <1>2, <1>10, <1>18, <2>1
<1>20. CASE o.side = "BUY"
  <2>1. h = o.level + 1 /\ CounterSide(orders[o.cid]) = "SELL"
    BY <1>3, <1>9, <1>20 DEF CounterSide
  <2>2. Ladder!FillBuy(o.level)
    BY <1>18, <1>19, <1>20, <2>1 DEF Ladder!FillBuy, Ladder!Levels, Levels
  <2>3. Ladder!Next
    BY <1>2, <2>2 DEF Ladder!Next, Ladder!Levels, Levels
  <2> QED
    BY <1>13, <1>14, <2>3
<1>21. CASE o.side = "SELL"
  <2>1. h = o.level - 1 /\ CounterSide(orders[o.cid]) = "BUY"
    BY <1>3, <1>9, <1>21 DEF CounterSide
  <2>2. Ladder!FillSell(o.level)
    BY <1>18, <1>19, <1>21, <2>1 DEF Ladder!FillSell, Ladder!Levels, Levels
  <2>3. Ladder!Next
    BY <1>2, <2>2 DEF Ladder!Next, Ladder!Levels, Levels
  <2> QED
    BY <1>13, <1>14, <2>3
<1> QED
  BY <1>1, <1>20, <1>21 DEF Sides


\* A LIMIT bootstrap is filled.
LEMMA LadderBoot ==
  ASSUME Regular, TypeOK, Tracked, NothingCrosses, BootTracked, LoopFunded, LinesApart,
         NEW o \in book, FillBootstrap(o)
  PROVE  LoopFunded' /\ LinesApart' /\ UNCHANGED Slots
<1> DEFINE fill == [type |-> "FILLED", cid |-> o.cid, qty |-> Hi]
           new == <<fill>>
<1>1. /\ o.side = "LIMIT" /\ book' = book \ {o} /\ events' = Append(events, fill)
      /\ UNCHANGED <<initialized, cursor, budget, orders, levelOrders, bootCid, sendq, gap>>
  BY DEF FillBootstrap, BootYield, Regular, lifeVars, loopVars, mapVars
<1>2. OffGrid(o) /\ o.cid \in Cid /\ o.cid \notin DOMAIN orders
  BY <1>1, OffGridIs DEF OffGrid, IsBoot, Tracked, Consistent
<1>3. fill \in Report /\ fill.cid = o.cid /\ fill.qty = Hi
  BY <1>2, GridAssumption DEF Report
<1> HIDE DEF fill
<1>4. /\ new \in Seq(Report) /\ DOMAIN new = {1} /\ new[1] = fill
      /\ events' = events \o new
  BY <1>1, <1>3 DEF TypeOK
<1> HIDE DEF new
<1>5. \A i \in DOMAIN new : new[i].cid \notin DOMAIN orders /\ new[i].qty = Hi
  BY <1>2, <1>3, <1>4
<1>6. /\ Promised' = Promised /\ FillsInTurn(orders', events')
      /\ Undispatched' = Undispatched \cup {new[i] : i \in DOMAIN new}
  BY <1>1, <1>4, <1>5, OtherReports
<1>7. Working' = Working
  BY <1>1, <1>2, QueueIs DEF Working
<1>8. \A p \in book' : OffGrid(p) \/ MakerSafe(p.level, p.side)'
  BY <1>1 DEF LinesApart, MakerSafe
<1>9. \A l \in Levels : Planned(l)' <=> Planned(l)
  BY <1>1 DEF Planned
<1>10. LoopFunded'
  BY <1>1, <1>5, <1>6 DEF LoopFunded
<1> QED
  BY <1>1, <1>6, <1>7, <1>8, <1>9, <1>10, LadderStill

\* The price crosses a line without an order.
LEMMA LadderPrice ==
  ASSUME TypeOK, Tracked, NothingCrosses, BootTracked, LoopFunded, LinesApart,
         PriceUp \/ PriceDown
  PROVE  LoopFunded' /\ LinesApart' /\ UNCHANGED Slots
<1>1. /\ UNCHANGED <<initialized, cursor, budget, orders, levelOrders, bootCid, sendq,
                     events, book>>
      /\ \/ gap' = gap + 1 /\ \A o \in book : o.level # gap + 1 \/ IsBoot(o)
         \/ gap' = gap - 1 /\ \A o \in book : o.level # gap \/ IsBoot(o)
  BY DEF PriceUp, PriceDown, PriceCross, lifeVars, loopVars, mapVars
<1>2. Undispatched' = Undispatched /\ Promised' = Promised /\ Working' = Working
  BY <1>1, StreamIs, QueueIs DEF Promised, Pending, Working
<1>3. ASSUME NEW o \in book' PROVE OffGrid(o) \/ MakerSafe(o.level, o.side)'
  <2>1. o \in WireOrder /\ o.level \in Int /\ gap \in Int
    BY <1>1, <1>3, OffGridIs, GridAssumption DEF TypeOK, WireOrder, Levels
  <2>2. OffGrid(o) \/ MakerSafe(o.level, o.side)
    BY <1>1, <1>3 DEF LinesApart
  <2> QED
    BY <1>1, <1>3, <2>1, <2>2 DEF MakerSafe, OffGrid
<1>4. \A l \in Levels : Planned(l)' <=> Planned(l)
  BY <1>1 DEF Planned
<1>5. LoopFunded' /\ FillsInTurn(orders', events')
  BY <1>1, <1>2 DEF LoopFunded, LinesApart
<1> QED
  BY <1>1, <1>2, <1>3, <1>4, <1>5, LadderStill

\* A regular step is a step of the ladder or leaves it alone.
LEMMA LadderMove ==
  ASSUME Regular, TypeOK, Tracked, NothingCrosses, BootTracked, Undisturbed,
         Held(levelOrders, orders, sendq, book, events), LoopFunded, LinesApart,
         Ladder!TypeOK, Ladder!LadderShape, NewId, [Next]_vars
  PROVE  LoopFunded' /\ LinesApart' /\ [Ladder!Next]_Slots
<1>1. \A l \in Levels : ~RetryMissed(l)
  BY DEF NothingCrosses, RetryMissed
<1>2. /\ ~Pause /\ ~Resume /\ ~Stop /\ ~EmergencyStop /\ ~CancelAgain /\ ~RestCancel
      /\ ~MarkStopped /\ \A o \in book : ~UserCancel(o)
  BY DEF Regular, Pause, Resume, Stop, EmergencyStop, CancelAgain, RestCancel, MarkStopped,
         Command, UserCancel
<1>3. CASE UNCHANGED vars
  <2>1. /\ UNCHANGED <<initialized, cursor, budget, orders, levelOrders, bootCid, sendq,
                       events, book, gap>>
    BY <1>3 DEF vars, lifeVars, loopVars, mapVars, marketVars
  <2>2. /\ Undispatched' = Undispatched /\ Promised' = Promised
        /\ \A o \in book' : OffGrid(o) \/ MakerSafe(o.level, o.side)'
        /\ FillsInTurn(orders', events')
    BY <2>1, MarketStill
  <2>3. Working' = Working
    BY <2>1, QueueIs DEF Working
  <2>4. \A l \in Levels : Planned(l)' <=> Planned(l)
    BY <2>1 DEF Planned
  <2>5. LoopFunded'
    BY <2>1, <2>2 DEF LoopFunded
  <2> QED
    BY <2>1, <2>2, <2>3, <2>4, <2>5, LadderStill
<1>4. CASE \/ Initialize \/ PlaceBuy \/ PlaceBootstrap \/ PlaceSell \/ Dispatch \/ WriterSend
           \/ PriceUp \/ PriceDown \/ \E o \in book : FillBootstrap(o)
  BY <1>4, LadderBegin, LadderPlace, LadderDispatch, LadderWriter, LadderPrice, LadderBoot
<1>5. CASE \E o \in book : Fill(o)
  BY <1>5, LadderFill
<1> QED
  BY <1>1, <1>2, <1>3, <1>4, <1>5 DEF Next, Dispatch

\* At the start every line but the anchor's is planned, and the ladder is the initial one.
LEMMA LadderStart == Init => LadderInv /\ Ladder!Init
<1> SUFFICES ASSUME Init PROVE LadderInv /\ Ladder!Init
  OBVIOUS
<1>1. /\ Queued = {} /\ Undispatched = {} /\ book = {} /\ Working = {} /\ Promised = {}
      /\ DOMAIN orders = {} /\ DOMAIN events = {} /\ events = <<>>
      /\ cursor = 0 /\ ~initialized /\ bootCid = NoCid
      /\ levelOrders = [l \in Levels |-> NoCid]
  BY DEF Init, Queued, Undispatched, Working, Promised
<1>2. LoopFunded
  BY <1>1 DEF LoopFunded
<1>3. LinesApart
  BY <1>1 DEF LinesApart, FillsInTurn
<1>4. \A l \in Levels : l \in Int /\ Lo <= l /\ l <= Hi
  BY GridAssumption DEF Levels
<1>5. 0 \in Levels
  BY GridAssumption DEF Levels
<1>6. ASSUME NEW l \in Levels
      PROVE  Slots[l] = IF l < 0 THEN "BUY" ELSE IF l > 0 THEN "SELL" ELSE "NONE"
  <2>1. Due(l) = IF Planned(l) THEN GridSide(l) ELSE "NONE"
    BY <1>1 DEF Due, Promised
  <2>2. Planned(l) <=> l # 0
    BY <1>1, <1>4 DEF Planned
  <2> QED
    BY <1>4, <2>1, <2>2 DEF Slots, GridSide
<1>7. Slots = [l \in Levels |-> Slots[l]]
  BY DEF Slots
<1> HIDE DEF Slots
<1>8. Ladder!Init
  BY <1>6, <1>7 DEF Ladder!Init, Ladder!Levels, Levels
<1>9. Ladder!TypeOK /\ Ladder!LadderShape
  <2>1. Ladder!TypeOK
    BY <1>8 DEF Ladder!TypeOK, Ladder!Init
  <2>2. Ladder!LadderShape
    BY <1>4, <1>5, <1>6 DEF Ladder!LadderShape, Ladder!Levels, Levels
  <2> QED
    BY <2>1, <2>2
<1> QED
  BY <1>2, <1>3, <1>8, <1>9 DEF LadderInv

\* The step of the invariant, and what it is for the ladder.
LEMMA LadderInvStep ==
  ASSUME Regular, TypeOK, TypeOK', CalmInv, ExactInv, LadderInv, [Next]_vars
  PROVE  LadderInv' /\ [Ladder!Next]_Slots
<1>1. Calm
  BY DEF Regular, Calm
<1>2. /\ Tracked /\ NothingCrosses /\ BootTracked /\ Undisturbed
      /\ Held(levelOrders, orders, sendq, book, events)
      /\ LoopFunded /\ LinesApart /\ Ladder!TypeOK /\ Ladder!LadderShape
  BY DEF CalmInv, ExactInv, LadderInv
<1>3. NewId
  BY <1>1, CalmStep
<1>4. LoopFunded' /\ LinesApart' /\ [Ladder!Next]_Slots
  BY <1>2, <1>3, LadderMove
<1> QED
  BY <1>2, <1>4, LadderStep DEF LadderInv

\* LadderInv is an invariant of a regular run.
THEOREM LadderInvariant ==
  ASSUME Regular
  PROVE  Spec => []LadderInv
<1>1. Faithful /\ Calm
  BY DEF Regular, Faithful, Calm
<1>2. TypeOK /\ TypeOK' /\ CalmInv /\ ExactInv /\ LadderInv /\ [Next]_vars => LadderInv'
  BY LadderInvStep
<1>3. Init => LadderInv
  BY LadderStart
<1> QED
  BY <1>1, <1>2, <1>3, TypeCorrect, CalmInvariant, NoOrderDropped, ExactUnlessDropped, PTL DEF Spec

\* The engine implements the ladder: in a regular run, whatever is in flight and however
\* price, fills, placing loop and bootstrap interleave, a line is due what the ladder
\* says, and only a fill changes that.
THEOREM EngineImplementsLadder ==
  ASSUME Regular
  PROVE  Spec => ImplementsLadder
<1>1. Faithful /\ Calm
  BY DEF Regular, Faithful, Calm
<1>2. TypeOK /\ TypeOK' /\ CalmInv /\ ExactInv /\ LadderInv /\ [Next]_vars
      => [Ladder!Next]_Slots
  BY LadderInvStep
<1>3. Init => Ladder!Init
  BY LadderStart
<1> QED
  BY <1>1, <1>2, <1>3, TypeCorrect, CalmInvariant, NoOrderDropped, ExactUnlessDropped,
     LadderInvariant, PTL DEF Spec, ImplementsLadder, Ladder!Spec

\* Every reachable ladder has exactly one hole, BUYs below and SELLs above it.
THEOREM LadderKeepsShape == Ladder!Spec => [](Ladder!TypeOK /\ Ladder!LadderShape)
<1>1. Ladder!Init => Ladder!TypeOK /\ Ladder!LadderShape
  <2> SUFFICES ASSUME Ladder!Init PROVE Ladder!TypeOK /\ Ladder!LadderShape
    OBVIOUS
  <2>1. Slots = [l \in Levels |-> IF l < 0 THEN "BUY" ELSE IF l > 0 THEN "SELL" ELSE "NONE"]
    BY DEF Ladder!Init, Ladder!Levels, Levels
  <2> HIDE DEF Slots
  <2>2. 0 \in Levels /\ \A l \in Levels : l \in Int
    BY GridAssumption DEF Levels
  <2>3. Ladder!TypeOK
    BY <2>1 DEF Ladder!TypeOK, Ladder!Levels, Levels
  <2>4. Ladder!LadderShape
    BY <2>1, <2>2 DEF Ladder!LadderShape, Ladder!Levels, Levels
  <2> QED
    BY <2>3, <2>4
<1>2. Ladder!TypeOK /\ Ladder!LadderShape /\ [Ladder!Next]_Slots
        => Ladder!TypeOK' /\ Ladder!LadderShape'
  BY LadderStep
<1> QED
  BY <1>1, <1>2, PTL DEF Ladder!Spec
===============================================================================
