--------------------------- MODULE RecoveryProofs ---------------------------
(***************************************************************************)
(* Theorems about Recovery, for every grid and any number of orders and    *)
(* crashes: what recover() puts back, and what the reconciliation frees.   *)
(***************************************************************************)
EXTENDS Recovery, SequenceTheorems, TLAPS

States == {"queued", "open", "filled", "canceled", "refused", "lost"}
Phases == {"idle", "asked", "answered", "compared", "looked"}

(* No BUY on the highest line and no SELL on the lowest: the answer to a    *)
(* fill has its line above or below it.                                     *)
Order == {r \in [side : {"BUY", "SELL", "ANCHOR"}, line : Lines, empty : BOOLEAN,
                 st : States] :
            IF r.side = "BUY" THEN r.line < Hi ELSE r.line > Lo}
Reports(numbers) == [o : numbers, type : DOMAIN StoredAs]

Shapes ==
    /\ up \in {"running", "down", "recovering", "fresh"}
    /\ orders \in Seq(Order)
    /\ known \in Seq(Lines \cup {Unknown}) /\ Len(known) = Len(orders)
    /\ stream \in Seq(Reports(Numbers))
    /\ DOMAIN rec = {"pc", "found", "young"} /\ rec.pc \in Phases

(* While the bot is not running nothing is on its way to the exchange, the  *)
(* reconciliation rests, and every open order is in main()'s snapshot.      *)
Resting ==
    up # "running" => /\ rec.pc = "idle"
                      /\ \A o \in Numbers : orders[o].st # "queued"
                      /\ up = "recovering" => OpenOrders \subseteq snap

(* What is known of a line is right or mirrored, also of an order that is   *)
(* only queued.                                                             *)
Placed ==
    up = "running" => \A o \in Alive : known[o] = KnownAs(o)

(* What has been found missing is dead, or younger than the question, and   *)
(* so is whoever has taken its line since.                                  *)
Missing ==
    /\ rec.pc = "answered" => Alive \subseteq rec.found \cup rec.young
    /\ rec.pc \in {"compared", "looked"} => \A g \in rec.found :
          /\ g[2] \in Alive => g[2] \in rec.young
          /\ g[1] \in Lines => lineOrder[g[1]] \in {0, g[2]} \cup rec.young

LineMap == lineOrder \in [Lines -> Nat] /\ snap \subseteq Numbers

(* Every order the maps name has been submitted, every order has a place in *)
(* the table, and what the reconciliation finds is on lines of the grid.    *)
Named ==
    /\ rows \in Seq({rows[o] : o \in DOMAIN rows}) /\ Len(rows) = Len(orders)
    /\ \A l \in Lines : lineOrder[l] \in Numbers \cup {0}
    /\ missed \subseteq Lines /\ acked \subseteq Numbers /\ recovered \subseteq Numbers
    /\ rec.pc \in {"compared", "looked"} => \A g \in rec.found : g[1] \in Lines

RecoveryInv == Shapes /\ LineMap /\ Named /\ Resting /\ Placed /\ Missing

-----------------------------------------------------------------------------
(* The orders *)

\* One order more.
LEMMA OneMore ==
  ASSUME Shapes, NEW new \in Order
  PROVE  /\ Append(orders, new) \in Seq(Order)
         /\ Len(Append(orders, new)) = Len(orders) + 1
         /\ DOMAIN Append(orders, new) = Numbers \cup {Len(orders) + 1}
         /\ Len(orders) + 1 \in Nat \ Numbers
         /\ \A o \in Numbers : Append(orders, new)[o] = orders[o]
         /\ Append(orders, new)[Len(orders) + 1] = new
<1>1. orders \in Seq(Order) /\ Len(orders) \in Nat /\ Numbers = 1 .. Len(orders)
  BY DEF Shapes, Numbers
<1> QED
  BY <1>1

\* One line more in the map of the orders' lines.
LEMMA OneLineMore ==
  ASSUME Shapes, NEW line \in Lines
  PROVE  /\ Append(known, line) \in Seq(Lines \cup {Unknown})
         /\ Len(Append(known, line)) = Len(orders) + 1
         /\ \A o \in Numbers : Append(known, line)[o] = known[o]
         /\ Append(known, line)[Len(orders) + 1] = line
<1>1. /\ known \in Seq(Lines \cup {Unknown}) /\ Len(known) = Len(orders)
      /\ Len(known) \in Nat /\ Numbers = 1 .. Len(known)
  BY DEF Shapes, Numbers
<1> QED
  BY <1>1

\* An order changes its state and nothing else.
LEMMA StateOnly ==
  ASSUME Shapes, NEW o \in Numbers, NEW s \in States
  PROVE  LET next == [orders EXCEPT ![o].st = s]
         IN  /\ next \in Seq(Order) /\ Len(next) = Len(orders) /\ DOMAIN next = Numbers
             /\ \A q \in Numbers : /\ next[q].side = orders[q].side
                                   /\ next[q].line = orders[q].line
                                   /\ next[q].st = IF q = o THEN s ELSE orders[q].st
<1> DEFINE next == [orders EXCEPT ![o].st = s]
<1>1. orders \in Seq(Order) /\ Len(orders) \in Nat /\ Numbers = 1 .. Len(orders)
  BY DEF Shapes, Numbers
<1>2. \A q \in Numbers : orders[q] \in Order
  BY <1>1
<1>3. \A r \in Order : [r EXCEPT !.st = s] \in Order
  BY DEF Order
<1>4. /\ DOMAIN next = Numbers
      /\ \A q \in Numbers : next[q] = IF q = o THEN [orders[q] EXCEPT !.st = s] ELSE orders[q]
  BY <1>1
<1>5. \A q \in Numbers : next[q] \in Order
  BY <1>2, <1>3, <1>4
<1>6. next \in Seq(Order) /\ Len(next) = Len(orders)
  BY <1>1, <1>4, <1>5
<1>7. \A q \in Numbers : /\ next[q].side = orders[q].side
                         /\ next[q].line = orders[q].line
                         /\ next[q].st = IF q = o THEN s ELSE orders[q].st
  BY <1>2, <1>4 DEF Order
<1> QED
  BY <1>4, <1>6, <1>7

-----------------------------------------------------------------------------
(* What the steps do to the orders *)

(* An order is submitted for a line: known at once, and young.              *)
Submitted ==
    \E new \in Order :
        /\ up = "running" /\ new.st = "queued"
        /\ orders' = Append(orders, new) /\ known' = Append(known, new.line)
        /\ rec' = [rec EXCEPT !.young = IF rec.pc = "idle" THEN {}
                                       ELSE rec.young \cup {Len(orders) + 1}]

(* An order on its way arrives, or an open one ends.                        *)
Advanced ==
    \E o \in Numbers, s \in States \ {"queued"} :
        /\ orders' = [orders EXCEPT ![o].st = s]
        /\ \/ orders[o].st = "queued" /\ s \in {"open", "refused", "lost"}
           \/ orders[o].st = "open" /\ s \in {"filled", "canceled"}
        /\ UNCHANGED <<known, rec, lineOrder, up, snap, recovered>>

Handled == Dispatch \/ \E line \in Lines : RetryMissed(line)

\* _submit_level_order drops the order or submits it for the line it was given.
LEMMA Submits ==
  ASSUME Shapes, up = "running", NEW line \in Lines, NEW side \in {"BUY", "SELL", "ANCHOR"},
         NEW empty \in BOOLEAN, NEW lo \in [Lines -> Nat], NEW q,
         IF side = "BUY" THEN line < Hi ELSE line > Lo,
         SubmitLevelOrder(line, side, empty, lo, q)
  PROVE  /\ UNCHANGED <<orders, known, rec>> \/ Submitted
         /\ lineOrder' \in [Lines -> Nat]
         /\ \A l \in Lines : lineOrder'[l] = lo[l] \/ (lineOrder'[l] = Len(orders) + 1 /\ Submitted)
<1>1. CASE lineOrder' = lo /\ UNCHANGED <<orders, rows, known, rec>>
  BY <1>1
<1>2. CASE /\ orders' = Append(orders, [side |-> side, line |-> line,
                                        empty |-> empty, st |-> "queued"])
           /\ known' = Append(known, line)
           /\ lineOrder' = [lo EXCEPT ![line] = Len(orders) + 1]
           /\ rec' = [rec EXCEPT !.young = IF rec.pc = "idle" THEN {}
                                          ELSE rec.young \cup {Len(orders) + 1}]
  <2> DEFINE new == [side |-> side, line |-> line, empty |-> empty, st |-> "queued"]
  <2>1. new \in Order /\ new.st = "queued" /\ new.line = line
    BY DEF Order, States
  <2>2. Submitted
    BY <1>2, <2>1 DEF Submitted
  <2>3. Len(orders) + 1 \in Nat
    BY <2>1, OneMore
  <2> QED
    BY <1>2, <2>2, <2>3
<1> QED
  BY <1>1, <1>2 DEF SubmitLevelOrder

\* A handler leaves the orders or submits one; the lines it gives away are freed, or
\* taken by the new order.
LEMMA HandlerEffect ==
  ASSUME Shapes, LineMap, Handled
  PROVE  /\ UNCHANGED <<orders, known, rec>> \/ Submitted
         /\ UNCHANGED <<up, snap, recovered>>
         /\ lineOrder' \in [Lines -> Nat]
         /\ \A l \in Lines : \/ lineOrder'[l] \in {lineOrder[l], 0}
                             \/ lineOrder'[l] = Len(orders) + 1 /\ Submitted
<1>1. CASE \E line \in Lines : RetryMissed(line)
  <2>1. PICK line \in Lines : RetryMissed(line)
    BY <1>1
  <2>2. GridSide(line) \in {"BUY", "SELL", "ANCHOR"} /\ (crashes > 0 \/ line = 0) \in BOOLEAN
    BY DEF GridSide
  <2>3. IF GridSide(line) = "BUY" THEN line < Hi ELSE line > Lo
    BY RecoveryAssumption DEF GridSide, Lines
  <2>4. /\ up = "running" /\ lineOrder \in [Lines -> Nat] /\ UNCHANGED <<up, snap, recovered>>
        /\ SubmitLevelOrder(line, GridSide(line), crashes > 0 \/ line = 0, lineOrder, dbq)
    BY <2>1 DEF RetryMissed, LineMap
  <2>5. /\ UNCHANGED <<orders, known, rec>> \/ Submitted
        /\ lineOrder' \in [Lines -> Nat]
        /\ \A l \in Lines : \/ lineOrder'[l] = lineOrder[l]
                            \/ lineOrder'[l] = Len(orders) + 1 /\ Submitted
    BY <2>2, <2>3, <2>4, Submits
  <2> QED
    BY <2>4, <2>5
<1>2. CASE Dispatch
  <2>1. UNCHANGED <<up, snap, recovered>>
    BY <1>2 DEF Dispatch
  <2>2. CASE UNCHANGED <<orders, known, rec, lineOrder>>
    BY <2>1, <2>2 DEF LineMap
  <2>3. ASSUME NEW o \in Numbers, NEW q, OnOrderFilled(o, q)
        PROVE  /\ UNCHANGED <<orders, known, rec>> \/ Submitted
               /\ lineOrder' \in [Lines -> Nat]
               /\ \A l \in Lines : \/ lineOrder'[l] \in {lineOrder[l], 0}
                                   \/ lineOrder'[l] = Len(orders) + 1 /\ Submitted
    <3> DEFINE freed == [lineOrder EXCEPT ![known[o]] = 0]
    <3>1. freed \in [Lines -> Nat] /\ \A l \in Lines : freed[l] \in {lineOrder[l], 0}
      BY DEF LineMap
    <3>2. CASE up # "running" \/ known[o] = Unknown
      BY <2>3, <3>2 DEF OnOrderFilled, LineMap
    <3>3. CASE /\ ~(up # "running" \/ known[o] = Unknown)
               /\ lineOrder' = freed /\ UNCHANGED <<orders, rows, known, rec>>
      BY <3>1, <3>3
    <3>4. CASE /\ ~(up # "running" \/ known[o] = Unknown) /\ CounterLine(o) \in Lines
               /\ SubmitLevelOrder(CounterLine(o), CounterSide(o), FALSE, freed, q)
      <4>1. CounterSide(o) \in {"BUY", "SELL", "ANCHOR"}
        BY DEF CounterSide
      <4>2. IF CounterSide(o) = "BUY" THEN CounterLine(o) < Hi ELSE CounterLine(o) > Lo
        <5>1. known[o] \in Lines
          BY <3>4 DEF Shapes, Numbers
        <5> QED
          BY <5>1, RecoveryAssumption DEF CounterLine, CounterSide, Lines
      <4> HIDE DEF freed
      <4>3. /\ UNCHANGED <<orders, known, rec>> \/ Submitted
            /\ lineOrder' \in [Lines -> Nat]
            /\ \A l \in Lines : \/ lineOrder'[l] = freed[l]
                                \/ lineOrder'[l] = Len(orders) + 1 /\ Submitted
        <5>1. up = "running" /\ FALSE \in BOOLEAN
          BY <3>4
        <5> QED
          BY <3>1, <3>4, <4>1, <4>2, <5>1, Submits
      <4> QED
        BY <3>1, <4>3
    <3> QED
      BY <2>3, <3>2, <3>3, <3>4 DEF OnOrderFilled
  <2>4. CASE \E o, q : OnOrderRejected(o, q)
    <3>1. PICK o, q : OnOrderRejected(o, q)
      BY <2>4
    <3>2. UNCHANGED <<orders, known, rec>> /\ lineOrder' \in {lineOrder, [lineOrder EXCEPT ![known[o]] = 0]}
      BY <3>1 DEF OnOrderRejected
    <3> QED
      BY <2>1, <3>2 DEF LineMap
  <2>5. Head(stream).o \in Numbers
    <3>1. stream \in Seq(Reports(Numbers)) /\ stream # <<>>
      BY <1>2 DEF Dispatch, Shapes
    <3>2. Head(stream) \in Reports(Numbers)
      BY <3>1
    <3> QED
      BY <3>2 DEF Reports
  <2> QED
    BY <1>2, <2>1, <2>2, <2>3, <2>4, <2>5 DEF Dispatch
<1> QED
  BY <1>1, <1>2 DEF Handled

\* What arrives or ends at the exchange.
LEMMA ExchangeEffect ==
  ASSUME NEW o \in Numbers, Arrive(o) \/ Fill(o) \/ Cancel(o)
  PROVE  Advanced
<1>1. CASE Arrive(o)
  BY <1>1 DEF Arrive, Advanced, States, engineVars
<1>2. CASE Fill(o) \/ Cancel(o)
  BY <1>2 DEF Fill, Cancel, Advanced, States, engineVars
<1> QED
  BY <1>1, <1>2

\* Every step is one of these.
LEMMA Steps ==
  ASSUME Next
  PROVE  \/ Handled \/ Advanced \/ Reconcile \/ Crash \/ Restart \/ Recover
         \/ UNCHANGED <<up, orders, known, lineOrder, recovered, rec, snap>>
  BY ExchangeEffect DEF Next, Handled, DbWrite, engineVars

\* A pass of the reconciliation only takes lines away.
LEMMA ReconcileFrame ==
  ASSUME Reconcile
  PROVE  /\ UNCHANGED <<up, orders, known, recovered, snap>>
         /\ Free \/ UNCHANGED lineOrder
         /\ Free => lineOrder' \in [Lines -> {0} \cup {lineOrder[l] : l \in Lines}]
  BY DEF Reconcile, Ask, AskFails, Answer, Compare, LookUp, Free, engineVars

-----------------------------------------------------------------------------
(* The parts of the invariant *)

\* No order disappears from the list of the orders.
LEMMA NumbersGrow ==
  ASSUME Shapes, LineMap, Next
  PROVE  Numbers \subseteq Numbers'
<1>1. CASE Submitted
  BY <1>1, OneMore DEF Submitted, Numbers
<1>2. CASE Handled
  BY <1>1, <1>2, HandlerEffect DEF Numbers
<1>3. CASE Advanced
  BY <1>3 DEF Advanced, Numbers
<1>4. CASE Crash
  BY <1>4 DEF Crash, Numbers
<1>5. CASE UNCHANGED orders
  BY <1>5 DEF Numbers
<1> QED
  BY <1>2, <1>3, <1>4, <1>5, Steps, ReconcileFrame DEF Restart, Recover

\* A report is of an order that has been submitted.
LEMMA StreamKept ==
  ASSUME Shapes, LineMap, Next
  PROVE  stream' \in Seq(Reports(Numbers'))
<1>1. Numbers \subseteq Numbers' /\ stream \in Seq(Reports(Numbers))
  BY NumbersGrow DEF Shapes
<1>2. \A r \in Reports(Numbers) : r \in Reports(Numbers')
  BY <1>1 DEF Reports
<1>3. stream \in Seq(Reports(Numbers')) /\ (stream # <<>> => Tail(stream) \in Seq(Reports(Numbers')))
  BY <1>1, <1>2
<1>4. ASSUME NEW o \in Numbers, Arrive(o) \/ Fill(o) \/ Cancel(o)
      PROVE  stream' \in Seq(Reports(Numbers'))
  <2>1. stream' = stream \/ \E type \in DOMAIN StoredAs : stream' = Append(stream, [o |-> o, type |-> type])
    BY <1>4 DEF Arrive, Fill, Cancel, Report, StoredAs
  <2>2. \A type \in DOMAIN StoredAs : [o |-> o, type |-> type] \in Reports(Numbers')
    BY <1>1 DEF Reports
  <2>3. \A r \in Reports(Numbers') : Append(stream, r) \in Seq(Reports(Numbers'))
    BY <1>3
  <2> QED
    BY <1>3, <2>1, <2>2, <2>3
<1>5. CASE Dispatch
  BY <1>3, <1>5 DEF Dispatch
<1>6. CASE Crash
  BY <1>6 DEF Crash
<1>7. CASE UNCHANGED stream
  BY <1>3, <1>7
<1> QED
  BY <1>4, <1>5, <1>6, <1>7
  DEF Next, DbWrite, RetryMissed, Reconcile, Ask, AskFails, Answer, Compare, LookUp, Free,
      Restart, Recover

\* The maps keep their shapes.
LEMMA ShapesKept ==
  ASSUME Shapes, LineMap, Next
  PROVE  Shapes'
<1>0. stream' \in Seq(Reports(Numbers'))
  BY StreamKept
<1> DEFINE Rest == /\ up \in {"running", "down", "recovering", "fresh"}
                   /\ orders \in Seq(Order)
                   /\ known \in Seq(Lines \cup {Unknown}) /\ Len(known) = Len(orders)
                   /\ DOMAIN rec = {"pc", "found", "young"} /\ rec.pc \in Phases
<1> SUFFICES Rest'
  BY <1>0 DEF Shapes
<1>1. CASE Submitted /\ UNCHANGED up
  <2>1. PICK new \in Order : /\ orders' = Append(orders, new) /\ known' = Append(known, new.line)
                             /\ rec' = [rec EXCEPT !.young = IF rec.pc = "idle" THEN {}
                                               ELSE rec.young \cup {Len(orders) + 1}]
    BY <1>1 DEF Submitted
  <2>2. new.line \in Lines
    BY DEF Order
  <2> QED
    BY <1>1, <2>1, <2>2, OneMore, OneLineMore DEF Shapes
<1>2. CASE Handled
  BY <1>1, <1>2, HandlerEffect DEF Shapes
<1>3. CASE Advanced
  <2>1. PICK o \in Numbers, s \in States : orders' = [orders EXCEPT ![o].st = s]
    BY <1>3 DEF Advanced
  <2>2. UNCHANGED <<up, known, rec>>
    BY <1>3 DEF Advanced
  <2> QED
    BY <2>1, <2>2, StateOnly DEF Shapes
<1>4. CASE Reconcile
  <2>1. UNCHANGED <<up, orders, known>>
    BY <1>4, ReconcileFrame
  <2>2. DOMAIN rec' = {"pc", "found", "young"} /\ rec'.pc \in Phases
    <3>1. CASE rec' = Idle
      BY <3>1 DEF Idle, Phases
    <3>2. CASE Ask \/ Answer \/ LookUp
      BY <3>2 DEF Shapes, Phases, Ask, Answer, LookUp
    <3>3. CASE Compare /\ rec' # Idle
      BY <3>3 DEF Shapes, Phases, Compare
    <3> QED
      BY <1>4, <3>1, <3>2, <3>3 DEF Reconcile, AskFails, Free
  <2> QED
    BY <2>1, <2>2 DEF Shapes
<1>5. CASE Crash
  <2>1. Len(orders) \in Nat /\ Numbers = 1 .. Len(orders) /\ \A o \in Numbers : orders[o] \in Order
    BY DEF Shapes, Numbers
  <2>2. \A r \in Order : [r EXCEPT !.st = "lost"] \in Order
    BY DEF Order, States
  <2>3. orders' \in Seq(Order) /\ Len(orders') = Len(orders)
    BY <1>5, <2>1, <2>2 DEF Crash
  <2>4. known' \in Seq(Lines \cup {Unknown}) /\ Len(known') = Len(orders)
    BY <1>5, <2>1, RecoveryAssumption DEF Crash, Unknown
  <2>5. up' = "down" /\ rec' = Idle
    BY <1>5 DEF Crash
  <2> QED
    BY <2>3, <2>4, <2>5 DEF Idle, Phases
<1>6. CASE Restart
  BY <1>6 DEF Restart, Shapes, engineVars
<1>7. CASE Recover
  <2>1. Len(orders) \in Nat /\ Numbers = 1 .. Len(orders) /\ \A o \in Numbers : orders[o].line \in Int
    <3>1. \A o \in Numbers : orders[o] \in Order
      BY DEF Shapes, Numbers
    <3>2. \A r \in Order : r.line \in Int
      BY RecoveryAssumption DEF Order, Lines
    <3>3. Len(orders) \in Nat /\ Numbers = 1 .. Len(orders)
      BY DEF Shapes, Numbers
    <3> QED
      BY <3>1, <3>2, <3>3
  <2>2. \A o \in Numbers : DecodedLine(o) \in Lines
    <3>1. ASSUME NEW o \in Numbers PROVE DecodedLine(o) \in Lines
      <4>1. orders[o] \in Order
        BY DEF Shapes, Numbers
      <4>2. /\ orders[o].line \in Int /\ Lo <= orders[o].line /\ orders[o].line <= Hi
            /\ IF orders[o].side = "BUY" THEN orders[o].line < Hi ELSE orders[o].line > Lo
        BY <2>1, <4>1, RecoveryAssumption DEF Order, Lines
      <4>3. Lo \in Int /\ Hi \in Int /\ Lo + Hi <= 1 /\ -1 <= Lo + Hi
        BY RecoveryAssumption
      <4> QED
        BY <4>2, <4>3 DEF DecodedLine, Distance, Lines
    <3> QED
      BY <3>1
  <2>3. known' \in Seq(Lines \cup {Unknown}) /\ Len(known') = Len(orders)
    BY <1>7, <2>1, <2>2, RecoveryAssumption DEF Recover, Unknown
  <2> QED
    BY <1>7, <2>3 DEF Recover, StoredMissed, Shapes
<1>8. CASE UNCHANGED <<up, orders, known, lineOrder, recovered, rec, snap>>
  BY <1>8 DEF Shapes
<1> QED
  BY <1>2, <1>3, <1>4, <1>5, <1>6, <1>7, <1>8, Steps

\* The line map stays a map of all lines.
LEMMA LineMapKept ==
  ASSUME Shapes, LineMap, Next
  PROVE  LineMap'
<1>0. Numbers \subseteq Numbers' /\ Numbers \subseteq Nat
  BY NumbersGrow DEF Shapes, Numbers
<1>1. CASE Handled
  BY <1>0, <1>1, HandlerEffect DEF LineMap
<1>2. CASE Advanced
  BY <1>0, <1>2 DEF LineMap, Advanced
<1>3. CASE Reconcile
  <2>1. {0} \cup {lineOrder[l] : l \in Lines} \subseteq Nat
    BY DEF LineMap
  <2> QED
    BY <1>0, <1>3, <2>1, ReconcileFrame DEF LineMap
<1>4. CASE Crash
  <2>1. lineOrder' \in [Lines -> Nat] /\ snap' = {}
    BY <1>4 DEF Crash, NoLine
  <2> QED
    BY <2>1 DEF LineMap
<1>5. CASE Restart
  <2>1. snap' \subseteq Numbers /\ lineOrder' = lineOrder
    BY <1>5 DEF Restart, OpenOrders, InState, engineVars
  <2> QED
    BY <1>0, <2>1 DEF LineMap
<1>6. CASE Recover
  <2>1. lineOrder' \in [Lines -> snap \cup {0}] /\ snap' = {}
    BY <1>6 DEF Recover
  <2>2. snap \cup {0} \subseteq Nat
    BY <1>0 DEF LineMap
  <2> QED
    BY <2>1, <2>2 DEF LineMap
<1>7. CASE UNCHANGED <<up, orders, known, lineOrder, recovered, rec, snap>>
  BY <1>7 DEF LineMap, Numbers
<1> QED
  BY <1>1, <1>2, <1>3, <1>4, <1>5, <1>6, <1>7, Steps

\* A list of any values is a sequence of its own values.
LEMMA OwnValues ==
  ASSUME NEW n \in Nat, NEW s, s = [i \in 1 .. n |-> s[i]]
  PROVE  s \in Seq({s[i] : i \in DOMAIN s}) /\ Len(s) = n
<1>1. DOMAIN s = 1 .. n
  OBVIOUS
<1>2. s \in [1 .. n -> {s[i] : i \in DOMAIN s}]
  BY <1>1
<1> QED
  BY <1>1, <1>2

\* The table keeps a place for every order.
LEMMA RowsKept ==
  ASSUME Shapes, LineMap, Named, Next
  PROVE  rows' \in Seq({rows'[o] : o \in DOMAIN rows'}) /\ Len(rows') = Len(orders')
<1>1. /\ Len(orders) \in Nat /\ Len(rows) = Len(orders)
      /\ rows \in Seq({rows[o] : o \in DOMAIN rows})
  BY DEF Shapes, Named
<1>2. DOMAIN rows = 1 .. Len(orders) /\ rows = [i \in 1 .. Len(orders) |-> rows[i]]
  BY <1>1
<1>3. CASE UNCHANGED rows /\ Len(orders') = Len(orders)
  BY <1>1, <1>3
<1>4. CASE rows' = Append(rows, "none") /\ Len(orders') = Len(orders) + 1
  <2>1. rows' = [i \in 1 .. Len(orders) + 1 |-> IF i = Len(orders) + 1 THEN "none" ELSE rows[i]]
    BY <1>1, <1>2, <1>4
  <2>2. rows' = [i \in 1 .. Len(orders) + 1 |-> rows'[i]] /\ Len(orders) + 1 \in Nat
    BY <1>1, <2>1
  <2>3. rows' \in Seq({rows'[o] : o \in DOMAIN rows'}) /\ Len(rows') = Len(orders) + 1
    BY <2>2, OwnValues
  <2> QED
    BY <1>4, <2>3
<1>5. CASE DbWrite
  <2>1. orders' = orders
    BY <1>5 DEF DbWrite
  <2>2. rows' = rows \/ \E o, v : rows' = [rows EXCEPT ![o] = v]
    BY <1>5 DEF DbWrite
  <2>3. rows' = [i \in 1 .. Len(orders) |-> rows'[i]]
    BY <1>2, <2>2
  <2> QED
    BY <1>1, <2>1, <2>3, OwnValues
<1>6. CASE Handled
  <2>1. \/ UNCHANGED <<orders, rows>>
        \/ \E new \in Order : rows' = Append(rows, "none") /\ orders' = Append(orders, new)
    <3>1. UNCHANGED orders \/ Submitted
      BY <1>6, HandlerEffect
    <3>2. \/ UNCHANGED <<orders, rows>>
          \/ rows' = Append(rows, "none") /\ Len(orders') # Len(orders)
      <4>1. ASSUME NEW line, NEW side, NEW empty, NEW lo, NEW q,
                   SubmitLevelOrder(line, side, empty, lo, q)
            PROVE  \/ UNCHANGED <<orders, rows>>
                   \/ rows' = Append(rows, "none") /\ Len(orders') # Len(orders)
        <5>1. \A new : Len(Append(orders, new)) # Len(orders)
          BY <1>1 DEF Shapes
        <5> QED
          BY <4>1, <5>1 DEF SubmitLevelOrder
      <4>2. CASE \E line \in Lines : RetryMissed(line)
        BY <4>1, <4>2 DEF RetryMissed
      <4>3. CASE Dispatch
        <5>1. ASSUME NEW o, NEW q, OnOrderFilled(o, q)
              PROVE  \/ UNCHANGED <<orders, rows>>
                     \/ rows' = Append(rows, "none") /\ Len(orders') # Len(orders)
          BY <4>1, <5>1 DEF OnOrderFilled
        <5> QED
          BY <4>3, <5>1 DEF Dispatch, OnOrderRejected
      <4> QED
        BY <1>6, <4>2, <4>3 DEF Handled
    <3> QED
      BY <3>1, <3>2 DEF Submitted
  <2> QED
    BY <1>3, <1>4, <2>1, OneMore
<1>7. CASE \E o \in Numbers : Arrive(o) \/ Fill(o) \/ Cancel(o)
  <2>1. rows' = rows
    BY <1>7 DEF Arrive, Fill, Cancel
  <2>2. Len(orders') = Len(orders)
    BY <1>7, ExchangeEffect, StateOnly DEF Advanced
  <2> QED
    BY <1>3, <2>1, <2>2
<1>8. CASE Reconcile \/ Restart \/ Recover
  <2>1. UNCHANGED <<orders, rows>>
    BY <1>8 DEF Reconcile, Ask, AskFails, Answer, Compare, LookUp, Free, Restart, Recover
  <2> QED
    BY <1>3, <2>1
<1>9. CASE Crash
  <2>1. Len(orders) \in Nat /\ Numbers = 1 .. Len(orders)
    BY DEF Shapes, Numbers
  <2>2. Len(orders') = Len(orders) /\ rows' = rows
    BY <1>9, <2>1 DEF Crash
  <2> QED
    BY <1>3, <2>2
<1> QED
  BY <1>5, <1>6, <1>7, <1>8, <1>9 DEF Next, Handled

\* Whatever the engine's maps name has been submitted, and every line they name is one
\* of the grid.
LEMMA NamedKept ==
  ASSUME Shapes, LineMap, Named, Next
  PROVE  Named'
<1>1. Numbers \subseteq Numbers'
  BY NumbersGrow
<1>2. Submitted => Len(orders) + 1 \in Numbers'
  <2>1. ASSUME NEW new \in Order, orders' = Append(orders, new)
        PROVE  Len(orders) + 1 \in Numbers'
    BY <2>1, OneMore DEF Numbers
  <2> QED
    BY <2>1 DEF Submitted
<1>3. \A l \in Lines : lineOrder'[l] \in Numbers' \cup {0}
  <2>1. CASE Handled
    BY <1>1, <1>2, <2>1, HandlerEffect DEF Named
  <2>2. CASE Reconcile
    BY <1>1, <2>2, ReconcileFrame DEF Named
  <2>3. CASE Crash
    BY <2>3 DEF Crash, NoLine
  <2>4. CASE Recover
    BY <1>1, <2>4 DEF Recover, LineMap
  <2>5. CASE UNCHANGED lineOrder
    BY <1>1, <2>5 DEF Named
  <2> QED
    BY <2>1, <2>2, <2>3, <2>4, <2>5, Steps DEF Advanced, Restart, engineVars
<1>4. \A o \in Numbers : orders[o].line \in Lines /\ known[o] \in Lines \cup {Unknown}
  <2>1. \A o \in Numbers : orders[o] \in Order /\ known[o] \in Lines \cup {Unknown}
    BY DEF Shapes, Numbers
  <2> QED
    BY <2>1 DEF Order
<1>5. stream # <<>> => Head(stream).o \in Numbers
  <2>1. stream \in Seq(Reports(Numbers))
    BY DEF Shapes
  <2>2. stream # <<>> => Head(stream) \in Reports(Numbers)
    BY <2>1
  <2> QED
    BY <2>2 DEF Reports
<1>6. missed' \subseteq Lines
  <2>1. CASE Dispatch
    <3>1. missed' = missed \/ \E o, q : o = Head(stream).o /\ OnOrderRejected(o, q)
      BY <2>1 DEF Dispatch
    <3>2. ASSUME NEW o \in Numbers, NEW q, OnOrderRejected(o, q)
          PROVE  missed' \subseteq Lines
      BY <1>4, <3>2 DEF OnOrderRejected, Named
    <3>3. stream # <<>>
      BY <2>1 DEF Dispatch
    <3> QED
      BY <1>5, <3>1, <3>2, <3>3 DEF Named
  <2>2. CASE \E line \in Lines : RetryMissed(line)
    BY <2>2 DEF RetryMissed, Named
  <2>3. CASE Free
    BY <2>3 DEF Free, Named
  <2>4. CASE Crash
    BY <2>4 DEF Crash
  <2>5. CASE Recover
    BY <1>4, <2>5 DEF Recover, StoredMissed
  <2>6. CASE UNCHANGED missed
    BY <2>6 DEF Named
  <2> QED
    BY <2>1, <2>2, <2>3, <2>4, <2>5, <2>6
    DEF Next, engineVars, DbWrite, Arrive, Fill, Cancel, Reconcile, Ask, AskFails, Answer,
        Compare, LookUp, Restart
<1>7. acked' \subseteq Numbers'
  <2>1. CASE Dispatch
    BY <1>1, <1>5, <2>1 DEF Dispatch, Named
  <2>2. CASE Crash
    BY <2>2 DEF Crash
  <2>3. CASE UNCHANGED acked
    BY <1>1, <2>3 DEF Named
  <2> QED
    BY <2>1, <2>2, <2>3
    DEF Next, engineVars, DbWrite, RetryMissed, Arrive, Fill, Cancel, Reconcile, Ask,
        AskFails, Answer, Compare, LookUp, Free, Restart, Recover
<1>8. recovered' \subseteq Numbers'
  <2>1. CASE Handled
    BY <1>1, <2>1, HandlerEffect DEF Named
  <2>2. CASE Crash \/ Recover
    BY <1>1, <2>2 DEF Crash, Recover, LineMap
  <2>3. CASE UNCHANGED recovered
    BY <1>1, <2>3 DEF Named
  <2> QED
    BY <2>1, <2>2, <2>3, Steps, ReconcileFrame DEF Advanced, Restart, engineVars
<1>9. rec'.pc \in {"compared", "looked"} => \A g \in rec'.found : g[1] \in Lines
  <2>1. CASE rec' = Idle
    BY <2>1 DEF Idle
  <2>2. CASE rec'.pc = rec.pc /\ rec'.found = rec.found
    BY <2>2 DEF Named
  <2>3. CASE Handled
    <3>1. rec' = rec \/ Submitted
      BY <2>3, HandlerEffect
    <3>2. Submitted => rec'.pc = rec.pc /\ rec'.found = rec.found
      BY DEF Submitted, Shapes
    <3> QED
      BY <2>2, <3>1, <3>2
  <2>4. CASE Ask \/ Answer
    <3>1. rec'.pc \in {"asked", "answered"}
      BY <2>4 DEF Ask, Answer, Shapes
    <3> QED
      BY <3>1
  <2>5. CASE Compare /\ rec' # Idle
    BY <2>5 DEF Compare, Shapes
  <2>6. CASE LookUp
    <3>1. /\ rec.pc = "compared"
          /\ rec'.found = {<<g[1], g[2], rows[g[2]]>> : g \in rec.found}
      BY <2>6 DEF LookUp, Shapes
    <3> QED
      BY <3>1 DEF Named
  <2> QED
    BY <2>1, <2>2, <2>3, <2>4, <2>5, <2>6, Steps
    DEF Reconcile, AskFails, Free, Advanced, Crash, Restart, Recover
<1> QED
  BY <1>3, <1>6, <1>7, <1>8, <1>9, RowsKept DEF Named

\* The orders alive after a step were alive before, or are the one it submitted.
LEMMA AliveShrinks ==
  ASSUME Shapes, Advanced
  PROVE  /\ Alive' \subseteq Alive /\ Numbers' = Numbers
         /\ \A o \in Numbers : /\ orders'[o].line = orders[o].line
                               /\ orders'[o].side = orders[o].side
                               /\ orders[o].st # "queued" => orders'[o].st # "queued"
                               /\ orders'[o].st = "open" => orders[o].st \in {"queued", "open"}
<1>1. PICK o \in Numbers, s \in States \ {"queued"} :
         /\ orders' = [orders EXCEPT ![o].st = s]
         /\ orders[o].st \in {"queued", "open"}
  BY DEF Advanced
<1>2. /\ Numbers' = Numbers
      /\ \A q \in Numbers : /\ orders'[q].side = orders[q].side
                            /\ orders'[q].line = orders[q].line
                            /\ orders'[q].st = IF q = o THEN s ELSE orders[q].st
  BY <1>1, StateOnly DEF Numbers
<1> QED
  BY <1>1, <1>2 DEF Alive, InState

\* A submitted order is the only one more, and queued.
LEMMA AliveGrows ==
  ASSUME Shapes, Submitted
  PROVE  /\ Alive' = Alive \cup {Len(orders) + 1} /\ Len(orders) + 1 \notin Numbers
         /\ known'[Len(orders) + 1] = orders'[Len(orders) + 1].line
         /\ \A o \in Numbers : known'[o] = known[o] /\ orders'[o] = orders[o]
<1>1. PICK new \in Order :
         /\ new.st = "queued" /\ orders' = Append(orders, new)
         /\ known' = Append(known, new.line)
  BY DEF Submitted
<1>2. new.line \in Lines
  BY DEF Order
<1>3. /\ Numbers' = Numbers \cup {Len(orders) + 1} /\ Len(orders) + 1 \notin Numbers
      /\ \A o \in Numbers : orders'[o] = orders[o]
      /\ orders'[Len(orders) + 1] = new
  BY <1>1, OneMore DEF Numbers
<1>4. /\ \A o \in Numbers : known'[o] = known[o]
      /\ known'[Len(orders) + 1] = new.line
  BY <1>1, <1>2, OneLineMore
<1>5. Alive' = Alive \cup {Len(orders) + 1}
  BY <1>1, <1>3 DEF Alive, InState
<1> QED
  BY <1>1, <1>3, <1>4, <1>5

\* A bot that does not run has nothing on its way, and main() has seen what is open.
LEMMA RestingKept ==
  ASSUME Shapes, LineMap, Resting, Next
  PROVE  Resting'
<1> USE DEF Resting
<1>1. CASE Handled
  <2>1. UNCHANGED <<up, snap>> /\ (up # "running" => UNCHANGED <<orders, rec>>)
    BY <1>1, HandlerEffect DEF Submitted
  <2> QED
    BY <2>1 DEF Numbers, OpenOrders, InState
<1>2. CASE Advanced
  <2>1. UNCHANGED <<up, snap, rec>>
    BY <1>2 DEF Advanced
  <2> QED
    BY <1>2, <2>1, AliveShrinks DEF OpenOrders, InState
<1>3. CASE Reconcile
  <2>1. UNCHANGED <<up, orders, snap>> /\ up = "running"
    BY <1>3, ReconcileFrame DEF Reconcile, Ask, AskFails, Answer, Compare, LookUp, Free
  <2> QED
    BY <2>1
<1>4. CASE Crash
  <2>1. up' = "down" /\ rec' = Idle
    BY <1>4 DEF Crash
  <2>2. \A o \in Numbers' : orders'[o].st # "queued"
    <3>1. Numbers' = Numbers /\ \A o \in Numbers : orders[o] \in Order
      BY <1>4 DEF Crash, Numbers, Shapes
    <3>2. \A o \in Numbers : orders'[o] = IF orders[o].st = "queued"
                                          THEN [orders[o] EXCEPT !.st = "lost"] ELSE orders[o]
      BY <1>4 DEF Crash
    <3>3. \A r \in Order : [r EXCEPT !.st = "lost"].st = "lost"
      BY DEF Order
    <3> QED
      BY <3>1, <3>2, <3>3
  <2> QED
    BY <2>1, <2>2 DEF Idle
<1>5. CASE Restart
  <2>1. up # "running" /\ UNCHANGED <<orders, rec>> /\ snap' = OpenOrders
    BY <1>5 DEF Restart
  <2> QED
    BY <2>1 DEF Numbers, OpenOrders, InState
<1>6. CASE Recover
  BY <1>6 DEF Recover
<1>7. CASE UNCHANGED <<up, orders, known, lineOrder, recovered, rec, snap>>
  BY <1>7 DEF Numbers, OpenOrders, InState
<1> QED
  BY <1>1, <1>2, <1>3, <1>4, <1>5, <1>6, <1>7, Steps

\* recover() finds the line of an order by its side, and the mirrored one if the order
\* has crossed the anchor.
LEMMA Decoded ==
  ASSUME Shapes, NEW o \in Numbers
  PROVE  DecodedLine(o) = IF Crossed(o) THEN -orders[o].line ELSE orders[o].line
<1>1. orders[o] \in Order
  BY DEF Shapes, Numbers
<1>2. orders[o].line \in Int
  <2>1. orders[o].line \in Lines
    BY <1>1 DEF Order
  <2> QED
    BY <2>1, RecoveryAssumption DEF Lines
<1>3. CASE orders[o].side = "BUY"
  BY <1>2, <1>3 DEF DecodedLine, Distance, Crossed
<1>4. CASE orders[o].side # "BUY"
  BY <1>2, <1>4 DEF DecodedLine, Distance, Crossed
<1> QED
  BY <1>3, <1>4

\* The engine keeps knowing the lines of its orders.
LEMMA PlacedKept ==
  ASSUME Shapes, LineMap, Named, Resting, Placed, Next
  PROVE  Placed'
<1> USE DEF Placed, KnownAs
<1>0. Alive \subseteq Numbers
  BY DEF Alive, InState
<1>1. CASE Handled
  <2>1. UNCHANGED <<up, recovered>>
    BY <1>1, HandlerEffect
  <2>2. CASE UNCHANGED <<orders, known>>
    BY <2>1, <2>2 DEF Alive, InState, Numbers, Crossed
  <2>3. CASE Submitted
    <3>1. Len(orders) + 1 \notin recovered
      BY <2>3, OneMore DEF Submitted, Named
    <3> QED
      BY <1>0, <2>1, <2>3, <3>1, AliveGrows DEF Crossed
  <2> QED
    BY <1>1, <2>2, <2>3, HandlerEffect
<1>2. CASE Advanced
  <2>1. UNCHANGED <<up, recovered, known>>
    BY <1>2 DEF Advanced
  <2> QED
    BY <1>0, <1>2, <2>1, AliveShrinks DEF Crossed
<1>3. CASE Reconcile
  BY <1>3, ReconcileFrame DEF Alive, InState, Numbers, Crossed
<1>4. CASE Crash \/ Restart
  <2>1. up' # "running"
    BY <1>4 DEF Crash, Restart
  <2> QED
    BY <2>1
<1>5. CASE Recover
  <2>1. up = "recovering" /\ orders' = orders /\ recovered' = snap
    BY <1>5 DEF Recover
  <2>2. Alive' = Alive /\ Alive \subseteq snap
    BY <2>1 DEF Alive, OpenOrders, InState, Numbers, Resting
  <2>3. \A o \in Alive : known'[o] = DecodedLine(o)
    BY <1>0, <1>5, <2>2 DEF Recover
  <2>4. \A o \in Numbers : Crossed(o)' = Crossed(o)
    BY <2>1 DEF Crossed
  <2> QED
    BY <1>0, <2>1, <2>2, <2>3, <2>4, Decoded
<1>6. CASE UNCHANGED <<up, orders, known, lineOrder, recovered, rec, snap>>
  BY <1>6 DEF Alive, InState, Numbers, Crossed
<1> QED
  BY <1>1, <1>2, <1>3, <1>4, <1>5, <1>6, Steps

\* What the reconciliation misses stays dead or young, whoever acts between its query
\* and its verdict.
LEMMA MissingKept ==
  ASSUME Shapes, LineMap, Resting, Missing, Next
  PROVE  Missing'
<1> USE DEF Missing
<1>1. CASE Handled
  <2>1. CASE ~Submitted
    <3>1. UNCHANGED <<orders, rec>> /\ \A l \in Lines : lineOrder'[l] \in {lineOrder[l], 0}
      BY <1>1, <2>1, HandlerEffect
    <3>2. Alive' = Alive
      BY <3>1 DEF Alive, InState, Numbers
    <3> QED
      BY <3>1, <3>2
  <2>2. CASE Submitted
    <3>1. /\ rec'.pc = rec.pc /\ rec'.found = rec.found
          /\ rec.pc # "idle" => rec'.young = rec.young \cup {Len(orders) + 1}
      BY <2>2 DEF Submitted, Shapes
    <3>2. rec'.pc = "answered" => Alive' \subseteq rec'.found \cup rec'.young
      BY <2>2, <3>1, AliveGrows
    <3>3. ASSUME rec'.pc \in {"compared", "looked"}, NEW g \in rec'.found
          PROVE  /\ g[2] \in Alive' => g[2] \in rec'.young
                 /\ g[1] \in Lines => lineOrder'[g[1]] \in {0, g[2]} \cup rec'.young
      BY <1>1, <2>2, <3>1, <3>3, AliveGrows, HandlerEffect
    <3> QED
      BY <3>2, <3>3
  <2> QED
    BY <1>1, <2>1, <2>2, HandlerEffect
<1>2. CASE Advanced
  <2>1. UNCHANGED <<rec, lineOrder>>
    BY <1>2 DEF Advanced
  <2> QED
    BY <1>2, <2>1, AliveShrinks
<1>3. CASE Reconcile
  <2>0. UNCHANGED orders /\ Alive' = Alive
    BY <1>3, ReconcileFrame DEF Alive, InState, Numbers
  <2>1. CASE Ask \/ AskFails \/ Free
    <3>1. rec'.pc \in {"asked", "idle"}
      <4>1. CASE Ask
        BY <4>1 DEF Ask, Shapes
      <4>2. CASE AskFails \/ Free
        <5>1. rec' = Idle
          BY <4>2 DEF AskFails, Free
        <5> QED
          BY <5>1 DEF Idle
      <4> QED
        BY <2>1, <4>1, <4>2
    <3> QED
      BY <3>1
  <2>2. CASE Answer
    <3>1. rec'.pc = "answered" /\ rec'.found = OpenOrders /\ rec'.young = rec.young
      BY <2>2 DEF Answer, Shapes
    <3>2. Alive = InState({"queued"}) \cup OpenOrders
      BY DEF Alive, OpenOrders, InState
    <3> QED
      BY <2>0, <2>2, <3>1, <3>2 DEF Answer
  <2>3. CASE Compare
    <3>1. CASE rec' = Idle
      BY <3>1 DEF Idle
    <3>2. CASE rec' # Idle
      <4>1. /\ rec.pc = "answered" /\ rec'.pc = "compared" /\ rec'.young = rec.young
            /\ rec'.found = {<<l, lineOrder[l]>> : l \in {k \in Lines :
                               lineOrder[k] # 0 /\ lineOrder[k] \notin rec.found}}
            /\ lineOrder' = lineOrder
        BY <2>3, <3>2 DEF Compare, Shapes, engineVars
      <4>2. \A g \in rec'.found : /\ g[1] \in Lines /\ g[2] = lineOrder[g[1]]
                                  /\ lineOrder[g[1]] \notin rec.found
        BY <4>1
      <4> QED
        BY <2>0, <4>1, <4>2
    <3> QED
      BY <3>1, <3>2
  <2>4. CASE LookUp
    <3>1. /\ rec.pc = "compared" /\ rec'.pc = "looked" /\ rec'.young = rec.young
          /\ rec'.found = {<<g[1], g[2], rows[g[2]]>> : g \in rec.found}
          /\ lineOrder' = lineOrder
      BY <2>4 DEF LookUp, Shapes, engineVars
    <3>2. \A h \in rec'.found : \E g \in rec.found : h[1] = g[1] /\ h[2] = g[2]
      BY <3>1
    <3> QED
      BY <2>0, <3>1, <3>2
  <2> QED
    BY <1>3, <2>1, <2>2, <2>3, <2>4 DEF Reconcile
<1>4. CASE Crash
  BY <1>4 DEF Crash, Idle
<1>5. CASE Restart \/ Recover
  <2>1. rec' = rec /\ rec.pc = "idle"
    BY <1>5 DEF Restart, Recover, Resting
  <2> QED
    BY <2>1
<1>6. CASE UNCHANGED <<up, orders, known, lineOrder, recovered, rec, snap>>
  BY <1>6 DEF Alive, InState, Numbers
<1> QED
  BY <1>1, <1>2, <1>3, <1>4, <1>5, <1>6, Steps

-----------------------------------------------------------------------------
(* Theorems *)

\* The inductive invariant holds in every reachable state.
LEMMA RecoveryInvariance == Spec => []RecoveryInv
<1>1. Init => RecoveryInv
  <2> SUFFICES ASSUME Init PROVE RecoveryInv
    OBVIOUS
  <2>1. Hi - Lo \in Nat /\ \A i \in 1 .. Hi - Lo : StartLines[i] \in Lines /\ StartLines[i] \in Int
    BY RecoveryAssumption DEF StartLines, Lines
  <2>2. PICK m \in SUBSET StartMissed : StartWith(m)
    BY DEF Init
  <2>3. /\ orders \in Seq(Order) /\ Len(orders) = Hi - Lo /\ Numbers = 1 .. Hi - Lo
        /\ \A o \in Numbers : orders[o].st \in {"open", "refused"}
                              /\ orders[o].line = StartLines[o]
    <3>1. orders = [i \in 1 .. Hi - Lo |-> StartOrder(StartLines[i], m)]
      BY <2>2 DEF StartWith
    <3>2. \A i \in 1 .. Hi - Lo : LET first == StartOrder(StartLines[i], m)
                                 IN  /\ first \in Order /\ first.line = StartLines[i]
                                     /\ first.st \in {"open", "refused"}
      <4>1. ASSUME NEW i \in 1 .. Hi - Lo
            PROVE  /\ StartLines[i] \in Lines
                   /\ IF StartLines[i] < Hole THEN StartLines[i] < Hi ELSE StartLines[i] > Lo
        BY RecoveryAssumption DEF StartLines, Lines
      <4> QED
        BY <4>1 DEF StartOrder, Order, States
    <3>3. orders \in Seq(Order) /\ Len(orders) = Hi - Lo /\ Numbers = 1 .. Hi - Lo
      BY <2>1, <3>1, <3>2 DEF Numbers
    <3> QED
      BY <3>1, <3>2, <3>3
  <2>4. known \in Seq(Lines \cup {Unknown}) /\ Len(known) = Hi - Lo /\ known = StartLines
    BY <2>1 DEF Init, StartLines
  <2>5. Shapes
    <3>1. stream \in Seq(Reports(Numbers)) /\ rec.pc \in Phases
      BY DEF Init, Idle, Phases
    <3>2. DOMAIN rec = {"pc", "found", "young"} /\ up = "running"
      BY DEF Init, Idle
    <3> QED
      BY <2>3, <2>4, <3>1, <3>2 DEF Shapes
  <2>6. LineMap
    <3>1. \A l \in Lines : Hole \in Int /\ l - Lo + 1 \in Nat /\ l - Lo \in Nat
                          /\ (l = Hole \/ l < Hole \/ l > Hole)
      BY RecoveryAssumption DEF Lines
    <3>2. \A l \in Lines : (CASE l = Hole \/ l \in m -> 0
                              [] l < Hole /\ l \notin m -> l - Lo + 1
                              [] l > Hole /\ l \notin m -> l - Lo) \in Nat
      BY <3>1
    <3> QED
      BY <2>2, <3>2 DEF Init, StartWith, LineMap
  <2>8. Named
    <3>1. rows = [i \in 1 .. Hi - Lo |-> rows[i]]
      BY <2>1, <2>2 DEF StartWith
    <3>2. \A l \in Lines : lineOrder[l] \in Numbers \cup {0}
      <4>1. \A l \in Lines : /\ l < Hole => l - Lo + 1 \in 1 .. Hi - Lo
                             /\ l > Hole => l - Lo \in 1 .. Hi - Lo
                             /\ l = Hole \/ l < Hole \/ l > Hole
        BY RecoveryAssumption DEF Lines
      <4>2. \A l \in Lines : lineOrder[l] = CASE l = Hole \/ l \in m -> 0
                              [] l < Hole /\ l \notin m -> l - Lo + 1
                              [] l > Hole /\ l \notin m -> l - Lo
        BY <2>2 DEF StartWith
      <4> QED
        BY <2>3, <4>1, <4>2
    <3>3. missed \subseteq Lines /\ acked \subseteq Numbers /\ recovered = {}
      BY <2>2, <2>3, RecoveryAssumption DEF Init, StartWith, Lines
    <3>4. rows \in Seq({rows[o] : o \in DOMAIN rows}) /\ Len(rows) = Hi - Lo
      BY <2>1, <3>1, OwnValues
    <3>5. rec.pc = "idle"
      BY DEF Init, Idle
    <3> QED
      BY <2>3, <3>2, <3>3, <3>4, <3>5 DEF Named
  <2>7. Resting /\ Placed /\ Missing
    BY <2>3, <2>4 DEF Init, Resting, Placed, KnownAs, Missing, Idle, Alive, InState
  <2> QED
    BY <2>5, <2>6, <2>7, <2>8 DEF RecoveryInv
<1>2. RecoveryInv /\ [Next]_vars => RecoveryInv'
  <2> SUFFICES ASSUME RecoveryInv, [Next]_vars PROVE RecoveryInv'
    OBVIOUS
  <2>1. CASE Next
    BY <2>1, ShapesKept, LineMapKept, NamedKept, RestingKept, PlacedKept, MissingKept DEF RecoveryInv
  <2>2. CASE UNCHANGED vars
    <3> USE <2>2 DEF vars, engineVars
    <3>1. Shapes' /\ LineMap' /\ Named'
      BY DEF RecoveryInv, Shapes, LineMap, Named, Numbers
    <3>2. Resting' /\ Placed' /\ Missing'
      BY DEF RecoveryInv, Resting, Placed, KnownAs, Missing, Numbers, OpenOrders, Alive, InState,
             Crossed
    <3> QED
      BY <3>1, <3>2 DEF RecoveryInv
  <2> QED
    BY <2>1, <2>2
<1> QED
  BY <1>1, <1>2, PTL DEF Spec

\* Whatever crashes, is lost or is freed, the maps hold orders that were submitted and
\* lines of the grid, and recover() decodes no line that the grid does not have.
THEOREM RecoveryTypeCorrect == Spec => []RecoveryType
<1>1. RecoveryInv => RecoveryType
  <2> SUFFICES ASSUME RecoveryInv PROVE RecoveryType
    OBVIOUS
  <2> DEFINE Rec == [side : {"BUY", "SELL", "ANCHOR"}, line : Lines, empty : BOOLEAN,
                     st : States]
  <2>1. Order \subseteq Rec
    BY DEF Order
  <2>2. orders \in Seq(Rec) /\ DOMAIN known = Numbers
    <3> HIDE DEF Rec
    <3> QED
      BY <2>1 DEF RecoveryInv, Shapes, Numbers
  <2>3. DOMAIN rows = Numbers
    BY DEF RecoveryInv, Shapes, Named, Numbers
  <2>4. lineOrder \in [Lines -> Numbers \cup {0}]
    BY DEF RecoveryInv, LineMap, Named
  <2>5. up \in {"running", "down", "recovering", "fresh"} /\ rec.pc \in Phases
    BY DEF RecoveryInv, Shapes
  <2>6. missed \subseteq Lines /\ acked \subseteq Numbers /\ recovered \subseteq Numbers
    BY DEF RecoveryInv, Named
  <2> QED
    BY <2>2, <2>3, <2>4, <2>5, <2>6 DEF RecoveryType, Phases, States
<1> QED
  BY <1>1, RecoveryInvariance, PTL

\* However often the bot crashes, and whatever happened to its orders meanwhile, it has
\* every open order under the line it was submitted for, or, if it was recovered and has
\* crossed the anchor, under the line mirrored there.
THEOREM LinesKnown == Spec => []KnownLines
<1>1. RecoveryInv => KnownLines
  BY DEF RecoveryInv, Placed, KnownLines, Alive, OpenOrders, InState
<1> QED
  BY <1>1, RecoveryInvariance, PTL

\* The reconciliation frees a line only of a dead order or of one that is younger than
\* its query, whatever the handlers do between the query and the verdict.
THEOREM FreesTheDead == Spec => FreedIsDead
<1>1. RecoveryInv /\ [Next]_vars =>
        [ rec.pc = "looked" /\ rec'.pc = "idle" /\ up' = "running" =>
            \A l \in Lines : lineOrder[l] # 0 /\ lineOrder'[l] = 0 =>
                lineOrder[l] \in rec.young \/ lineOrder[l] \notin Alive ]_vars
  <2> SUFFICES ASSUME RecoveryInv, Next, rec.pc = "looked", rec'.pc = "idle", up' = "running",
                      NEW l \in Lines, lineOrder[l] # 0, lineOrder'[l] = 0
               PROVE  lineOrder[l] \in rec.young \/ lineOrder[l] \notin Alive
    OBVIOUS
  <2>1. CASE Free
    <3>1. PICK g \in rec.found : g[1] = l
      BY <2>1 DEF Free
    <3> QED
      BY <3>1 DEF RecoveryInv, Missing
  <2>2. CASE Handled
    <3>1. rec'.pc = rec.pc
      BY <2>2, HandlerEffect DEF RecoveryInv, Submitted, Shapes
    <3> QED
      BY <3>1
  <2>3. CASE Advanced
    BY <2>3 DEF Advanced
  <2>4. CASE Reconcile /\ ~Free
    BY <2>4, ReconcileFrame
  <2>5. CASE Crash \/ Restart \/ Recover
    BY <2>5 DEF Crash, Restart, Recover, RecoveryInv, Resting
  <2>6. CASE UNCHANGED <<up, orders, known, lineOrder, recovered, rec, snap>>
    BY <2>6
  <2> QED
    BY <2>1, <2>2, <2>3, <2>4, <2>5, <2>6, Steps
<1> QED
  BY <1>1, RecoveryInvariance, PTL DEF Spec, FreedIsDead
=============================================================================
