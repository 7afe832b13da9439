------------------------------ MODULE Recovery ------------------------------
(***************************************************************************)
(* What a restart and the periodic reconciliation make of a grid: the      *)
(* engine's maps of orders and lines, the orders on the exchange and the   *)
(* rows of the orders table, through crashes (_try_recovery in             *)
(* src/app/main.py, GridEngine.recover), lost orders, cancels by the user  *)
(* and refusals (supervisor/reconciliation.py, _submit_level_order,        *)
(* _on_order_filled, on_order_rejected and _try_recover_missed in          *)
(* grid/engine.py).                                                        *)
(*                                                                         *)
(* The inventory mode is prebalanced, the policy continue_reconcile; any   *)
(* open order may fill, in whole, and any missed line may be retried, so   *)
(* no price is kept.  An order is the number under which it was submitted: *)
(* ids are taken as different, which the counters that recover() resumes   *)
(* from the open orders alone grant only for these.                        *)
(***************************************************************************)
EXTENDS Integers, Sequences, SequencesExt

CONSTANTS
    Lo, Hi,          \* the lines of the grid
    Hole,            \* the line without an order at the start
    StartMissed,     \* lines that may be missed at the start
    MaxOrders,       \* bound: orders submitted
    MaxCrashes,      \* bound: crashes
    MaxBacklog,      \* bound: reports, and writes before the next handler runs
    Env              \* what the environment may do

ASSUME RecoveryAssumption ==
    /\ Lo \in Int /\ Hi \in Int /\ Lo < 0 /\ 0 < Hi /\ Hole \in Lo .. Hi
    /\ StartMissed \subseteq (Lo .. Hi) \ {Hole}
    /\ Lo + Hi \in -1 .. 1          \* an order's mirrored line is a line of the grid
    /\ MaxOrders \in Nat /\ Hi - Lo <= MaxOrders /\ MaxCrashes \in Nat
    /\ MaxBacklog \in Nat \ {0}
    /\ Env \subseteq {"lose", "refuse", "cancel", "timeout", "slow_ack"}

VARIABLES
    up,              \* "running", "down", "recovering", or "fresh": another run
    orders,          \* the orders submitted, with their state on the exchange
    rows,            \* status_local of their rows, "none" without a row
    known,           \* _order_levels: the line of an order, or Unknown
    lineOrder,       \* _level_orders: the order of a line, or 0
    missed,          \* the lines in _missed_levels
    acked,           \* _order_acked_set
    recovered,       \* the orders recover() found: no submit time, so very old
    stream,          \* executionReports not yet dispatched
    dbq,             \* writes of the orders table not yet done
    rec,             \* a pass of the reconciliation: [pc, found, young]
    snap,            \* the open orders main() found when it started
    crashes

engineVars == <<known, lineOrder, missed, acked, recovered>>
vars == <<up, orders, rows, engineVars, stream, dbq, rec, snap, crashes>>

Lines == Lo .. Hi
Unknown == Hi + 1
Numbers == DOMAIN orders
InState(s) == {o \in Numbers : orders[o].st \in s}
OpenOrders == InState({"open"})
Alive == InState({"queued", "open"})
Distance(line) == IF line < 0 THEN -line ELSE line

-----------------------------------------------------------------------------
(* The engine. *)

(* The side the grid map gives a line; the anchor's is none the exchange    *)
(* knows.                                                                   *)
GridSide(line) == CASE line < 0 -> "BUY" [] line > 0 -> "SELL" [] OTHER -> "ANCHOR"

(* Older than 30 s and not acknowledged: an order that was recovered has no *)
(* submit time and is older than anything; any other one may be, alive or   *)
(* not, but that without "slow_ack" the exchange's NEW comes in time.       *)
IsGhost(o) == /\ o \notin acked
              /\ o \in recovered \/ orders[o].st = "lost" \/ "slow_ack" \in Env
Blocks(o) == o \in acked \/ o \notin recovered

\* Mutant: the line is written down before it is known to be free.
SubmitLevelOrderEarly(line, side, empty, lo, q) ==
    \/ /\ lo[line] # 0 /\ Blocks(lo[line])
       /\ lineOrder' = [lo EXCEPT ![line] = Len(orders) + 1] /\ dbq' = q
       /\ UNCHANGED <<orders, rows, known, rec>>
    \/ /\ lo[line] # 0 => IsGhost(lo[line])
       /\ LET o == Len(orders) + 1
              given == IF lo[line] = 0 THEN q
                       ELSE Append(q, [o |-> lo[line], state |-> "REJECTED"])
          IN  /\ orders' = Append(orders, [side |-> side, line |-> line,
                                           empty |-> empty, st |-> "queued"])
              /\ rows' = Append(rows, "none")
              /\ known' = Append(known, line)
              /\ lineOrder' = [lo EXCEPT ![line] = o]
              /\ dbq' = Append(given, [o |-> o, state |-> "SUBMIT_QUEUED"])
              /\ rec' = [rec EXCEPT !.young = IF rec.pc = "idle" THEN {} ELSE rec.young \cup {o}]

(* _submit_level_order, when the handler has left the map at lo and the     *)
(* queue at q.  An order without quantity is one of a recovered grid map.   *)
SubmitLevelOrder(line, side, empty, lo, q) ==
    \/ /\ lo[line] # 0 /\ Blocks(lo[line])
       /\ lineOrder' = lo /\ dbq' = q
       /\ UNCHANGED <<orders, rows, known, rec>>
    \/ /\ lo[line] # 0 => IsGhost(lo[line])
       /\ LET o == Len(orders) + 1
              given == IF lo[line] = 0 THEN q
                       ELSE Append(q, [o |-> lo[line], state |-> "REJECTED"])
          IN  /\ orders' = Append(orders, [side |-> side, line |-> line,
                                           empty |-> empty, st |-> "queued"])
              /\ rows' = Append(rows, "none")
              /\ known' = Append(known, line)
              /\ lineOrder' = [lo EXCEPT ![line] = o]
              /\ dbq' = Append(given, [o |-> o, state |-> "SUBMIT_QUEUED"])
              /\ rec' = [rec EXCEPT !.young = IF rec.pc = "idle" THEN {} ELSE rec.young \cup {o}]

(* The bound: the answers still to come have room among the MaxOrders.      *)
HasRoom == Len(orders) + Len(SelectSeq(stream, LAMBDA r : r.type = "FILLED")) < MaxOrders

CounterLine(o) == IF orders[o].side = "BUY" THEN known[o] + 1 ELSE known[o] - 1
CounterSide(o) == IF orders[o].side = "BUY" THEN "SELL" ELSE "BUY"

(* The line is freed whoever holds it, the counter order goes to its        *)
(* neighbour.  A fill of an unknown order, or before status RUNNING, is     *)
(* stored and not answered.                                                 *)
OnOrderFilled(o, q) ==
    IF up # "running" \/ known[o] = Unknown
    THEN dbq' = q /\ UNCHANGED <<orders, rows, known, lineOrder, rec>>
    ELSE LET freed == [lineOrder EXCEPT ![known[o]] = 0]
         IN  IF CounterLine(o) \notin Lines
             THEN /\ lineOrder' = freed /\ dbq' = q
                  /\ UNCHANGED <<orders, rows, known, rec>>
             ELSE SubmitLevelOrder(CounterLine(o), CounterSide(o), FALSE, freed, q)

(* on_order_rejected for a post-only order. *)
OnOrderRejected(o, q) ==
    /\ IF known[o] = Unknown
       THEN dbq' = q /\ UNCHANGED <<lineOrder, missed>>
       ELSE /\ lineOrder' = [lineOrder EXCEPT ![known[o]] = 0]
            /\ missed' = missed \cup {known[o]}
            /\ dbq' = Append(q, [o |-> o, state |-> "MISSED"])
    /\ UNCHANGED <<orders, rows, known, rec>>

StoredAs == [NEW |-> "WORKING", FILLED |-> "FILLED", EXPIRED |-> "EXPIRED",
             CANCELED |-> "EXTERNAL_CANCELED"]

(* A NEW report acknowledges, a cancel is left to the reconciliation. *)
Dispatch ==
    /\ up \in {"recovering", "running"} /\ stream # <<>> /\ Len(dbq) < MaxBacklog
    /\ stream' = Tail(stream)
    /\ LET o == Head(stream).o
           type == Head(stream).type
           q == Append(dbq, [o |-> o, state |-> StoredAs[type]])
       IN  /\ acked' = IF type = "NEW" THEN acked \cup {o} ELSE acked
           /\ \/ /\ type = "FILLED" /\ OnOrderFilled(o, q) /\ UNCHANGED missed
              \/ /\ type = "EXPIRED" /\ OnOrderRejected(o, q)
              \/ /\ type \in {"NEW", "CANCELED"} /\ dbq' = q
                 /\ UNCHANGED <<orders, rows, known, lineOrder, missed, rec>>
    /\ UNCHANGED <<up, recovered, snap, crashes>>

(* _try_recover_missed: the line leaves the missed ones before its order is *)
(* submitted, as the grid map has it: after recover() without quantity.     *)
RetryMissed(line) ==
    /\ up = "running" /\ line \in missed /\ HasRoom /\ Len(dbq) < MaxBacklog
    /\ missed' = missed \ {line}
    /\ SubmitLevelOrder(line, GridSide(line), crashes > 0 \/ line = 0, lineOrder, dbq)
    /\ UNCHANGED <<up, acked, recovered, stream, snap, crashes>>

-----------------------------------------------------------------------------
(* The exchange and the database. *)

Report(o, type) ==
    /\ Len(stream) < MaxBacklog
    /\ stream' = IF up \in {"recovering", "running"}
                 THEN Append(stream, [o |-> o, type |-> type]) ELSE stream

(* The send queue is first in, first out, for the reconciliation's query    *)
(* as well.  What the exchange cannot take it refuses without a report.     *)
Arrive(o) ==
    /\ orders[o].st = "queued"
    /\ \A p \in InState({"queued"}) : o <= p
    /\ ~(rec.pc = "asked" /\ o \in rec.young)
    /\ \/ /\ ~orders[o].empty
          /\ orders' = [orders EXCEPT ![o].st = "open"] /\ Report(o, "NEW")
       \/ /\ "refuse" \in Env /\ ~orders[o].empty
          /\ orders' = [orders EXCEPT ![o].st = "refused"] /\ Report(o, "EXPIRED")
       \/ /\ "lose" \in Env \/ orders[o].empty
          /\ orders' = [orders EXCEPT ![o].st = "lost"] /\ UNCHANGED stream
    /\ UNCHANGED <<up, rows, engineVars, dbq, rec, snap, crashes>>

Fill(o) ==
    /\ orders[o].st = "open" /\ HasRoom
    /\ orders' = [orders EXCEPT ![o].st = "filled"] /\ Report(o, "FILLED")
    /\ UNCHANGED <<up, rows, engineVars, dbq, rec, snap, crashes>>

Cancel(o) ==
    /\ "cancel" \in Env /\ orders[o].st = "open"
    /\ orders' = [orders EXCEPT ![o].st = "canceled"] /\ Report(o, "CANCELED")
    /\ UNCHANGED <<up, rows, engineVars, dbq, rec, snap, crashes>>

(* The intent inserts a row, everything else updates the one there is. *)
DbWrite ==
    /\ dbq # <<>> /\ dbq' = Tail(dbq)
    /\ LET e == Head(dbq)
       IN  rows' = IF (e.state = "SUBMIT_QUEUED") = (rows[e.o] = "none")
                   THEN [rows EXCEPT ![e.o] = e.state] ELSE rows
    /\ UNCHANGED <<up, orders, engineVars, stream, rec, snap, crashes>>

-----------------------------------------------------------------------------
(* Reconciliation._do_reconcile and _detect_ghost_cids. *)

Idle == [pc |-> "idle", found |-> {}, young |-> {}]

Ask ==
    /\ up = "running" /\ rec.pc = "idle"
    /\ rec' = [rec EXCEPT !.pc = "asked"]
    /\ UNCHANGED <<up, orders, rows, engineVars, stream, dbq, snap, crashes>>

AskFails ==
    /\ "timeout" \in Env /\ rec.pc = "asked" /\ rec' = Idle
    /\ UNCHANGED <<up, orders, rows, engineVars, stream, dbq, snap, crashes>>

\* Mutant: the query does not wait its turn behind the orders.
AnswerEarly ==
    /\ rec.pc = "asked"
    /\ rec' = [rec EXCEPT !.pc = "answered", !.found = OpenOrders]
    /\ UNCHANGED <<up, orders, rows, engineVars, stream, dbq, snap, crashes>>

(* The exchange answers what is open; the orders queued before are through. *)
Answer ==
    /\ rec.pc = "asked" /\ InState({"queued"}) \subseteq rec.young
    /\ rec' = [rec EXCEPT !.pc = "answered", !.found = OpenOrders]
    /\ UNCHANGED <<up, orders, rows, engineVars, stream, dbq, snap, crashes>>

(* The level map as it is now against the answer. *)
Compare ==
    /\ rec.pc = "answered"
    /\ LET ghosts == {<<l, lineOrder[l]>> : l \in {k \in Lines :
                        lineOrder[k] # 0 /\ lineOrder[k] \notin rec.found}}
       IN  rec' = IF ghosts = {} THEN Idle
                  ELSE [rec EXCEPT !.pc = "compared", !.found = ghosts]
    /\ UNCHANGED <<up, orders, rows, engineVars, stream, dbq, snap, crashes>>

LookUp ==
    /\ rec.pc = "compared"
    /\ rec' = [rec EXCEPT !.pc = "looked",
                          !.found = {<<g[1], g[2], rows[g[2]]>> : g \in rec.found}]
    /\ UNCHANGED <<up, orders, rows, engineVars, stream, dbq, snap, crashes>>

\* Mutant: an order that was only queued is waited for.
GhostStatesSent == {"REJECTED", "EXPIRED"}

(* The rows that make a line missed, and those that only free it. *)
GhostStates == {"REJECTED", "EXPIRED", "SUBMIT_QUEUED"}
CancelStates == {"CANCELED", "EXTERNAL_CANCELED"}

(* The lines are freed whoever holds them now. *)
Free ==
    /\ rec.pc = "looked" /\ rec' = Idle
    /\ LET in(S) == {g \in rec.found : g[3] \in S}
           linesOf(G) == {g[1] : g \in G}
           queued == SetToSortSeq({g[2] : g \in in(GhostStates \cap {"SUBMIT_QUEUED"})}, <)
       IN  /\ missed' = missed \cup linesOf(in(GhostStates))
           /\ lineOrder' = [l \in Lines |->
                 IF l \in linesOf(in(GhostStates \cup CancelStates)) THEN 0 ELSE lineOrder[l]]
           /\ dbq' = dbq \o [i \in DOMAIN queued |->
                               [o |-> queued[i], state |-> "REJECTED"]]
    /\ UNCHANGED <<up, orders, rows, known, acked, recovered, stream, snap, crashes>>

Reconcile == Ask \/ AskFails \/ Answer \/ Compare \/ LookUp \/ Free

-----------------------------------------------------------------------------
(* Crash and restart. *)

NoLine == [l \in Lines |-> 0]

(* Everything in memory is gone: what was queued is never sent or written.  *)
Crash ==
    /\ up \in {"recovering", "running"} /\ crashes < MaxCrashes
    /\ crashes' = crashes + 1 /\ up' = "down"
    /\ orders' = [o \in Numbers |->
                    IF orders[o].st = "queued" THEN [orders[o] EXCEPT !.st = "lost"]
                    ELSE orders[o]]
    /\ known' = [o \in Numbers |-> Unknown] /\ lineOrder' = NoLine
    /\ missed' = {} /\ acked' = {} /\ recovered' = {}
    /\ stream' = <<>> /\ dbq' = <<>> /\ rec' = Idle /\ snap' = {}
    /\ UNCHANGED rows

(* main() asks for the open orders; without one of the bot's a new run      *)
(* begins.                                                                  *)
Restart ==
    /\ up = "down"
    /\ snap' = OpenOrders
    /\ up' = IF OpenOrders = {} THEN "fresh" ELSE "recovering"
    /\ UNCHANGED <<orders, rows, engineVars, stream, dbq, rec, crashes>>

\* Mutant: every order is put back above the anchor.
DecodedLineAbove(o) == Distance(orders[o].line)

(* The line an id stands for: recover() takes the sign from the side. *)
DecodedLine(o) == IF orders[o].side = "BUY" THEN -Distance(orders[o].line)
                  ELSE Distance(orders[o].line)

(* The missed lines main() reads from the database. *)
StoredMissed == {orders[o].line : o \in {p \in Numbers : rows[p] = "MISSED"}}

(* GridEngine.recover, between the answer of main()'s query and status      *)
(* RUNNING: of two orders with one line the one listed last keeps it.       *)
Recover ==
    /\ up = "recovering" /\ up' = "running"
    /\ known' = [o \in Numbers |-> IF o \in snap THEN DecodedLine(o) ELSE Unknown]
    /\ lineOrder' \in {f \in [Lines -> snap \cup {0}] : \A l \in Lines :
            LET here == {o \in snap : DecodedLine(o) = l}
            IN  IF here = {} THEN f[l] = 0 ELSE f[l] \in here}
    /\ missed' = StoredMissed
    /\ recovered' = snap /\ snap' = {}
    /\ UNCHANGED <<orders, rows, acked, stream, dbq, rec, crashes>>

-----------------------------------------------------------------------------
(* A grid some time after its start: fills have moved the hole to its line, *)
(* BUYs are open below it and SELLs above, but for the lines m, which are   *)
(* missed.                                                                  *)
StartLines == [i \in 1 .. Hi - Lo |-> IF Lo + i <= Hole THEN Lo + i - 1 ELSE Lo + i]
StartOrder(line, m) == [side |-> IF line < Hole THEN "BUY" ELSE "SELL", line |-> line,
                        empty |-> FALSE, st |-> IF line \in m THEN "refused" ELSE "open"]

StartWith(m) ==
    /\ orders = [i \in 1 .. Hi - Lo |-> StartOrder(StartLines[i], m)]
    /\ rows = [i \in 1 .. Hi - Lo |-> IF StartLines[i] \in m THEN "MISSED" ELSE "WORKING"]
    /\ lineOrder = [l \in Lines |-> CASE l = Hole \/ l \in m -> 0
                                     [] l < Hole /\ l \notin m -> l - Lo + 1
                                     [] l > Hole /\ l \notin m -> l - Lo]
    /\ missed = m
    /\ acked = {i \in 1 .. Hi - Lo : StartLines[i] \notin m}

Init ==
    /\ up = "running"
    /\ \E m \in SUBSET StartMissed : StartWith(m)
    /\ known = StartLines /\ recovered = {}
    /\ stream = <<>> /\ dbq = <<>> /\ rec = Idle /\ snap = {} /\ crashes = 0

Next == \/ Dispatch \/ DbWrite
        \/ \E line \in Lines : RetryMissed(line)
        \/ \E o \in Numbers : Arrive(o) \/ Fill(o) \/ Cancel(o)
        \/ Reconcile
        \/ Crash \/ Restart \/ Recover

Spec == Init /\ [][Next]_vars

(* The tasks run, the reconciliation again and again; the exchange takes    *)
(* what it is sent, and not every query of the reconciliation times out.    *)
FairSpec ==
    /\ Spec
    /\ WF_vars(Dispatch) /\ WF_vars(DbWrite)
    /\ WF_vars(\E o \in Numbers : Arrive(o))
    /\ WF_vars(Ask) /\ SF_vars(Answer) /\ WF_vars(Compare \/ LookUp \/ Free)

-----------------------------------------------------------------------------
RecoveryType ==
    /\ up \in {"running", "down", "recovering", "fresh"}
    /\ orders \in Seq([side : {"BUY", "SELL", "ANCHOR"}, line : Lines,
                       empty : BOOLEAN,
                       st : {"queued", "open", "filled", "canceled", "refused", "lost"}])
    /\ DOMAIN rows = Numbers /\ DOMAIN known = Numbers
    /\ lineOrder \in [Lines -> Numbers \cup {0}]
    /\ missed \subseteq Lines /\ acked \subseteq Numbers /\ recovered \subseteq Numbers
    /\ rec.pc \in {"idle", "asked", "answered", "compared", "looked"}

(* BUY above the anchor or SELL below it: the grid has moved. *)
Crossed(o) == orders[o].line * (IF orders[o].side = "BUY" THEN 1 ELSE -1) > 0

(* The line under which the engine has an order: the one it was submitted   *)
(* for, mirrored at the anchor if it was recovered and has crossed it.      *)
KnownAs(o) == IF o \in recovered /\ Crossed(o) THEN -orders[o].line ELSE orders[o].line

(* However many restarts there were, what a running bot believes of an open *)
(* order's line is this and nothing else: the line itself, or, for a        *)
(* recovered BUY above the anchor or SELL below it, the mirrored one.       *)
(* (make_client_order_id against recover())                                 *)
KnownLines == up = "running" => \A o \in OpenOrders : known[o] = KnownAs(o)

(* The reconciliation never takes the line from an order that is on its way *)
(* or open, unless the order is younger than the query it compares with.    *)
(* (_do_reconcile, _detect_ghost_cids)                                      *)
FreedIsDead ==
    [][ rec.pc = "looked" /\ rec'.pc = "idle" /\ up' = "running" =>
          \A l \in Lines : lineOrder[l] # 0 /\ lineOrder'[l] = 0 =>
              lineOrder[l] \in rec.young \/ lineOrder[l] \notin Alive ]_vars

(* A line is not blocked for ever by an order that was lost or canceled:    *)
(* once its row is in the table the reconciliation frees the line.  Without *)
(* a row it waits, also for a row that a crash has lost.                    *)
(* (_detect_ghost_cids)                                                     *)
DeadHolder(l) == /\ up = "running" /\ lineOrder[l] # 0 /\ rows[lineOrder[l]] # "none"
                 /\ lineOrder[l] \in InState({"lost", "canceled"})
DeadFreed == \A l \in Lines : DeadHolder(l) ~> ~DeadHolder(l)
=============================================================================
