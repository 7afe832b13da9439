---------------------------- MODULE GridInventory ----------------------------
(***************************************************************************)
(* The base that a running grid moves: the plan's lines (GridPlan) with    *)
(* their quantities, the counter orders with the quantities                *)
(* _on_order_filled gives them, and what the account holds of them.        *)
(*                                                                         *)
(* The run is a regular one, in which GridEngine implements the ladder:    *)
(* one line, the hole, has no order, BUYs are open below it and SELLs      *)
(* above; a fill of one of its neighbours and the answer to it move the    *)
(* hole by one line, and are one action here.                              *)
(***************************************************************************)
EXTENDS GridPlan, FiniteSetsExt

CONSTANTS
    BaseFee,       \* the exchange takes a BUY's fee in base, not in BNB
    MaxTrades      \* bound: fills

VARIABLES
    hole,          \* the line without an order
    size,          \* the quantity of the order on each line, in lot steps
    held,          \* D-ths of a lot step held for the SELL levels, free or locked
    trades

walkVars == <<hole, size, held, trades>>
vars == <<planVars, walkVars>>

-----------------------------------------------------------------------------
Lines == -Len(buys) .. Len(sells)

(* grid_map: price and quantity of a line; the anchor has no quantity. *)
LineOf(l) == CASE l < 0 -> buys[-l]
               [] l > 0 -> sells[l]
               [] OTHER -> [price |-> RoundHalfUp(cfg.anchor2, 2), qty |-> 0]

(* The fee that a BUY of q lot steps costs in base, in D-ths. *)
CommissionOf(q) == IF BaseFee THEN q * cfg.buyFee ELSE 0

(* What _on_order_filled answers with when the order on line l has filled:  *)
(* the quantity the grid map has for l, whatever that order's was.  On the  *)
(* anchor a BUY is answered with the base it brought, a SELL with what its  *)
(* quote buys one line lower.                                               *)
CounterQuantity(l, side) ==
    LET there == LineOf(IF side = "BUY" THEN l + 1 ELSE l - 1)
    IN  IF LineOf(l).qty > 0 THEN LineOf(l).qty
        ELSE IF side = "BUY" THEN (size[l] * D - CommissionOf(size[l])) \div D
        ELSE (LineOf(l).price * size[l]) \div there.price

-----------------------------------------------------------------------------
Init == PlanInit /\ hole = 0 /\ size = <<>> /\ held = 0 /\ trades = 0

(* The plan's orders are placed, and the account holds just the base that   *)
(* the SELL levels need (total_base_required).                              *)
Plan ==
    /\ PlanNext
    /\ IF phase = "place"
       THEN size' = [l \in Lines |-> LineOf(l).qty] /\ held' = base * D
       ELSE UNCHANGED <<size, held>>
    /\ UNCHANGED <<hole, trades>>

(* Only a plan that was placed as a whole is followed. *)
Traded(l, side) ==
    /\ phase = "running" /\ trades < MaxTrades
    /\ placed.buys = DOMAIN buys /\ placed.sells = Len(sells)
    /\ trades' = trades + 1 /\ hole' = l
    /\ size' = [size EXCEPT ![hole] = CounterQuantity(l, side), ![l] = 0]
    /\ UNCHANGED planVars

(* The price falls to the nearest BUY, or rises to the nearest SELL. *)
BuyFills ==
    /\ hole - 1 \in Lines /\ Traded(hole - 1, "BUY")
    /\ held' = held + size[hole - 1] * D - CommissionOf(size[hole - 1])

SellFills ==
    /\ hole + 1 \in Lines /\ Traded(hole + 1, "SELL")
    /\ held' = held - size[hole + 1] * D

Next == Plan \/ BuyFills \/ SellFills

Spec == Init /\ [][Next]_vars

-----------------------------------------------------------------------------
(* The base of the SELL orders that are open. *)
Offered == SumFunctionOnSet(size, {l \in Lines : l > hole})

(* The quantity of a line is the base that its fills bring (engine.py:773), *)
(* the fee deducted (src/README.md:413), so the base held covers every SELL *)
(* that is open.  It does not: the quantity is the line's, which the order  *)
(* that filled need not have had, and no fee is deducted from it.           *)
OffersCovered == phase = "running" => D * Offered <= held
=============================================================================
