------------------------------ MODULE GridLadder ------------------------------
(***************************************************************************)
(* What the grid engine promises: every grid line but one, the hole, has   *)
(* an order; a fill moves the hole to the filled line and the order to the *)
(* line the hole was on, on the other side.                                *)
(***************************************************************************)
EXTENDS Integers

CONSTANTS Lo, Hi    \* the lowest and the highest grid line, Lo < 0 < Hi

VARIABLE slot    \* grid line -> side of the order the line has or is due

Levels == Lo .. Hi

Init == slot = [l \in Levels |-> IF l < 0 THEN "BUY"
                                 ELSE IF l > 0 THEN "SELL" ELSE "NONE"]

FillBuy(l) ==
    /\ slot[l] = "BUY" /\ l + 1 \in Levels /\ slot[l + 1] = "NONE"
    /\ slot' = [slot EXCEPT ![l] = "NONE", ![l + 1] = "SELL"]

FillSell(l) ==
    /\ slot[l] = "SELL" /\ l - 1 \in Levels /\ slot[l - 1] = "NONE"
    /\ slot' = [slot EXCEPT ![l] = "NONE", ![l - 1] = "BUY"]

Next == \E l \in Levels : FillBuy(l) \/ FillSell(l)

Spec == Init /\ [][Next]_slot

-------------------------------------------------------------------------------

\* Every line has a side of order, or none.
TypeOK == slot \in [Levels -> {"BUY", "SELL", "NONE"}]

\* There is exactly one hole; all lines below it buy and all lines above sell.
LadderShape ==
    \E h \in Levels :
        /\ slot[h] = "NONE"
        /\ \A l \in Levels : /\ l < h => slot[l] = "BUY"
                             /\ l > h => slot[l] = "SELL"
===============================================================================
