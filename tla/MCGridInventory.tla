--------------------------- MODULE MCGridInventory ---------------------------
(* Instances of the inventory: percentages are tenths. *)
EXTENDS GridInventory

Plain == [grid |-> "geometric", mode |-> "prebalanced", anchor2 |-> 28,
          value |-> 100, target |-> [kind |-> "pct", amount |-> 1],
          buyFee |-> 0, sellFee |-> 0, maxStep |-> 8,
          capital |-> 1000, reserve |-> 0, maxLevels |-> 8, sides |-> <<2, 2>>,
          buffer |-> 0, share |-> 5, spend |-> 0, minNotional |-> 5,
          quote |-> 1000, base |-> 100, baseReserve |-> 0]

(* Lines 12, 13, 14 and two above, orders of 7 or 8 lot steps. *)
MCOne == {Plain}

==============================================================================
