----------------------------- MODULE MCGridMoney -----------------------------
(* Instances of the plan and of the reports: percentages are tenths. *)
EXTENDS GridMoney

Base == [grid |-> "geometric", mode |-> "quote_only_bootstrap", anchor2 |-> 21,
         value |-> 0, target |-> [kind |-> "pct", amount |-> 1],
         buyFee |-> 1, sellFee |-> 1, maxStep |-> 8,
         capital |-> 120, reserve |-> 1, maxLevels |-> 5, sides |-> <<>>,
         buffer |-> 1, share |-> 5, spend |-> 0, minNotional |-> 12,
         quote |-> 120, base |-> 20, baseReserve |-> 1]

(* Lines at 6, 7 and 9 ticks, orders of 1 or 2 lot steps. *)
MCTraded == {[Base EXCEPT !.anchor2 = 14, !.value = 12, !.buyFee = 0,
                          !.minNotional = 5, !.sides = <<1, 1>>]}

MCConfigs ==
    MCTraded \cup
    {[Base EXCEPT !.grid = g, !.mode = m, !.anchor2 = a, !.value = v,
                  !.target = t, !.buyFee = f, !.sides = s, !.spend = e,
                  !.buffer = u, !.quote = q] :
        g \in {"geometric", "arithmetic"},
        m \in {"quote_only_bootstrap", "prebalanced"},
        a \in {3, 14, 21}, v \in {0, 10, 25, 30},
        t \in [kind : {"pct", "quote"}, amount : {1, 5}],
        f \in {0, 1}, s \in {<<>>, <<2, 2>>, <<2, 0>>, <<0, 2>>},
        e \in {0, 60}, u \in {0, 1}, q \in {80, 120}}

(* Lines at 81, 110, 139 and 168 ticks, none of them rounded. *)
MCArithmetic == {[Base EXCEPT !.grid = "arithmetic", !.mode = "prebalanced",
                              !.anchor2 = 162, !.value = 200, !.capital = 1000,
                              !.sides = <<0, 3>>]}
==============================================================================
