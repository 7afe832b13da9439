----------------------------- MODULE GridMoney -----------------------------
(***************************************************************************)
(* The money of a run: the plan is computed and paid for (GridPlan), its   *)
(* lines fill in any order, and the reports match the fills (HalfMatch).   *)
(* An order filled on a line has the line's price and quantity and pays    *)
(* the configured fee.                                                     *)
(***************************************************************************)
EXTENDS GridPlan, HalfMatch

CONSTANT Traded        \* bound: the configurations followed into trading

vars == <<planVars, pnlVars>>

Init == PlanInit /\ PnlInit

(* The lines of the plan, the anchor's included. *)
Lines == -Len(buys) .. Len(sells)
PriceOf(i) == CASE i < 0 -> buys[-i].price
                [] i = 0 -> RoundHalfUp(cfg.anchor2, 2)
                [] i > 0 -> sells[i].price

(* A line fills: the first time with the plan's order, later with counter   *)
(* orders, so on either side; a counter's quantity is a fill's.  No BUY is  *)
(* on the highest line and no SELL on the lowest.                           *)
LineFilled(i, side, qty) ==
    /\ phase = "running" /\ cfg \in Traded
    /\ i # (IF side = "BUY" THEN Len(sells) ELSE -Len(buys))
    /\ StoreFill(side, PriceOf(i), qty,
                 PriceOf(i) * (IF side = "BUY" THEN cfg.buyFee ELSE cfg.sellFee))
    /\ UNCHANGED planVars

Quantities == {buys[j].qty : j \in DOMAIN buys} \cup {sells[j].qty : j \in DOMAIN sells}

Plan == PlanNext /\ UNCHANGED pnlVars
Fill == \E i \in Lines, side \in {"BUY", "SELL"}, qty \in Quantities :
            LineFilled(i, side, qty)
Start == StartReport /\ UNCHANGED planVars
Match == MatchClosest /\ UNCHANGED planVars
End == EndReport(D) /\ UNCHANGED planVars

Next == Plan \/ Fill \/ Start \/ Match \/ End

(* initialize and compute_half_match_profit run to their end. *)
Spec == Init /\ [][Next]_vars /\ WF_vars(Plan) /\ WF_vars(Match) /\ WF_vars(End)

-----------------------------------------------------------------------------
MoneyType ==
    /\ cfg \in Config
    /\ phase \in {"value", "step", "counts", "buys", "sells", "preflight",
                  "place", "running", "raised"}
    /\ r.n >= r.d /\ r.d > 0
    /\ Len(buys) <= k[1] /\ Len(sells) <= k[2]
    /\ \A i \in DOMAIN left : left[i] \in 0 .. fills[i].qty
    /\ report # <<>> => report.fills <= Len(fills)

Planned == phase \in {"preflight", "place", "running"}

(* The lines never cross: each price is at or above that of the line below, *)
(* and above it when a tick fits between them before rounding; every level  *)
(* passes the exchange's filters, and no order is worth more at its own     *)
(* price, or at the anchor for a SELL, than the value of a line.            *)
(* (generate_*_grid, adjust_order_to_filters, validate_order)               *)
LadderSound ==
    Planned =>
      /\ \A i \in -Len(buys) .. Len(sells) - 1 :
            LET low == RawPrice(cfg, r, i)
                high == RawPrice(cfg, r, i + 1)
            IN  /\ PriceOf(i) <= PriceOf(i + 1)
                /\ high.n * low.d - low.n * high.d >= low.d * high.d
                     => PriceOf(i) < PriceOf(i + 1)
      /\ \A j \in DOMAIN buys : /\ ValidOrder(cfg, buys[j].price, buys[j].qty)
                                /\ buys[j].price * buys[j].qty <= cfg.value
      /\ \A j \in DOMAIN sells : /\ ValidOrder(cfg, sells[j].price, sells[j].qty)
                                 /\ sells[j].qty * cfg.anchor2 <= 2 * cfg.value

(* What a unit bought on line i and sold on the next leaves after both      *)
(* fees, in D-ths of a tick.                                                *)
Net(i) == (D - cfg.sellFee) * PriceOf(i + 1) - (D + cfg.buyFee) * PriceOf(i)

(* Above the anchor an arithmetic step is a smaller share of the price than *)
(* the ratio it was computed from: what is missing are the fees on the      *)
(* distance from the anchor, here times r.d and twice.                      *)
FeesAbove(i) ==
    IF cfg.grid = "arithmetic" /\ i > 0
    THEN i * (cfg.buyFee + cfg.sellFee) * (cfg.anchor2 * (r.n - r.d)) ELSE 0

(* Whatever is configured, a round trip between neighbouring lines loses at *)
(* most what its two prices lose by rounding, half a tick each, and above   *)
(* the anchor of an arithmetic grid the fees on the distance from there.    *)
(* (compute_geometric_step, compute_arithmetic_step)                        *)
LossBounded ==
    Planned =>
      \A i \in -Len(buys) .. Len(sells) - 1 :
        r.d * (2 * Net(i) + (2 * D + cfg.buyFee - cfg.sellFee)) >= -FeesAbove(i)

(* A grid never loses, whatever the user configures: every round trip pays  *)
(* both fees (docs/grid_calculation_detailed.md:110 and 175).  It may lose: *)
(* above the anchor of an arithmetic grid, and by rounding.                 *)
NeverLoses == Planned => \A i \in -Len(buys) .. Len(sells) - 1 : Net(i) >= 0

(* The ratio reaches the target of the configuration: a line's value bought *)
(* and sold one line higher leaves at least the target after both fees.     *)
TargetReached ==
    Planned =>
      LET net == (D - cfg.sellFee) * r.n - (D + cfg.buyFee) * r.d   \* times value, D, r.d
      IN  /\ net >= 0
          /\ IF cfg.target.kind = "pct" THEN net >= cfg.target.amount * r.d
             ELSE net * cfg.value >= cfg.target.amount * D * r.d

(* What the lines and the computed bootstrap cost at the start stays within *)
(* the capital without its reserve, but for half a cent of rounding.        *)
(* (compute_grid_counts against _execute_bootstrap)                         *)
CapitalFits ==
    Planned /\ ~(cfg.mode = "quote_only_bootstrap" /\ cfg.spend > 0) =>
      IF cfg.mode = "quote_only_bootstrap"
      THEN 2 * D * (lock + NeededQuote(cfg, base)) <= 2 * AvailableD(cfg) + D * Cent
      ELSE D * (2 * lock + base * cfg.anchor2) <= 2 * AvailableD(cfg)

(* With a SELL level to buy for, the BUY orders placed and the bootstrap    *)
(* fit the quote the account holds: the bootstrap spends what the           *)
(* pre-flight check counted.  (_preflight_balance_check)                    *)
PlacedFits ==
    phase = "running" /\ cfg.mode = "quote_only_bootstrap" /\ sells # <<>> =>
      SumFunctionOnSet(Cost, placed.buys) + placed.spend <= cfg.quote

-----------------------------------------------------------------------------
(* What the first n fills bought at or above a price and sold above it. *)
BoughtAt(p, n) == SumFunctionOnSet(Quantity, {i \in Of("BUY") : i <= n /\ fills[i].price >= p})
SoldAbove(p, n) == SumFunctionOnSet(Quantity, {i \in Of("SELL") : i <= n /\ fills[i].price > p})
Bought(n) == SumFunctionOnSet(Quantity, {i \in Of("BUY") : i <= n})

(* Hall's theorem for prices: the BUY fills at or above p can only be       *)
(* matched by the SELL fills above p, so the excess is left in any match.   *)
Excess(p) == BoughtAt(p, Len(fills)) - SoldAbove(p, Len(fills))

MostMatchable == Bought(Len(fills))
                 - Max({0} \cup {Excess(fills[i].price) : i \in Of("BUY")})

Taken == [m \in DOMAIN matches |-> matches[m].qty]
Matched(side, i) == SumFunctionOnSet(Taken, {m \in DOMAIN matches : matches[m][side] = i})

(* A finished report has matched every unit that any matching could, and    *)
(* none twice: the greedy choice loses nothing.  (compute_half_match_profit)*)
MatchesMost ==
    report # <<>> /\ ~reporting /\ report.fills = Len(fills) =>
      /\ \A i \in Of("BUY") : left[i] = fills[i].qty - Matched("buy", i)
      /\ \A i \in Of("SELL") : left[i] = fills[i].qty - Matched("sell", i)
      /\ \A m \in DOMAIN matches :
            fills[matches[m].buy].price < fills[matches[m].sell].price
      /\ Bought(Len(fills)) - report.buyLeft = MostMatchable

(* A later report never takes back a matched unit, though it may pair it    *)
(* with a closer fill and so lower the profit.  (ProfitReporter._report)    *)
MatchedKept ==
    [][report # <<>> /\ report' # report =>
         Bought(report.fills) - report.buyLeft
           <= Bought(report'.fills) - report'.buyLeft]_vars

(* A report ends: every pair empties one of its fills.                      *)
ReportEnds == reporting ~> ~reporting
=============================================================================
