------------------------------ MODULE GridPlan ------------------------------
(***************************************************************************)
(* How the grid is computed and paid for before the first order goes out:  *)
(* the second half of GridEngine.initialize (grid/engine.py), with         *)
(* grid/calculator.py, exchange/filters.py, exchange/precision.py and      *)
(* grid/inventory.py.  Money is exact: prices count ticks, quantities      *)
(* count lot steps, quote amounts count tick times step.  The anchor is    *)
(* the middle of bid and ask, so `anchor2` counts half ticks.  Fees,       *)
(* reserves, targets, buffers and the largest step are D-ths.  Decimal's   *)
(* 28 digits are taken as exact.                                           *)
(***************************************************************************)
EXTENDS Integers, Sequences

CONSTANTS D,        \* the denominator of every percentage
          Cent,     \* Decimal("0.01") in quote units
          Configs   \* the configurations and balances to start from

(* What BotConfig, FeeConfig, BootstrapConfig and the account may hold. *)
Config == [grid: {"geometric", "arithmetic"},
           mode: {"quote_only_bootstrap", "prebalanced"},
           anchor2: Nat \ {0},
           value: Nat,                       \* 0: not given
           target: [kind: {"pct", "quote"}, amount: Nat \ {0}],
           buyFee: 0 .. D - 1, sellFee: 0 .. D - 1, maxStep: Nat,
           capital: Nat, reserve: 0 .. D, maxLevels: Nat \ {0},
           sides: Seq(Nat),                  \* <<>>: not given
           buffer: Nat, share: 0 .. D,
           spend: Nat,                       \* bootstrap.quote_qty, 0: not given
           minNotional: Nat, quote: Nat, base: Nat, baseReserve: 0 .. D]

ASSUME PlanAssumption ==
    /\ D \in Nat \ {0}
    /\ Cent \in Nat \ {0}
    /\ Configs \subseteq Config
    /\ \A c \in Configs : /\ c.sides = <<>> \/ Len(c.sides) = 2
                          /\ 2 * c.value * D <= c.capital * (D - c.reserve)

VARIABLES cfg,     \* the configuration
          phase,   \* how far initialize has come
          r,       \* the ratio of neighbouring lines, [n, d] for n/d
          k,       \* <<k_buy, k_sell>>
          buys,    \* the BUY levels, the nearest first: [price, qty]
          sells,   \* the SELL levels, the nearest first
          lock,    \* total_quote_required: the BUY levels' notionals
          base,    \* total_base_required: the SELL levels' quantities
          placed   \* the levels handed to the router and the bootstrap's quote

planVars == <<cfg, phase, r, k, buys, sells, lock, base, placed>>

-----------------------------------------------------------------------------
(* precision.py and filters.py.                                            *)

(* The nearest multiple of the unit to n/d, halves away from zero: 0 < d. *)
RoundHalfUp(n, d) == IF n >= 0 THEN (2 * n + d) \div (2 * d)
                               ELSE -((d - 2 * n) \div (2 * d))

(* quantize of n/d to whole cents: halves go to the even cent. *)
ToCents(n, d) ==
    LET unit == d * Cent
        q == n \div unit
        rest == 2 * (n % unit)
    IN  Cent * (IF rest > unit \/ (rest = unit /\ q % 2 = 1) THEN q + 1 ELSE q)

ValidOrder(c, price, qty) ==
    /\ price >= 1
    /\ qty >= 1
    /\ price * qty >= c.minNotional

-----------------------------------------------------------------------------
(* calculator.py.                                                          *)

BreakEven(c) == [n |-> D + c.buyFee, d |-> D - c.sellFee]

TargetRatio(c) ==
    IF c.target.kind = "pct"
    THEN [n |-> (D + c.target.amount) * D,
          d |-> (D - c.buyFee) * (D - c.sellFee)]
    ELSE [n |-> (D + c.buyFee) * c.value + c.target.amount * D,
          d |-> (D - c.sellFee) * c.value]

AtLeast(x, y) == x.n * y.d >= y.n * x.d

(* Mutants: the fees are forgotten; the target is. *)
StepRatioNoFees(c) == IF c.target.kind = "pct"
                      THEN [n |-> D + c.target.amount, d |-> D]
                      ELSE [n |-> c.value + c.target.amount, d |-> c.value]
StepRatioNoTarget(c) == BreakEven(c)

(* The ratio both compute_*_step use: never below break even. *)
StepRatio(c) == IF AtLeast(TargetRatio(c), BreakEven(c))
                THEN TargetRatio(c) ELSE BreakEven(c)

TooWide(c, x) == (x.n - x.d) * D > c.maxStep * x.d

(* b to the power of n. *)
Power(b, n) == LET p[i \in Nat] == IF i = 0 THEN 1 ELSE b * p[i - 1] IN p[n]

(* Half ticks to ticks: the price of line i above (i > 0) or below the      *)
(* anchor, before rounding, as a fraction.                                  *)
RawPrice(c, x, i) ==
    CASE c.grid = "geometric" /\ i >= 0 ->
           [n |-> c.anchor2 * Power(x.n, i), d |-> 2 * Power(x.d, i)]
      [] c.grid = "geometric" /\ i < 0 ->
           [n |-> c.anchor2 * Power(x.d, -i), d |-> 2 * Power(x.n, -i)]
      [] OTHER -> [n |-> c.anchor2 * (x.d + i * (x.n - x.d)), d |-> 2 * x.d]

LinePrice(c, x, i) == LET raw == RawPrice(c, x, i) IN RoundHalfUp(raw.n, raw.d)

(* What a SELL level costs at the start, as a fraction: the bootstrap's    *)
(* share when it is computed, else the value of a line.                    *)
CostPerSell(c) ==
    IF c.mode = "quote_only_bootstrap" /\ c.spend = 0
    THEN [n |-> c.value * (D + c.buffer), d |-> D - c.buyFee]
    ELSE [n |-> c.value, d |-> 1]

(* The capital without the reserve, in D-ths. *)
AvailableD(c) == c.capital * (D - c.reserve)

(* kb lines of BUY and ks of SELL fit the capital. *)
FitsCapital(c, kb, ks) ==
    D * (kb * c.value * CostPerSell(c).d + ks * CostPerSell(c).n)
        <= AvailableD(c) * CostPerSell(c).d

(* Mutant: only the BUY half of a pair is counted. *)
PairsForBuysOnly(c) ==
    LET most == AvailableD(c) \div (D * c.value)
    IN  IF most < c.maxLevels \div 2 THEN most ELSE c.maxLevels \div 2

PairsFor(c) ==
    LET cost == c.value * CostPerSell(c).d + CostPerSell(c).n
        most == (AvailableD(c) * CostPerSell(c).d) \div (D * cost)
    IN  IF most < c.maxLevels \div 2 THEN most ELSE c.maxLevels \div 2

-----------------------------------------------------------------------------
(* inventory.py: what an order may use, the reserve left aside.            *)

HasQuoteForBuy(c, notional) == c.quote * (D - c.reserve) >= notional * D
HasBaseForSell(c, qty) == c.base * (D - c.baseReserve) >= qty * D

(* The quote the bootstrap spends: asked for, or the SELL levels' base with *)
(* buffer and fee at the anchor price; with no SELL level, the share of the *)
(* capital that buy_allocation_ratio names.                                 *)
NeededQuote(c, b) == ToCents(b * (D + c.buffer) * c.anchor2, 2 * (D - c.buyFee))

(* Mutant: the check forgets buffer and fee. *)
PreflightQuoteBare(c, b) == IF c.spend > 0 THEN c.spend
                            ELSE ToCents(b * c.anchor2, 2)
PreflightQuote(c, b) == IF c.spend > 0 THEN c.spend ELSE NeededQuote(c, b)
BootstrapQuote(c, b) ==
    CASE c.spend > 0 -> c.spend
      [] c.spend = 0 /\ sells # <<>> -> NeededQuote(c, b)
      [] OTHER -> (c.capital * c.share) \div D

-----------------------------------------------------------------------------
PlanInit ==
    /\ cfg \in Configs
    /\ phase = "value"
    /\ r = [n |-> 1, d |-> 1]
    /\ k = <<0, 0>>
    /\ buys = <<>> /\ sells = <<>>
    /\ lock = 0 /\ base = 0
    /\ placed = [buys |-> {}, sells |-> 0, spend |-> 0]

(* A ValueError or ZeroDivisionError ends initialize: nothing was sent. *)
Raise == phase' = "raised"

(* The value of a line: given, or the capital over the lines, but at least *)
(* a tenth more than the exchange's smallest order.                         *)
AutoValue(c) ==
    LET perLevel == ToCents(AvailableD(c), D * c.maxLevels)
        minSafe == ToCents(c.minNotional * 11, 10)
    IN  IF perLevel >= minSafe THEN perLevel ELSE minSafe

OrderQuoteValue ==
    /\ phase = "value"
    /\ IF cfg.value = 0
       THEN cfg' = [cfg EXCEPT !.value = AutoValue(cfg)] /\ phase' = "step"
       ELSE /\ phase' = IF cfg.value < cfg.minNotional THEN "raised" ELSE "step"
            /\ UNCHANGED cfg
    /\ UNCHANGED <<r, k, buys, sells, lock, base, placed>>

ComputeStep ==
    /\ phase = "step"
    /\ IF TooWide(cfg, StepRatio(cfg))
       THEN Raise /\ UNCHANGED r
       ELSE phase' = "counts" /\ r' = StepRatio(cfg)
    /\ UNCHANGED <<cfg, k, buys, sells, lock, base, placed>>

ComputeCounts ==
    /\ phase = "counts"
    /\ LET counts == IF cfg.sides # <<>> THEN cfg.sides
                     ELSE <<PairsFor(cfg), PairsFor(cfg)>>
       IN  IF \/ cfg.sides = <<>> /\ cfg.value = 0    \* the pair's cost is a divisor
              \/ cfg.sides # <<>> /\ ~FitsCapital(cfg, counts[1], counts[2])
              \/ counts = <<0, 0>>
           THEN Raise /\ UNCHANGED k
           ELSE phase' = "buys" /\ k' = counts
    /\ UNCHANGED <<cfg, r, buys, sells, lock, base, placed>>

(* Mutant: the loop starts at 0. *)
NextBuyLineFromZero == -Len(buys)
NextBuyLine == -(Len(buys) + 1)

(* One turn of the BUY loop.  The value is divided by the price before     *)
(* anything looks at the price: a line rounded to zero raises.             *)
AddBuy ==
    /\ phase = "buys"
    /\ LET price == LinePrice(cfg, r, NextBuyLine)
           qty == cfg.value \div price
       IN  CASE Len(buys) = k[1] -> phase' = "sells" /\ UNCHANGED <<buys, lock>>
             [] Len(buys) < k[1] /\ price = 0 -> Raise /\ UNCHANGED <<buys, lock>>
             [] Len(buys) < k[1] /\ price < 0 ->
                  phase' = "sells" /\ UNCHANGED <<buys, lock>>
             [] Len(buys) < k[1] /\ price > 0 ->
                  IF ValidOrder(cfg, price, qty)
                  THEN /\ buys' = Append(buys, [price |-> price, qty |-> qty])
                       /\ lock' = lock + price * qty
                       /\ UNCHANGED phase
                  ELSE phase' = "sells" /\ UNCHANGED <<buys, lock>>
    /\ UNCHANGED <<cfg, r, k, sells, base, placed>>

(* One turn of the SELL loop: every SELL sells what the line's value buys   *)
(* at the anchor.  After it a plan without levels raises.                   *)
AddSell ==
    /\ phase = "sells"
    /\ LET price == LinePrice(cfg, r, Len(sells) + 1)
           qty == (2 * cfg.value) \div cfg.anchor2
       IN  IF Len(sells) < k[2] /\ ValidOrder(cfg, price, qty)
           THEN /\ sells' = Append(sells, [price |-> price, qty |-> qty])
                /\ base' = base + qty
                /\ UNCHANGED phase
           ELSE /\ phase' = CASE buys = <<>> /\ sells = <<>> -> "raised"
                              [] cfg.mode = "quote_only_bootstrap" -> "preflight"
                              [] OTHER -> "place"
                /\ UNCHANGED <<sells, base>>
    /\ UNCHANGED <<cfg, r, k, buys, lock, placed>>

PreflightBalanceCheck ==
    /\ phase = "preflight"
    /\ phase' = IF lock + PreflightQuote(cfg, base) > cfg.quote
                THEN "raised" ELSE "place"
    /\ UNCHANGED <<cfg, r, k, buys, sells, lock, base, placed>>

(* The notionals of the BUY levels. *)
Cost == [j \in DOMAIN buys |-> buys[j].price * buys[j].qty]

(* Every level is compared with the balance read at the start, which the   *)
(* levels already placed have not changed: BUY levels that do not fit are  *)
(* skipped, the first SELL level that does not fit ends the SELL levels.   *)
PlaceInitialOrders ==
    /\ phase = "place"
    /\ phase' = "running"
    /\ placed' =
         [buys |-> {j \in DOMAIN buys : HasQuoteForBuy(cfg, Cost[j])},
          sells |-> IF /\ cfg.mode = "prebalanced"
                       /\ sells # <<>>
                       /\ HasBaseForSell(cfg, sells[1].qty)
                    THEN Len(sells) ELSE 0,
          spend |-> IF cfg.mode = "quote_only_bootstrap"
                    THEN BootstrapQuote(cfg, base) ELSE 0]
    /\ UNCHANGED <<cfg, r, k, buys, sells, lock, base>>

PlanNext == \/ OrderQuoteValue
            \/ ComputeStep
            \/ ComputeCounts
            \/ AddBuy
            \/ AddSell
            \/ PreflightBalanceCheck
            \/ PlaceInitialOrders

PlanSpec == PlanInit /\ [][PlanNext]_planVars
=============================================================================
