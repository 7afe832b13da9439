----------------------------- MODULE HalfMatch -----------------------------
(***************************************************************************)
(* The realised profit (grid/pnl.py and supervisor/profit_reporter.py):    *)
(* every fill is half a match.  A report starts from the fills stored so   *)
(* far and pairs again and again the BUY and the dearer SELL whose prices  *)
(* are closest, until no BUY is left below a SELL.  compute_half_match_    *)
(* profit never awaits: a fill stored meanwhile is for the next report.    *)
(* Prices count ticks, quantities lot steps; a fill's commission is kept   *)
(* per unit, in the D-ths of a quote unit, so that its share is exact.     *)
(***************************************************************************)
EXTENDS Integers, Sequences, FiniteSets, FiniteSetsExt

CONSTANT MaxFills      \* bound on the fills stored

VARIABLES fills,       \* the Fill rows, by transaction time
          reporting,   \* a report is being computed
          left,        \* HalfMatch.remaining of each fill
          matches,     \* the MatchedPairs so far
          report       \* the last ProfitReport, or <<>>

pnlVars == <<fills, reporting, left, matches, report>>

Of(side) == {i \in DOMAIN fills : fills[i].side = side}

(* A BUY and a SELL that can be matched, and how far apart they are. *)
Open == {p \in Of("BUY") \X Of("SELL") :
            /\ left[p[1]] > 0 /\ left[p[2]] > 0
            /\ fills[p[1]].price < fills[p[2]].price}

Gap(p) == fills[p[2]].price - fills[p[1]].price

(* The loops keep the first of the closest pairs. *)
Before(p, q) == \/ Gap(p) < Gap(q)
                \/ Gap(p) = Gap(q) /\ p[1] < q[1]
                \/ Gap(p) = Gap(q) /\ p[1] = q[1] /\ p[2] <= q[2]

(* Mutant: the pair furthest apart. *)
BestPairWidest == CHOOSE p \in Open : \A q \in Open : Gap(q) <= Gap(p)
BestPair == CHOOSE p \in Open : \A q \in Open : Before(p, q)

(* Mutant: the larger remainder is matched. *)
SmallerNot(a, b) == IF a <= b THEN b ELSE a
Smaller(a, b) == IF a <= b THEN a ELSE b

Quantity == [i \in DOMAIN fills |-> fills[i].qty]

(* A MatchedPair's net_profit, in D-ths of a quote unit. *)
NetProfit(D, m) == m.qty * (D * (fills[m.sell].price - fills[m.buy].price)
                            - fills[m.buy].fee - fills[m.sell].fee)

-----------------------------------------------------------------------------
PnlInit == /\ fills = <<>>
           /\ reporting = FALSE
           /\ left = <<>>
           /\ matches = <<>>
           /\ report = <<>>

(* The database writer stores a fill. *)
StoreFill(side, price, qty, fee) ==
    /\ ~reporting
    /\ Len(fills) < MaxFills
    /\ fills' = Append(fills, [side |-> side, price |-> price,
                               qty |-> qty, fee |-> fee])
    /\ UNCHANGED <<reporting, left, matches, report>>

(* _report: nothing to say without fills. *)
StartReport ==
    /\ ~reporting
    /\ fills # <<>>
    /\ reporting' = TRUE
    /\ left' = Quantity
    /\ matches' = <<>>
    /\ UNCHANGED <<fills, report>>

(* Mutant: only fills of equal remainder are matched. *)
MatchClosestWhole ==
    /\ reporting
    /\ Open # {}
    /\ LET p == BestPair
       IN  /\ left[p[1]] = left[p[2]]
           /\ matches' = Append(matches, [buy |-> p[1], sell |-> p[2],
                                          qty |-> left[p[1]]])
           /\ left' = [left EXCEPT ![p[1]] = 0, ![p[2]] = 0]
    /\ UNCHANGED <<fills, reporting, report>>

MatchClosest ==
    /\ reporting
    /\ Open # {}
    /\ LET p == BestPair
           qty == Smaller(left[p[1]], left[p[2]])
       IN  /\ matches' = Append(matches, [buy |-> p[1], sell |-> p[2], qty |-> qty])
           /\ left' = [left EXCEPT ![p[1]] = @ - qty, ![p[2]] = @ - qty]
    /\ UNCHANGED <<fills, reporting, report>>

(* Mutant: the two rests are swapped. *)
EndReportSwapped(D) ==
    /\ reporting
    /\ Open = {}
    /\ reporting' = FALSE
    /\ report' = [fills |-> Len(fills), completed |-> Len(matches), profit |-> 0,
                  buyLeft |-> SumFunctionOnSet(left, Of("SELL")),
                  sellLeft |-> SumFunctionOnSet(left, Of("BUY"))]
    /\ UNCHANGED <<fills, left, matches>>

EndReport(D) ==
    /\ reporting
    /\ Open = {}
    /\ reporting' = FALSE
    /\ report' = [fills |-> Len(fills),
                  completed |-> Len(matches),
                  profit |-> SumFunction([m \in DOMAIN matches |-> NetProfit(D, matches[m])]),
                  buyLeft |-> SumFunctionOnSet(left, Of("BUY")),
                  sellLeft |-> SumFunctionOnSet(left, Of("SELL"))]
    /\ UNCHANGED <<fills, left, matches>>
=============================================================================
