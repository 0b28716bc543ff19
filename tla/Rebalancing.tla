------------------------------ MODULE Rebalancing ------------------------------
(***************************************************************************)
(* The arithmetic of a paper rebalance, on exact integers: what            *)
(* PortfolioOptimizer may answer, the turnover and decision of             *)
(* TargetAllocator, the orders of RebalancePlanner and the holdings that   *)
(* PaperExecutor leaves.                                                   *)
(*                                                                         *)
(* A target weight is a multiple of 1/Parts.  A portfolio is a function    *)
(* from its tickers to records [qty, price]: the price is the one at which *)
(* the row was last valued, so that qty * price is the stored market_value.*)
(* The stored weights are a record W: that of ticker t is W.of[t]/W.unit.  *)
(* Neither W nor total, portfolios.total_value, is derived from the        *)
(* holdings here: they are columns of their own, written by themselves.    *)
(***************************************************************************)
EXTENDS Sums, Integers, FiniteSets

CONSTANTS
    Parts,       \* target weights are multiples of 1/Parts
    Grid,        \* the target weights an optimal solution may have
    MaxWeight,   \* OptimizationConstraints.max_weight, in parts
    Significant, \* RebalancePlanner.significance_threshold_value
    Threshold    \* TargetAllocator.rebalance_threshold, in percent

ASSUME PartsAssumption == Parts \in Nat \ {0} /\ Grid \subseteq 0..Parts
ASSUME SignificantAssumption == Significant \in Nat \ {0}

Magnitude(n) == IF n < 0 THEN -n ELSE n

MarketValue(h) == [t \in DOMAIN h |-> h[t].qty * h[t].price]
Base(h) == Total(MarketValue(h), DOMAIN h)

\* PortfolioOptimizer.optimize: the solver (external) finds any feasible
\* weights, or fails; _fallback_equal_weight ignores max_weight.
EqualWeights(S) == [t \in S |-> Parts \div Cardinality(S)]
Feasible(S) == {w \in [S -> {g \in Grid : g <= MaxWeight}] : Total(w, S) = Parts}
OptimalWeights(S) == Feasible(S) \cup {EqualWeights(S)}

\* TargetAllocator.allocate: the sum of |target - current|, over ChangeUnit.
TotalChange(W, target) ==
    Total([t \in DOMAIN target |-> Magnitude(target[t] * W.unit - Parts * W.of[t])], DOMAIN target)
ChangeUnit(W) == Parts * W.unit

\* turnover = change / 2 >= rebalance_threshold
RebalanceRequired(W, target) == 100 * TotalChange(W, target) >= 2 * Threshold * ChangeUnit(W)

\* RebalancePlanner.generate_plan: target_value - current_value.
DeltaValue(W, target, total, t) ==
    (target[t] * total) \div Parts - (W.of[t] * total) \div W.unit

\* Mutated form of Order: the quantity is taken at the stored price.
OrderAtStoredPrice(h, W, target, total, price, t) ==
    LET delta == DeltaValue(W, target, total, t) IN
    IF Magnitude(delta) < Significant THEN [side |-> "HOLD", qty |-> 0]
    ELSE [side |-> IF delta > 0 THEN "BUY" ELSE "SELL", qty |-> Magnitude(delta) \div h[t].price]

\* Insignificant changes are held; the others become orders at today's price.
Order(h, W, target, total, price, t) ==
    LET delta == DeltaValue(W, target, total, t) IN
    IF Magnitude(delta) < Significant THEN [side |-> "HOLD", qty |-> 0]
    ELSE [side |-> IF delta > 0 THEN "BUY" ELSE "SELL", qty |-> Magnitude(delta) \div price[t]]

Plan(h, W, target, total, price) == [t \in DOMAIN h |-> Order(h, W, target, total, price, t)]

\* Mutated form of Executed: a sale is not capped at the holding.
ExecutedUncapped(h, plan, price) ==
    [t \in DOMAIN h |->
        CASE plan[t].side = "HOLD" -> h[t]
          [] plan[t].side = "BUY"  -> [qty |-> h[t].qty + plan[t].qty, price |-> price[t]]
          [] plan[t].side = "SELL" -> [qty |-> h[t].qty - plan[t].qty, price |-> price[t]]]

\* PaperExecutor.execute with the costs of 0 bps that RebalanceService gives
\* it: held tickers keep their stored price, a sale ends at 0 at the least.
Executed(h, plan, price) ==
    [t \in DOMAIN h |->
        CASE plan[t].side = "HOLD" -> h[t]
          [] plan[t].side = "BUY"  -> [qty |-> h[t].qty + plan[t].qty, price |-> price[t]]
          [] plan[t].side = "SELL" -> [qty |-> Max({0, h[t].qty - plan[t].qty}), price |-> price[t]]]

================================================================================
