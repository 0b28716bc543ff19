------------------------------ MODULE PaperTrading ------------------------------
(***************************************************************************)
(* The two routes from target weights to trades and a snapshot: the paper  *)
(* rebalance (RebalanceService: the prices of today, weights and total as  *)
(* they were stored) and the portfolio control of the scheduled pipeline   *)
(* (PortfolioControlService: stored prices throughout).  Neither touches   *)
(* the holdings: both leave an event with its trades and a snapshot.       *)
(*                                                                         *)
(* Weights and total are what the last writers of each row left.           *)
(* _recalculate_weights commits the total and then every weight by itself, *)
(* from the holdings that its call read: a call that dies or overlaps      *)
(* another leaves rows that belong to different totals (HoldingWeights has *)
(* its steps).  Here they are an initial state, and so is the holding that *)
(* add_holding of the repository left without any recalculation.           *)
(*                                                                         *)
(* FeedbackChain has the transactions of both routes; this module has      *)
(* their quantities.  A ticker has one row.                                *)
(***************************************************************************)
EXTENDS Rebalancing

CONSTANTS
    Assets,      \* the tickers a portfolio can hold
    Quantities,  \* quantities of a holding
    Prices,      \* prices, stored and current
    GrossLimits, \* ExposureState.target_gross_exposure, in parts
    StockLimit,  \* OptimizerConfig.max_stock_weight, in parts
    SectorLimit, \* OptimizerConfig.max_sector_exposure, in parts
    MinNotional  \* RebalanceEngine.minimum_trade_notional

VARIABLES
    held,     \* the holdings, as stored
    weight,   \* their stored weights, in parts
    total,    \* portfolios.total_value
    target,   \* target weights
    price,    \* prices the orders are made at
    orders,   \* the orders or instructions
    snapshot, \* PortfolioSnapshotModel.holdings
    at        \* where the request is

paperVars == <<held, weight, total, target, price, orders, snapshot, at>>

Holdings == UNION {[S -> [qty : Quantities, price : Prices]] : S \in (SUBSET Assets) \ {{}}}
Empty == [t \in {} |-> 0]
Weights == [of |-> weight, unit |-> Parts]

\* The market value of the rows S.
Value(S) == Total(MarketValue(held), S)

TypeOK ==
    /\ held \in Holdings
    /\ weight \in [DOMAIN held -> 0..Parts] /\ total \in 0..Base(held)
    /\ DOMAIN target \subseteq DOMAIN held /\ \A t \in DOMAIN target : target[t] \in 0..Parts
    /\ DOMAIN price \subseteq DOMAIN held /\ \A t \in DOMAIN price : price[t] \in Prices
    /\ \A t \in DOMAIN orders : orders[t].side \in {"BUY", "SELL", "HOLD"} /\ orders[t].qty \in Nat
    /\ \A t \in DOMAIN snapshot : snapshot[t].qty \in Nat /\ snapshot[t].price \in Prices
    /\ at \in {"new", "decided", "priced", "paper", "control", "refused"}

\* Rows are only added: the calls that read n of them read the first n.
Ages == {age \in [DOMAIN held -> 1..Cardinality(DOMAIN held)] :
            \A s, t \in DOMAIN held : age[s] = age[t] => s = t}
FirstRows(age, n) == {t \in DOMAIN held : age[t] <= n}
Totals(age) == {Value(FirstRows(age, n)) : n \in 1..Cardinality(DOMAIN held)}

\* The share of row t that a call may have written which had read the row, or
\* the 0 that the row was added with.  Only shares of whole parts are
\* considered: all are where every total divides Parts times every value.
ReadWith(age, t) == {Value(FirstRows(age, n)) : n \in age[t]..Cardinality(DOMAIN held)}
Shares(age) ==
    [t \in DOMAIN held |->
        LET value == Parts * MarketValue(held)[t] IN
        {0} \cup (0..Parts \cap
                     {value \div v : v \in {u \in ReadWith(age, t) : u > 0 /\ value % u = 0}})]
StoredWeights(age) ==
    LET shares == Shares(age) IN
    {f \in [DOMAIN held -> UNION {shares[t] : t \in DOMAIN held}] :
        \A t \in DOMAIN held : f[t] \in shares[t]}

\* The total is that of any call, or 0 as create_portfolio leaves it.
Init ==
    /\ held \in Holdings
    /\ \E s \in UNION {StoredWeights(age) \X ({0} \cup Totals(age)) : age \in Ages} :
          weight = s[1] /\ total = s[2]
    /\ target = Empty /\ price = Empty /\ orders = Empty /\ snapshot = Empty
    /\ at = "new"

--------------------------------------------------------------------------------
\* SignalEvaluationService.evaluate, its optimization and allocation.
Evaluate ==
    /\ at = "new"
    /\ target' \in OptimalWeights(DOMAIN held)
    /\ at' = IF RebalanceRequired(Weights, target') THEN "decided" ELSE "refused"
    /\ UNCHANGED <<held, weight, total, price, orders, snapshot>>

\* get_latest_price for every holding: the last close at or before the date.
FetchPrices ==
    /\ at = "decided"
    /\ price' \in [DOMAIN held -> Prices]
    /\ at' = "priced"
    /\ UNCHANGED <<held, weight, total, target, orders, snapshot>>

\* No price within the last fourteen days, or no provider.
FetchFails ==
    /\ at = "decided"
    /\ at' = "refused"
    /\ UNCHANGED <<held, weight, total, target, price, orders, snapshot>>

\* Plan, execution and what is persisted of them.
Rebalance ==
    /\ at = "priced"
    /\ orders' = Plan(held, Weights, target, total, price)
    /\ snapshot' = Executed(held, orders', price)
    /\ at' = "paper"
    /\ UNCHANGED <<held, weight, total, target, price>>

--------------------------------------------------------------------------------
\* PortfolioOptimizer of portfolio/: without sectors every ticker is of the
\* sector UNKNOWN.  Signs, risk and turnover penalty choose among these.
ControlWeights(S, gross) ==
    {w \in [S -> {g \in Grid : g <= StockLimit}] :
        Total(w, S) <= Min({gross, Cardinality(S) * StockLimit, SectorLimit})}

\* RebalanceEngine.calculate: what is below the minimum notional is left out.
Instruction(w, t) ==
    LET notional == DeltaValue(Weights, w, total, t) IN
    IF Magnitude(notional) < MinNotional THEN [side |-> "HOLD", qty |-> 0]
    ELSE [side |-> IF notional > 0 THEN "BUY" ELSE "SELL",
          qty |-> Magnitude(notional) \div held[t].price]

\* Mutated form of Claimed: the quantity is not divided by the price.
ClaimedValue(w, t) == [qty |-> (w[t] * total) \div Parts, price |-> held[t].price]

\* The snapshot's holding of a ticker: target_weight * total_value / price,
\* whether or not a trade was made.
Claimed(w, t) ==
    [qty |-> (w[t] * total) \div (Parts * held[t].price), price |-> held[t].price]

\* optimize_and_rebalance of an evaluation that has all its state.
Control ==
    /\ at = "new"
    /\ total > 0
    /\ \E gross \in GrossLimits : \E w \in ControlWeights(DOMAIN held, gross) :
        /\ target' = w
        /\ orders' = [t \in DOMAIN held |-> Instruction(w, t)]
        /\ snapshot' = [t \in DOMAIN held |-> Claimed(w, t)]
    /\ price' = [t \in DOMAIN held |-> held[t].price]
    /\ at' = "control"
    /\ UNCHANGED <<held, weight, total>>

\* "portfolio_value must be positive", or the solver fails.
ControlRefused ==
    /\ at = "new"
    /\ at' = "refused"
    /\ UNCHANGED <<held, weight, total, target, price, orders, snapshot>>

Next == Evaluate \/ FetchPrices \/ FetchFails \/ Rebalance \/ Control \/ ControlRefused

Spec == Init /\ [][Next]_paperVars

--------------------------------------------------------------------------------
Traded(t) ==
    CASE orders[t].side = "BUY" -> orders[t].qty
      [] orders[t].side = "SELL" -> -orders[t].qty
      [] orders[t].side = "HOLD" -> 0

Oversold(t) == held[t].qty + Traded(t) < 0

\* What the stored weight takes the holding for, and how far that is from its
\* stored market value.  Both are equal after a call that ran alone.
Presumed(t) == (weight[t] * total) \div Parts
Stale(t) == Presumed(t) > MarketValue(held)[t]
Drift(t) == Magnitude(MarketValue(held)[t] - Presumed(t))

\* Neither route compares a sale with the quantity held.  The paper route sells
\* more than that exactly when the holding is worth less today than what the
\* plan takes out of it.  Either route does so for a cause only: the price has
\* fallen, or the stored weight and total presume more than the holding is
\* worth.  The trade books the full quantity even then.
OversoldForCause ==
    /\ at = "paper" => \A t \in DOMAIN held :
          Oversold(t) <=> /\ orders[t].side = "SELL"
                          /\ held[t].qty * price[t] < -DeltaValue(Weights, target, total, t)
    /\ at \in {"paper", "control"} => \A t \in DOMAIN held :
          Oversold(t) => price[t] < held[t].price \/ Stale(t)

\* The snapshot tells what the trades made of the holdings: exactly on the
\* paper route, and on the control route, whose snapshot is computed from the
\* targets, within the least trade and the drift of the stored weight.  It is
\* as near to its target where the price has not moved since the holding was
\* valued.  The paper route misses the target of what it trades by exactly the
\* difference between the holding's value today and the presumed one.
SnapshotFollowsTrades ==
    at \in {"paper", "control"} => \A t \in DOMAIN held :
        LET least == IF at = "paper" THEN Significant ELSE MinNotional
            after == Max({0, held[t].qty + Traded(t)})
            goal == (target[t] * total) \div Parts
            worth == snapshot[t].qty * snapshot[t].price
        IN  /\ snapshot[t].qty >= 0
            /\ at = "paper" => snapshot[t].qty = after
            /\ at = "control" =>
                  Magnitude(after - snapshot[t].qty) * price[t] < least + Drift(t)
            /\ price[t] = held[t].price => Magnitude(worth - goal) < least + Drift(t)
            /\ (at = "paper" /\ orders[t].side # "HOLD" /\ ~Oversold(t)) =>
                  worth = goal + held[t].qty * price[t] - Presumed(t)

================================================================================
