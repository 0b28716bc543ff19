---------------------------- MODULE PipelineBacktest ----------------------------
(***************************************************************************)
(* PipelineBacktester: month by month, the production services evaluate    *)
(* and rebalance an isolated portfolio; the backtester keeps the holdings  *)
(* it values in a dictionary of its own, charges the costs there, and      *)
(* pairs its records with the portfolio values at the end.                 *)
(*                                                                         *)
(* A date may be skipped: whatever evaluation or rebalance raises, its     *)
(* value is still recorded.  The portfolio and its rows are written        *)
(* through the repository, so that portfolios.total_value keeps its        *)
(* default of 0; the planner gets that value.                              *)
(***************************************************************************)
EXTENDS Rebalancing, Sequences

CONSTANTS
    Universe,    \* PipelineBacktestConfig.universe
    Cash,        \* the holding CASH
    Initial,     \* its initial quantity
    LastDate,    \* bound: evaluation dates are 1..LastDate
    Closes,      \* prices of the provider
    CostRate     \* transaction costs and slippage, in percent

VARIABLES
    current, \* current_holdings
    values,  \* portfolio_value_series, in the order of the dates
    records, \* PipelineEvaluationRecords
    bases,   \* for every record the index of the value that its cost is divided by
    stage    \* "running", or how the backtest ended

backtestVars == <<current, values, records, bases, stage>>

Positions == Universe \cup {Cash}
Date == Len(values) + 1
Record == [date : 1..LastDate, cost : Nat, rebalanced : BOOLEAN, source : 0..LastDate]

TypeOK ==
    /\ current \in [Positions -> Int]
    /\ values \in Seq(Int) /\ Len(values) <= LastDate
    /\ records \in Seq(Record) /\ Len(records) <= Len(values)
    /\ bases \in Seq(0..LastDate)
    /\ stage \in {"running", "completed", "empty"}

Init ==
    /\ current = [t \in Positions |-> IF t = Cash THEN Initial ELSE 0]
    /\ values = <<>> /\ records = <<>> /\ bases = <<>>
    /\ stage = "running"

--------------------------------------------------------------------------------
\* get_price: the last close of the preloaded bars; CASH is always 1.
PriceOf(close, t) == IF t = Cash THEN 1 ELSE close[t]
Worth(c, close) == Total([t \in Positions |-> c[t] * PriceOf(close, t)], Positions)

\* _sync_holdings: the rows that the evaluation reads.
Synced(close) == [t \in Positions |-> [qty |-> current[t], price |-> PriceOf(close, t)]]

\* The weights that _sync_holdings writes with them.
SyncedWeights(h) == [of |-> MarketValue(h), unit |-> IF Base(h) > 0 THEN Base(h) ELSE 1]

\* portfolios.total_value: create_portfolio leaves the default, and neither
\* add_holding of the repository nor _sync_holdings writes it.
StoredTotal(close) == 0

\* start_val * turnover * (transaction_cost_bps + slippage_bps)
CostOf(h, w) ==
    (Base(h) * TotalChange(SyncedWeights(h), w) * CostRate) \div (200 * ChangeUnit(SyncedWeights(h)))

\* The feedback row of the latest date, this one's included.
LatestFeedback(d) == Max({0} \cup {records[i].date : i \in {j \in DOMAIN records : records[j].rebalanced}}
                             \cup d)

\* AssetOptimizationInput: a current weight lies between 0 and 1.
Evaluable == \A t \in Positions : current[t] >= 0

\* The evaluation or the rebalance raises: the portfolio is held and valued.
SkipDate(close) ==
    /\ values' = Append(values, Worth(current, close))
    /\ UNCHANGED <<current, records, bases, stage>>

\* The decision is HOLD.
HoldDate(close) ==
    /\ Evaluable
    /\ \E w \in OptimalWeights(Positions) : ~RebalanceRequired(SyncedWeights(Synced(close)), w)
    /\ values' = Append(values, Worth(current, close))
    /\ records' = Append(records, [date |-> Date, cost |-> 0, rebalanced |-> FALSE,
                                   source |-> LatestFeedback({})])
    /\ UNCHANGED <<current, bases, stage>>

\* execute_paper_rebalance at the provider's prices, which has one for a ticker
\* CASH too; then the cost is taken out of CASH.
RebalanceDate(close) ==
    /\ Evaluable
    /\ \E w \in OptimalWeights(Positions), quote \in [Positions -> Closes] :
        LET h == Synced(close)
            after == Executed(h, Plan(h, SyncedWeights(h), w, StoredTotal(close), quote), quote)
            cost == CostOf(h, w)
        IN  /\ RebalanceRequired(SyncedWeights(h), w)
            /\ current' = [t \in Positions |->
                               after[t].qty - (IF t = Cash THEN cost ELSE 0)]
            /\ values' = Append(values, Worth(current', close))
            /\ records' = Append(records, [date |-> Date, cost |-> cost, rebalanced |-> TRUE,
                                           source |-> LatestFeedback({Date})])
    /\ UNCHANGED <<bases, stage>>

\* Mutated form of BaseIndex: one value further back.
BaseIndexOff(i) == IF i <= 2 THEN 0 ELSE i - 2

\* values.iloc[i - 1] for the record with index i, counted from 0.
BaseIndex(i) == IF i = 1 THEN 0 ELSE i - 1

\* After the last date: the returns of the records, or an error without any.
Finish ==
    /\ Len(values) = LastDate
    /\ IF records = <<>>
       THEN stage' = "empty" /\ UNCHANGED bases
       ELSE stage' = "completed" /\ bases' = [i \in DOMAIN records |-> BaseIndex(i)]
    /\ UNCHANGED <<current, values, records>>

Next ==
    /\ stage = "running"
    /\ \/ /\ Len(values) < LastDate
          /\ \E close \in [Universe -> Closes] :
                SkipDate(close) \/ HoldDate(close) \/ RebalanceDate(close)
       \/ Finish

Spec == Init /\ [][Next]_backtestVars

--------------------------------------------------------------------------------
CostUntil(d) == Total([i \in DOMAIN records |-> records[i].cost],
                      {i \in DOMAIN records : records[i].date <= d})

\* docs/architecture/backtesting.md: "Paper rebalance executes simulated trades
\* and applies configurable transaction costs": a date whose rebalance is
\* charged has changed the quantity of some ticker.
RebalancesTrade ==
    [][(Len(records') > Len(records) /\ records'[Len(records')].cost > 0) =>
           \E t \in Universe : current'[t] # current[t]]_backtestVars

\* It never does.  With a stored total of 0 the planner turns every target into
\* an order of value 0, and none is significant: whatever the targets, the
\* decisions and the prices are, the backtest stays in cash and its value falls
\* by the costs it charges for trades that were not made.
OnlyCostsMoveTheValue ==
    /\ \A t \in Universe : current[t] = 0
    /\ \A d \in DOMAIN values : values[d] = Initial - CostUntil(d)

\* The gross return of a record adds its cost back over the value before its
\* date as long as no earlier date was skipped; after a skip it takes an older
\* value, and never a later one.  A net return always takes the value before.
GrossUsesPrecedingValue ==
    stage = "completed" =>
        \A i \in DOMAIN records : i > 1 =>
            /\ bases[i] <= records[i].date - 1
            /\ bases[i] = records[i].date - 1 <=>
                  {records[j].date : j \in 1..i} = 1..records[i].date

================================================================================
