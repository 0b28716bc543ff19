------------------------------ MODULE Computations ------------------------------
(***************************************************************************)
(* The modules of one computation each, side by side: in a behaviour one   *)
(* of them runs, and the others stay in an initial state.                  *)
(***************************************************************************)
EXTENDS MarketStress, Rebalancing

\* The constants of PaperTrading, with those of Rebalancing.
CONSTANTS Assets, Quantities, Prices, GrossLimits, StockLimit, SectorLimit, MinNotional

\* Those of PipelineBacktest, with a threshold and a grid of its own.
CONSTANTS BacktestThreshold, BacktestGrid, Universe, Cash, Initial, LastDate, Closes, CostRate

\* Those of WalkForward.
CONSTANTS Variants, LastReturnDay, DaysPerMonth, ReturnDates, Frames, Whole

\* Those of Scheduler.
CONSTANTS Workers, Jobs, Portfolios, SlotsPerDay, Cron, LastDay

ASSUME BacktestAssumption ==
    /\ IsFiniteSet(Universe) /\ Cash \notin Universe
    /\ BacktestGrid \subseteq 0..Parts /\ Closes \subseteq Nat
    /\ Initial \in Nat /\ LastDate \in Nat /\ CostRate \in Nat
ASSUME PaperAssumption ==
    /\ IsFiniteSet(Assets)
    /\ Quantities \subseteq Nat /\ Prices \subseteq Nat \ {0} /\ MinNotional \in Nat \ {0}
\* Quantities are counted in a unit so small that a target value of theirs is a
\* whole quantity at every price: the code divides decimals.
ASSUME UnitsAssumption == \A q \in Quantities, p \in Prices : q % (Parts * p) = 0
ASSUME WalkAssumption ==
    /\ LastReturnDay \in Nat \ {0} /\ DaysPerMonth \in Nat \ {0} /\ Whole \in Nat
    /\ ReturnDates \subseteq SUBSET (1..LastReturnDay)
    /\ \A f \in Frames : DOMAIN f \subseteq 1..LastReturnDay /\ \A s \in DOMAIN f : f[s] \in Int
    /\ Variants \in Seq({Variants[i] : i \in DOMAIN Variants}) /\ Variants # <<>>
ASSUME SchedulerAssumption == SlotsPerDay \in Nat \ {0} /\ LastDay \in Nat \ {0}

VARIABLES
    job,
    held, weight, total, target, price, orders, copy, at,
    invested, values, entries, bases, stage,
    dates, weights, todo, seen, month, current, signal, rebalance, records, results,
    flushed, stored, status,
    slot, listed, running, due, batch, row

paperVariables == <<held, weight, total, target, price, orders, copy, at>>
backtestVariables == <<invested, values, entries, bases, stage>>
walkVariables == <<dates, weights, todo, seen, month, current, signal, rebalance, records,
                   results, flushed, stored, status>>
schedulerVariables == <<slot, listed, running, due, batch, row>>
jobVars == <<job, vars, paperVariables, backtestVariables, walkVariables, schedulerVariables>>

Paper == INSTANCE PaperTrading WITH snapshot <- copy
Backtest == INSTANCE PipelineBacktest WITH
        Threshold <- BacktestThreshold, Grid <- BacktestGrid,
        current <- invested, records <- entries
Walk == INSTANCE WalkForward WITH LastDay <- LastReturnDay
Sched == INSTANCE Scheduler

\* The lease of one run of the scheduler's batches.
RunsLease(k) == INSTANCE RunLease WITH
        Calls <- Workers, status <- row[k], holders <- Sched!Executors(k)

\* One initial state of a module that does not run.
IdleStress == market = [t \in Tickers |-> CHOOSE s \in Series : TRUE]
IdlePaper ==
    /\ held = CHOOSE h \in Paper!Holdings : TRUE
    /\ total = 0 /\ weight = [t \in DOMAIN held |-> 0]
IdleWalk ==
    /\ dates = CHOOSE D \in ReturnDates : TRUE
    /\ todo = <<Walk!Single>>
    /\ weights = [v \in {Walk!Single} |-> CHOOSE f \in Frames : TRUE]

JobInit ==
    /\ job \in {"stress", "paper", "backtest", "walk", "scheduler"}
    /\ (job # "stress" => IdleStress) /\ Init
    /\ (job # "paper" => IdlePaper) /\ Paper!Init
    /\ Backtest!Init
    /\ (job # "walk" => IdleWalk) /\ Walk!Init
    /\ (job # "scheduler" => listed = {}) /\ Sched!Init

JobNext ==
    /\ UNCHANGED job
    /\ \/ job = "stress" /\ Next
          /\ UNCHANGED <<paperVariables, backtestVariables, walkVariables, schedulerVariables>>
       \/ job = "paper" /\ Paper!Next
          /\ UNCHANGED <<vars, backtestVariables, walkVariables, schedulerVariables>>
       \/ job = "backtest" /\ Backtest!Next
          /\ UNCHANGED <<vars, paperVariables, walkVariables, schedulerVariables>>
       \/ job = "walk" /\ Walk!Next
          /\ UNCHANGED <<vars, paperVariables, backtestVariables, schedulerVariables>>
       \/ job = "scheduler" /\ Sched!Next
          /\ UNCHANGED <<vars, paperVariables, backtestVariables, walkVariables>>

JobSpec == JobInit /\ [][JobNext]_jobVars

--------------------------------------------------------------------------------
\* Every variable of the modules has its type.
WellTyped == TypeOK /\ Paper!TypeOK /\ Backtest!TypeOK /\ Walk!TypeOK /\ Sched!TypeOK

\* PaperTrading: a sale of more than is held needs a fallen price or a weight
\* and total that presume too much.
OversoldForCause == Paper!OversoldForCause

\* PaperTrading: the snapshot tells what the trades made of the holdings.
SnapshotFollowsTrades == Paper!SnapshotFollowsTrades

\* PipelineBacktest: a gross return is over the value before its record's date.
GrossUsesPrecedingValue == Backtest!GrossUsesPrecedingValue

\* WalkForward: what is stored covers the dates it should, by earlier signals.
RecordsAreComplete == Walk!RecordsAreComplete

\* Scheduler: a batch leaves no portfolio behind that was not started or logged.
NoPortfolioPassedOver == Sched!NoPortfolioPassedOver

================================================================================
