# Veyra in TLA+

TLA+ models of Veyra's backend (`backend/`, `quant_engine/`, `database/`,
`execution/`), checked with TLC and, where stated, proved with TLAPS. The models
are written from the code; file names below are relative to the repository.

## The system

Veyra evaluates portfolios once or several times a day. A scheduler thread in
each API process starts batches; a batch runs the *scheduled pipeline* for every
portfolio; a run is claimed in the *ledger* table so that several processes do
not execute it twice. A full run commits three bundles of rows, one per stage:
volatility states and regime; signals and risk; targets, rebalance event and
snapshot. API requests run beside it: holdings are added, evaluations of any
id and date requested, portfolios optimized, paper rebalances executed. All of them
share the database and nothing else (except a process-wide market-data provider with its cache).

| part | code | state | operations | interacts with |
|---|---|---|---|---|
| ledger | `database/repositories/scheduled_run_repo.py` | one `scheduled_runs` row per (type, portfolio, date) | `claim`, `attach_evaluation`, `complete`, `fail` | called by the pipeline of every process |
| pipeline | `backend/operations/pipeline.py` | none of its own | `run_full`, `run_volatility_refresh` | ledger, the three stage services |
| scheduler | `backend/operations/scheduler.py` | `_started`, jobs | `start`, `stop`, `_run_batch` | pipeline, one session per portfolio |
| volatility evaluation | `backend/services/volatility_evaluation_service.py`, `quant_engine/regimes/` | `evaluations`, `volatility_states`, `regime_states` | `evaluate`, `_mark_failed` | market data, feedback rows, holdings |
| signal evaluation | `backend/services/signal_evaluation_service.py` | six tables written as one bundle | `evaluate` | volatility evaluation, holdings |
| portfolio control | `backend/services/portfolio_control_service.py` | targets, event, trades, snapshot, feedback | `optimize_and_rebalance`, `apply_feedback` | the bundles before it |
| paper rebalance | `backend/services/rebalance_service.py`, `execution/paper/` | event, trades, snapshot, feedback | `execute_paper_rebalance`, planner, executor | re-evaluates signals; next evaluation reads its feedback |
| backtests | `quant_engine/backtest/`, `backend/services/backtest_service.py` | an isolated portfolio; `backtest_*` tables | `BacktestEngine.run`, ablations, `PipelineBacktester.run` | the production services, on a database of its own |
| holdings | `backend/services/portfolio_service.py`, `portfolio_upload_service.py` | `portfolios`, `holdings` | `add_holding`, upload | read by every stage |
| market data | `backend/operations/market_data.py` | cache, throttle slot, thread pool | `get_history` | shared by all threads of a process |
| numerics | `quant_engine/` (volatility, factors, features, risk, signals, optimization, backtest) | none | pure functions | the services |
| rest | API, auth, health, metrics, migrations, frontend | - | - | - |

What is hard in it: calls of several processes between the statements of
`claim()`; calls that die, or live longer than the lock timeout; stages that
each read the holdings anew while they reuse rows of an earlier attempt; two
evaluations of one day; backfills and paper rebalances in any order of dates;
the feedback that a rebalance passes to later evaluations; the shared cache and
throttle. `PROJECT.json` lists every such hazard at its line, with the
properties that watch it.

## Modules

| module | models |
|---|---|
| `ScheduledRuns` | the ledger row and the calls that compete for it, one action per database round trip |
| `RunLease` | what the ledger is for: a lease on a run key. `ScheduledRuns` refines it, and so do the batches of `Scheduler` for each of their keys |
| `ScheduledPipeline` | a full evaluation: instantiates the ledger and adds the rows that its stages write |
| `StressHistory` | the history on which a day's regime is classified, for all evaluations of a portfolio |
| `FeedbackChain` | paper rebalances, posted outcomes and evaluations of all dates: the feedback rows and the thresholds made of them |
| `HoldingWeights` | holdings added by several sessions, and the row-by-row recalculation of the weights |
| `MarketData` | the shared market-data provider: cache, throttle, thread pool, timeouts, retries, fallback |
| `Scheduler` | the scheduler of every worker: triggers, batches, and the claims of their runs |
| `MarketStress` | one evaluation's computation: closes, fits, aggregation, boundaries, regime, and what it does to signals and exposure |
| `Sums` | `sum(...)` over rows or tickers |
| `Rebalancing` | the arithmetic of optimizer, allocator, planner and paper executor (operators only) |
| `PaperTrading` | from targets to trades and snapshot, by paper rebalance and by portfolio control; extends `Rebalancing` |
| `PipelineBacktest` | the backtest that drives the production services; extends `Rebalancing` |
| `WalkForward` | `BacktestEngine` over the variants of an ablation, and what is persisted of them |
| `Computations` | `MarketStress`, `PaperTrading`, `PipelineBacktest`, `WalkForward` and `Scheduler` side by side: in a behaviour one of them runs (`JobSpec`) |
| `MC*` | symmetry sets and constant values for TLC |
| `*Proofs` | theorems about the module they are named after, seven of them |
| `SumTheorems` | what the proofs need of sums and of least and largest elements |

### `ScheduledRuns`

`row` is the row of one key; `clock` is `datetime.utcnow()`; for every call,
`pc` is its place in `_execute`, `now` the time it took at the top of `claim()`,
`seen` the row it read. `InsertRow`/`InsertConflict` are the savepoint insert,
`ReadRow` is `get_for_schedule` and the `retryable` decision, `Reclaim` and
`LoseReclaim` the conditional UPDATE. `Complete` is the durable COMMIT of
`complete()` and `Return` its acknowledgement: with `LostAcks` the commit may
raise in between, and `_execute` then calls `fail()`. `Crash` is the death of a
process (`scheduler.stop()` does not wait) or a database that cannot be reached.
`updated_at` is compared for equality only and is modelled by a write counter:
that two writes never carry the same microsecond is an assumption.

With `PromptCalls`, time waits for calls to end within their own lock timeout.
The code does not enforce that; the runs and theorems that use it say so.

### `ScheduledPipeline`

Rows are abstracted to the tickers they cover, because which ticker has a row
is what the later stages trip over. `at[c]` is the stage of a call, `held[c]` the
holdings its stage read. Each stage is a read (does the bundle exist?), a
computation that may fail, and one commit that may meet a rival's rows.
`VolatilityPersist` admits any non-empty set of tickers with an estimate: a
ticker whose returns no estimate can be made of is left out by
`quant_engine/volatility/service.py`. `FailRun` is the `except` clause of `_execute`:
it runs after a stage that raised and, with `LostAcks`, after a `complete()` whose
acknowledgement was lost, which makes a whole run FAILED. `VolatilityPersistLost`
is the same for the volatility bundle, whose lost commit `_mark_failed` follows.

A stage fails for one of several reasons (`Reasons`), kept apart because some
pass and others meet every retry: the market data or the database (`outside`, or
`later` once the volatility bundle is there), a rival's rows (`race`); the portfolio's
own rows, which are `unusable` (no holdings; a stress history with two rows of one
day or too few of them; a total, price or volatility of zero) or hold a ticker
`twice`; and what others wrote, a holding without state (`missing`), event or
snapshot in the way (`taken`). `HistoryRefused` and `ControlRefused` may happen in
any attempt, since the rows of other days and the amounts are left out;
`StressHistory` has the first in detail.

The requests of the API claim nothing and may name the scheduled run's own
evaluation id. All that touch these rows are in `Request`:

| request | code | action |
|---|---|---|
| POST `holdings` | `portfolio_service.py:44-76` | `AddHolding`, also of a ticker that is there (`doubled`) |
| POST `volatility/evaluate`, `signals/evaluate`, `rebalance` | `api/volatility.py:79-159`, `api/rebalance.py:34-63`, each by way of `VolatilityEvaluationService.evaluate` | `RequestCreates`, `RequestPersists`, `RequestFails` (`_mark_failed`) |
| POST `rebalance`, its own rows | `rebalance_service.py:54-138` | `PaperRebalance`, or `PaperSnapshot` under another evaluation of the date |
| POST `optimize` | `api/portfolio_control.py:103-127` | `Optimize` of this evaluation, for its own portfolio or for another; `OptimizeAcross` under another evaluation of the date |

A request is one action, its commit. It may have read the tables long before, so
its guard asks only what some earlier state allowed and what the unique keys
admit now: it may commit estimates of a part of the holdings, targets of a part of
the signals, and a failure beside rows that were committed meanwhile. That loses
no outcome, because holdings and bundles only grow, and nothing calls
`remove_holding` or deletes a portfolio or an evaluation. No request writes the
signal bundle: POST `signals/evaluate` is the route of `api/volatility.py`, whose
service writes volatility rows only; its router is mounted before that of
`api/signals.py`, to whose service it falls back only for a portfolio that does
not exist. A request that creates the run's `evaluations` row is taken to name the
portfolio and date the id was made of; with others, every later
`_resolve_evaluation` would refuse the row.

`why` and `disturbed` are history variables.

### `StressHistory`

An evaluation is a pair of a kind (each kind has its own evaluation id for a
day) and a day. It reads the persisted rows up to its day, the latest feedback
of an earlier day, builds its window, and persists its row; other evaluations
and paper rebalances commit in between. Scores are left out: the window is the
set of days it is made of. Its `NoLookahead` is about the rows a regime is
classified on; what has gone into a threshold that is handed on from row to row
is the subject of `FeedbackChain`.

### `FeedbackChain`

Requests are evaluations, paper rebalances and outcomes posted to
`apply_feedback`; control stages write events and snapshots beside them. A
threshold is represented by the sequence of observations folded into it, so
that "used twice" and "of a later date" can be said. `ReadSnapshot`,
`ReadPrevious`, `ReadBaseline` and `ReadExisting` are the queries of
`execute_paper_rebalance` in their order. Sessions do not autoflush
(`database/session.py`): snapshot and feedback row reach the database at the
commit, and `KeysFree` says which unique keys are then in the way.
`feedback_updates` has none. The row of a paper rebalance holds a threshold
only, which `apply_feedback` rejects as a `SystemState`; `PostRead` models that.
`evaluations.decision`, which the API only displays, is left out.

### `HoldingWeights`

A client is a session: one that creates the portfolio without holdings, an
`add_holding` call, or an upload, which creates the portfolio and calls
`add_holding` once for each holding. Calls on another user's portfolio end
before they write anything. A weight is represented by the total it was divided by
(`base`), because a stored `market_value` never changes. `known` is the
session's identity map: SQLAlchemy writes a column only if its value differs
from the loaded one, so a session that does not see a rival's weight does not
overwrite it. `Die` is the death of a call between two commits.

### `MarketData`

A client is a thread that calls `get_history`; the provider object is shared by
the threads of a process. Times are what is left of them, counted down by
`Tick`. `Throttle` reserves the slot under the lock and the sleep follows
outside. `Submit` starts the wait at once, so a call that waits for a worker
uses up its own timeout; `TimeoutRunning` leaves the worker occupied
(`abandoned`), since `cancel()` does not stop a running call. A provider in
`Healthy` answers a call within the timeout of being called in time; the others
may raise, or hang for ever. The bars themselves are left out: a response that
is empty or stale counts as raised.

### `Scheduler`

A worker is an API process with a `SchedulerService`; a job is one of its two
cron jobs. `BeginBatch` takes the date and lists the portfolios once; `Claim`,
`Skip`, `RunCompletes` and `RunRaises` are one turn of the loop in `_run_batch`,
which catches what a run raises. APScheduler is external: it coalesces, drops
what overruns `max_instances` or `misfire_grace_time`, and nothing else is
assumed. `claim()` is one step. That is justified from both sides, for calls that
end in time: the calls of `ScheduledRuns` implement `RunLease`, and so do the
batches of all workers (`RunsLease(k)` in `Computations`, whose holders are the
`Executors` of the run).

### `MarketStress`

Closes are integers (their logarithms), so that returns are exact. `FitAll` is
`VolatilityService.evaluate`: which tickers are usable follows from their bars;
the GARCH optimizer is external and may return any parameters or fail, and
`Fit` validates them. `Aggregate` is the median over the eligible ratios with
both coverage requirements. `Classify` is `RegimeService.evaluate`: a rolling or
fixed strategy, `np.quantile`'s linear interpolation in quarters of a position,
the classifier and the validators of its results. The sort in `np.quantile` is
modelled by what it puts at each place (`Sorted`: at place k the least score that k
scores do not exceed), which `MCComputations` compares with a sort. `Attenuation`,
`ControlOutput`, `DecisionState` and `Exposure` are the tables by regime of
`SignalRegulator`, `StateCoupledControl` and `ExposureController`.

### `Rebalancing`, `PaperTrading`, `PipelineBacktest`

A target weight is a multiple of 1/`Parts`; a holding has a quantity and the
price it was last valued at, whose product is its stored market value. Its stored
weight and the portfolio's stored total are not functions of that: the operators
of `Rebalancing` take both as they are. The convex solvers are external: any feasible weights of
`Grid`, or the equal-weight fallback. In `PaperTrading` a portfolio goes one of two
ways: `Evaluate`, `FetchPrices`, `Rebalance` (`execute_paper_rebalance`: prices of
today, weights and total as stored), or `Control` (`optimize_and_rebalance`:
stored prices throughout, a minimum notional, a snapshot of what is claimed
whether or not it was traded).

`PaperTrading.Init` is what recalculations leave in `weight` and `total`.
`_recalculate_weights` commits the total, then each weight, from the holdings its
call had read; a call that dies or overlaps another leaves rows of different
calls, as `HoldingWeights` shows step by step. Rows are only added, so the calls
of a portfolio have read a chain of sets of holdings (`FirstRows` of some order of
the rows, `Ages`). The stored total is the value of one of them, or 0; the weight
of a row is its share in one that contains it, or the 0 it was added with
(`StoredWeights`). All combinations are admitted, also those that no schedule of
calls brings about; a call that ran alone leaves the one in which everything
belongs to the whole portfolio. Two assumptions: shares are whole parts, since a
third of a portfolio has no exact weight in a binary or decimal fraction either
(all are whole where every total divides `Parts` times every value); and a ticker has
one row, since orders and targets are keyed by it.

`PipelineBacktest` walks over dates that are
skipped, held or rebalanced; `StoredTotal` is what the planner gets for
`portfolios.total_value`, which neither `create_portfolio` nor the repository's
`add_holding` writes; `SyncedWeights` are the weights that `_sync_holdings` writes
with each date's holdings.

### `WalkForward`

One asset stands for the portfolio. `SkipFirst`, `WalkDate` and `EndVariant` are
the loop of `BacktestEngine.run`, for one variant or for each of an ablation;
`Create`, `Commit` and `Rollback` persist all results of a request in one
transaction. `Refuse` is the ValueError that becomes a response of status 422.

## Runs

| run | question | bounds |
|---|---|---|
| `ledger_prompt` | is the ledger a lease, and are failed and abandoned runs taken over? | 3 calls, timeout 1, clock 0..4: a claim, its failure or expiry, and two rivals for the retry |
| `ledger_zombie` | can two workers complete one run? They can | the same |
| `pipeline` | what do the rows of an evaluation, and the claims on its run, guarantee across requests and attempts of any length? | 2 attempts, 2 tickers, any start portfolio, tickers held twice included, any number of requests; timeout 0, clock 0..1, so that attempts overlap; commits may lose their acknowledgement |
| `pipeline_resume` | can a failed later stage always be resumed? It cannot | the same |
| `stress_history` | what holds of every window? | 2 kinds, 3 days, minimum history 3, two usable market days: too little history on day 1, enough later |
| `stress_same_day` | is any day refused for a duplicate? It is | the same |
| `feedback_chain` | what do feedback rows and thresholds guarantee, whatever the order of dates? | 3 requests, 2 evaluations for each of 2 dates, outcomes of either: two rivals and a reader, an earlier and a later date |
| `feedback_backfill` | can a later date's observation reach an earlier evaluation? It can | the same, without outcomes |
| `holding_weights` | when do the weights add up? | a portfolio created empty or by an upload of two holdings, an added holding, one of value 0, and another user's; any two sessions at a time, so that a later call can run alone |
| `market_data` | spacing, pool, fallback and end of every request | 2 threads on one key, 2 workers, 2 providers of which the fallback is healthy, 2 attempts; timeout, interval and TTL 2, backoff 1..2, Retry-After 0 or 3: two hung calls fill the pool, a delay is cut to its maximum, an entry expires |
| `backtest_trades` | does a rebalance of the pipeline backtest trade? It does not | 2 tickers, 2 dates, prices 1 and 2 |
| `computations` | what do the computations of one evaluation, rebalance, backtest or batch guarantee? | see below |

`computations` checks five jobs side by side: a behaviour belongs to one of them,
and the variables of the others keep an initial value. Their bounds:

* stress: 3 tickers, each with one of 3 series of 4 days (one usable, one too
  short as of the day, one with a flat trailing window); ratios 0.5, 1 and
  1.5; every parameter triple kind (stationary, not stationary, variance falling
  on a fall); histories of up to 3 scores; a window of 3, at least 2. With three
  ratios a median differs from every quantile next to it, and with windows of 2
  and 3 a quantile falls on a score and between scores.
* paper: 1 to 3 tickers, quantities 0 and 120, prices 1 and 2 stored and today,
  targets 0, 12, 15, 24 of 60 and equal weights, and every total and all weights of
  whole parts that calls which died or overlapped can leave: prices rise, fall and
  stay, weights presume too much and too little, deltas lie above and below the
  least trade, and 60 divides without remainder.
* backtest: 4 dates, 2 tickers and CASH, prices 1 and 2: any pattern of skipped,
  held and rebalanced dates, so that a record comes directly after its
  predecessor, after one skip and after two.
* walk: dates 1..6 in 2 months, any subset of them as return dates, signals on five
  sets of dates with weights below 0 and above 1, two variants or the single one.
* scheduler: 2 workers, 1 job, 2 portfolios, 2 days of 2 slots, one trigger a day:
  both workers have a batch of one date, and a batch can outlast its day.

`LiveClaimNeverStolen` needs no `PromptCalls`: `ledger_prompt` checks it for three
rivals, `pipeline` for calls of any length and lost acknowledgements. `pipeline`
takes states for one that agree in `LiveView`: it leaves out what no later step and
none of its properties reads, such as the stage of a call that has ended. `CHECK_DEADLOCK FALSE` is set where triggers, retries and days are used up.

Fairness: two runs check liveness. In `ledger_prompt` a call that has begun
keeps taking its own steps (its thread is scheduled, its statements end): weak
fairness of `Step(c)`, and none for triggers, failures, crashes or time. In
`market_data` client threads run, free workers take calls, time passes and
healthy providers answer: weak fairness of `ClientStep(c)`, `Dispatch`, `Tick`
and `Answer(c)` of a healthy provider. Nothing is assumed of the other
providers, and an abandoned call need never release its worker.

## What the runs show

* Without any assumption on time, a claim is only taken from a row that is
  absent, failed or expired at the moment of the UPDATE.
* If calls end within the lock timeout and commits are acknowledged, the ledger
  is a lease: one executor, one completion, a completed row is final, and a
  retry that loses the compare-and-set lost it to a newer claim.
* If a call outlives its timeout, two workers complete the same run
  (`ledger_zombie`): `complete()` and `fail()` address the row by `run_id` alone.
* A COMPLETED run has every bundle, bundles fit together and are written once,
  even when attempts overlap and requests run the same stages beside them. The
  status never claims volatility rows that are not there. It denies rows that are
  there (FAILED beside them) only after two evaluations of the id ran at once, by
  overlapping claims or a request, or after the commit of the bundle lost its
  acknowledgement; no later attempt repairs it then.
* Some failures repeat on every retry. Those of the portfolio's own rows do: no
  holdings, a refused stress history (`stress_same_day`), a total or price of zero,
  a ticker with two rows. Of what others wrote, attempts alone are never in each
  other's way: a holding without state was added under way or had no estimate, and
  the place of event or snapshot was taken by a paper rebalance or under another
  evaluation of the date. An optimization requested for the evaluation itself bars
  nothing, since the run takes its targets over. What comes between a failed later
  stage and its retry can bar the retry (`pipeline_resume`).
* No regime sees its own day's or a later day's rows, returns or feedback; a
  history is refused as short only if it is. But the two evaluations that the
  default cron schedule gives every weekday leave two rows of that day, and
  every later day is refused for a duplicate (`stress_same_day`).
* No paper rebalance is folded into a threshold twice, however often or
  concurrently it is posted, and a date keeps one paper row, of the evaluation
  whose snapshot the date shows. The second is not due to `feedback_updates`: the
  unique key of the snapshots, taken in the same commit, is what keeps two
  rebalances of a date apart. A row that `apply_feedback` left on the date may
  be replaced in place of the paper row.
* Thresholds contain observations of earlier dates only if feedback was committed
  in the order of its dates. `execute_paper_rebalance` takes the previous threshold
  from the latest row of any date, so a rebalance of a past date carries a later
  date's threshold back (`feedback_backfill`), which the comment in
  `_regime_service_for_evaluation` rules out.
* Overlapping or dying `add_holding` calls can leave weights of different totals.
  A call that runs alone repairs all of them, and no weight exceeds 1 on the way.
* Every `get_history` call ends, even when hung calls hold all workers, and
  requests stay spaced. A request is refused although a provider is healthy only
  if one of its calls found no worker in time; that does happen, since a hanging
  primary and its healthy fallback share the pool.

* A batch passes over no portfolio that it has listed: each was started for the
  batch's date, by it or by another worker, or its exception is logged. A
  portfolio added while the batch runs waits for the next one.
* Fewer than half of the fits, however wrong, do not move the stress score beyond
  the others, and fallbacks do not count. A rolling strategy calls a day
  HIGH_STRESS when at most a quarter of the other days of its window were worse:
  a history that never changes is HIGH_STRESS throughout. No validator refuses
  what strategy and classifier make.
* The regime tables of four classes agree: more stress never means more exposure,
  a larger output of a signal, or a signal turned around.
* A paper rebalance sells more than is held exactly when the holding is worth less
  today than the plan takes out of it; its trade books the full quantity. On either
  route that has one of two causes: the price has fallen, or stored weight and total
  presume more than the holding is worth (`Stale`). The second is what an interrupted
  or overlapped recalculation leaves behind, and portfolio control oversells from it
  too. After a call that ran alone only a fall in price is left.
* Snapshot and trades tell the same holdings, exactly on the paper route and, on
  the control route, up to the least trade and the weight's staleness (`Drift`, 0
  after a call that ran alone). Where the price has not moved, the snapshot meets
  its target as nearly; the paper route misses the target of what it trades by
  exactly what the holding is worth today beyond what was presumed.
* The pipeline backtest makes no trade (`backtest_trades`). Its portfolio's `total_value`
  keeps the default of 0, so every delta is 0 and nothing is significant, while
  costs are charged for the turnover that was decided: its value is the initial value
  less the costs (theorem `CostsMoveTheValue`). `docs/architecture/backtesting.md`
  describes a rebalance that "executes simulated trades".
* After a skipped date, a record's gross return adds its cost back over an older
  value than the one before it; a net return does not (`GrossUsesPrecedingValue`).
* A walk-forward result has a record for every return date since its first
  rebalance, with a signal from before that rebalance, and is stored whole or not
  at all. The first return date is never a rebalance, and a month whose signal comes
  after its first date waits for the next month.

## Proofs

Eight modules hold theorems; the provers check them for any values of the
constants that satisfy the named `ASSUME`s of the modules. Every invariant went
through TLC first. All safety properties of the passing runs are theorems,
invariants and action properties, and so is the refinement of `RunLease`. Beyond the
runs, the modules are tied to each other: the pipeline implements the ledger
(`PipelineRunsLedger`), hence the lease, and the batches implement the lease too.

`ScheduledRunsProofs`: for any set of calls, any timeout and any clock bound, the
type invariant and in two layers the ledger's safety:

* without assumptions on time: `ClaimInv` says that a call in front of its
  UPDATE read a retryable row, and that the row is unchanged if its version is.
  It is inductive because every write raises `updated_at`. `ClaimIsSafe` follows.
* with `PromptCalls`, and without `LostAcks` where a completed row is concerned:
  `LeaseInv` adds that the clock has not passed the timeout of a call in flight
  and that the row names the executing call. Mutual exclusion and finality
  follow. `SuccessionInv` adds that a reclaimable row names a call that has
  ended; `SkippedRetryIsCovered` and the refinement of `RunLease` follow.
  `CompletionInv` adds that a call that has
  completed the run still owns the row (`CompletedByOne`).

`ScheduledPipelineProofs`: `WholeInv` says that every bundle rests on the one before
it (`Layered`) and what a call at each stage may rely on (`Progress`). It holds for
overlapping calls and for requests because no step takes back a bundle (`KeptStep`). From it follow
`CompletedMeansWhole`, `BundlesFit` and `NeverRewritten`. `StatusInv` adds that
without an overlap one call executes, and without a request either computes only what
is not there;
`BarredInv` adds what the bundles look like as long as no holding was added and no
estimate missing (`Tidy`), who can have put event and snapshot there (`Placed`), and that
two rows of one ticker keep the signals from being written (`Stuck`).

Its last section is about the pipeline and its ledger. Every step of the pipeline is
a step of `ScheduledRuns` or leaves the ledger alone (`StepsOfLedger`), so that what
is proved of the ledger holds of the pipeline's: `PipelineRunsLedger` for any
calls, `PipelineImplementsLease` where calls are prompt and commits acknowledged.
Prompt calls alone, with acknowledgements lost or not, never execute together
(`AloneWhenPrompt`). That discharges the history variable behind `StatusTellsVolatility`
and `BlockedOnlyByInterference`: `PromptRunsAreAlone` says that then no claims overlap, that
the status tells whether there are volatility rows unless an evaluation of the id was
requested or an acknowledgement lost, and that no call fails for another's rows
unless a request for the evaluation wrote some.

`StressHistoryProofs`: `HistoryInv` keeps for each evaluation that what it read is
committed and that its window is what the properties ask for. The combinatorial
part is that bootstrapped and persisted days together are short only if all
usable days are.

`FeedbackChainProofs`: `TypeInv`; `RowInv` (while the snapshot of a date is the one
that a request has read, the request knows every feedback row of that date); `FoldInv` (a paper
observation in any threshold, stored or in flight, is of an evaluation whose event
exists); `SnapshotInv`; and `LeakInv`, which holds as long as no row has been
committed behind a later one.

`MarketDataProofs`: `PoolInv` (the queue holds the calls that wait, each once; calls
and abandoned calls together do not exceed the workers), `Spaced` (every sleeper's
slot is an interval away from the others and from the next free one) and `Cause`
(a call that has passed a healthy provider found no worker).

`SumTheorems`: a sum over a set is a fold over a `CHOOSE`, and the provers can
neither unfold it nor use the library's induction, which takes an operator as
parameter. The module goes round that: the graph of the sum is the smallest set of
triples that is closed under adding an element, every finite set has a sum in it
because a counterexample would have a least size (`LeastNat`, `SmallestSet`), and
`TotalIsAdded` identifies it with the fold. From it: the sum of a set with one
element more, of a union, of two functions, of a multiple; monotony. Also the least
and largest elements of finite sets of numbers.

`HoldingWeightsProofs`: `RowInv` adds to the types who has entered the portfolio
(`Entered`). `BoundInv` adds that every base, stored or about to be stored, is a
sum that includes the holding itself (`Covering`), so that no quotient exceeds 1.
`SoloInv` adds what a call that is alone knows of the rows and how far its
recalculation has come; every row it will not write again then already has its
total as base.

`ComputationsProofs` proves the properties of `Computations` about `JobSpec`. A step of
`JobSpec` is a step of one module, so each invariant is proved of its module.

* Scheduler: `BatchInv` relates each batch to the ledger (`Covers`) and keeps its date
  within the days that pass (`Dated`), without which a run would write no row of
  the ledger. `LeaseInv` adds that a run has one executor at most and its row says
  RUNNING while it has; `Moves` lists what a step of any worker may do to one run,
  and `BatchesImplementLease` follows for every job, portfolio and date. A
  completed run is therefore never begun again, by whichever worker.
* Market stress: `Sorted` is an order statistic, from which it follows that it rises, that
  a quartile lies between its two neighbours, and that a median lies within the
  range of any majority (`MajorityDecides`) and a rank decides on which side of a
  quartile a score is (`RanksDecide`). `StressInv` says that the score is the median
  of the eligible fits and that regime and window fit together once classified.
  `ExposureFalls` and `ControlFalls` are lemmas for all scores, signals, ratios,
  risks and reliabilities: the exposure tables fall with the regime, and the regime
  rises with the score.
* Pipeline backtest: `RecordInv` says that the dates of the records rise and have
  values; that a base is the preceding value only without a gap is a matter of
  counting dates (`NoGap`). `CostInv` keeps every holding at 0 and every value at the
  initial value less the costs charged until its date (`Charged`). It is inductive
  because a stored total of 0 makes every delta 0, whatever the targets.
* Paper trading: `PaperInv` says what orders and snapshot are on each route, and of
  weights and total no more than the rows' writers guarantee, each by itself. What a
  sale beyond the holding has for a cause, and how far the snapshot is from trades
  and target, then follows by arithmetic on one ticker.
* Walk forward: `WalkInv` says of a variant that is being walked (`Walking`) that the last
  rebalance is the latest date that starts a month after a known signal
  (`TurnsOf`), that its signal is the latest known then, and that the records are
  those of all dates since the first (`RowsOf`). A date is the successor of the one
  seen before it, which is why nothing is left out.

The assumptions on constants are what the types of the code say: finite sets of
tickers, quantities and prices that are not negative, at least one bar, a minimum
history within the window, months with days. Two deserve a word.
`UnitsAssumption`: quantities are counted in a unit so fine that target values divide
exactly; the code computes with floating-point numbers, whose rounding is left out
of all models. `PartsAssumption` and `SignificantAssumption`: weights have a common
denominator, and the planner's threshold is above 0, as its default of 1.0 is.

Only TLC checks: liveness (`RetryTakesOver`, `EveryRequestEnds`) under fairness, which
is beyond TLAPS, and the five violations. The arithmetic of `Attenuation`,
`Quartile` and the like is proved as modelled, on exact integers.

## Plan

Done: every module of the table, with the safety of each proved. Left:

1. Calls of `Scheduler` that outlive the lock timeout: its claims are a lease, which
   `ledger_zombie` shows the ledger not to be without prompt calls.
2. The step from a regime to the next in `StressHistory` with the scores of
   `MarketStress`, so that `RegimeMatchesRank` speaks of persisted rows.
3. The values of `FeedbackController` (threshold, exposure factor) over a sequence
   of rebalances, and of `MarketStress` with the thresholds that come out of it.
4. `close()` of the market-data provider, and the freshness of the bars.

## Not modelled

The solvers (`cvxpy`, `scipy`, `arch`) are external and may answer anything that
their constraints admit. Factor, feature and composite values are floating-point
functions of market data and enter as percentages. Backtest metrics and
attribution are functions of the records. HTTP parsing, authentication, health and
metrics keep no state that the rest depends on; what a handler adds to its service
is in the service's module. Migrations are generated DDL; the models take
uniqueness constraints from `database/models.py`. The adapters of the upstream
providers are calls that answer, raise or hang. The frontend presents the API's
answers.
