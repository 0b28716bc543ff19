--------------------------- MODULE ScheduledPipeline ---------------------------
(***************************************************************************)
(* ScheduledEvaluationPipeline._execute, RunType.FULL_EVALUATION: what the *)
(* calls that the ledger lets through write about one (portfolio, date).   *)
(*                                                                         *)
(* The evaluation id is a hash of the key, so every attempt addresses the  *)
(* same rows: volatility states with their regime, the signal bundle, and  *)
(* targets with rebalance event and snapshot.  Each bundle is committed as *)
(* one transaction; each stage first reads whether its bundle exists.      *)
(* Between those transactions other attempts run, and the API's requests:  *)
(* holdings are added, and evaluations, optimizations and paper rebalances *)
(* are requested outside the ledger, for this evaluation id or another of  *)
(* the same date.                                                          *)
(***************************************************************************)
EXTENDS Integers, FiniteSets

CONSTANTS
    Calls, NoCall, LockTimeout, PromptCalls, LostAcks, MaxClock, \* the ledger's
    Tickers        \* what the portfolio may hold

ASSUME LedgerAssumption ==
    /\ NoCall \notin Calls /\ LockTimeout \in Nat /\ MaxClock \in Nat
    /\ PromptCalls \in BOOLEAN /\ LostAcks \in BOOLEAN

VARIABLES
    row, clock, pc, now, seen,  \* the ledger's
    holdings,   \* tickers of the portfolio
    doubled,    \* a ticker of the portfolio has two rows
    evaluation, \* status of the evaluations row, or NONE
    volRows,    \* tickers with a volatility state; {} iff no regime row
    signals,    \* tickers with a controlled signal; {} iff no risk row
    targets,    \* tickers with a portfolio target
    event,      \* who wrote the evaluation's rebalance event
    snapshot,   \* who wrote the portfolio's snapshot of this date
    at,         \* the stage each call has reached
    held,       \* the holdings that each call's stage is computing with
    why,        \* why a call raised (history)
    disturbed   \* what happened to the inputs (history)

ledger == <<row, clock, pc, now, seen>>
rows   == <<evaluation, volRows, signals, targets, event, snapshot>>
notes  == <<why, disturbed>>
book   == <<holdings, doubled>>
vars   == <<ledger, book, rows, at, held, notes>>

Ledger == INSTANCE ScheduledRuns

Stages == {"begun", "create", "ensured", "volatility", "computing", "marking",
           "signals", "signalling", "doubled", "control", "controlling", "done",
           "raised"}

\* The stages behind the volatility bundle.
LaterStages == {"signals", "signalling", "doubled", "control", "controlling", "done"}

\* Why a stage raised.  Not for what the tables hold: the market data or the
\* database failed ("outside", or "later" behind the volatility bundle), or a
\* rival's rows were met ("race").  For the portfolio's own rows, so that the
\* next attempt fails likewise: they are "unusable" (no holdings, a refused
\* stress history, a total, price or volatility of zero), or a ticker is there
\* "twice".  For what else was written: a holding has no state ("missing"), the
\* place of event or snapshot is "taken".
Reasons == {"outside", "later", "race", "unusable", "twice", "missing", "taken"}

\* What came between: a ticker without an estimate, a holding added to a run
\* under way, an overlap of claims, a lost acknowledgement of the volatility
\* commit, a volatility stage requested for this evaluation.
Disturbances == {"fit", "holding", "overlap", "ack", "request"}

\* Who wrote the event of the evaluation: a run, a paper rebalance, or an
\* optimization requested for its own portfolio or a "foreign" one.
EventWriters == {"none", "control", "optimize", "foreign", "paper"}

\* Who wrote the snapshot of the date: the control stage with its event, a
\* paper rebalance, or an optimization "across", under another evaluation.
SnapshotWriters == {"none", "control", "across", "paper"}

TypeOK ==
    /\ Ledger!TypeOK
    /\ holdings \subseteq Tickers /\ doubled \in BOOLEAN
    /\ evaluation \in {"NONE", "PENDING", "COMPLETED", "FAILED"}
    /\ volRows \subseteq Tickers /\ signals \subseteq Tickers /\ targets \subseteq Tickers
    /\ event \in EventWriters /\ snapshot \in SnapshotWriters
    /\ at \in [Calls -> Stages]
    /\ held \in [Calls -> SUBSET Tickers]
    /\ why \in [Calls -> {"none"} \cup Reasons]
    /\ disturbed \subseteq Disturbances

Init ==
    /\ Ledger!Init
    /\ holdings \in SUBSET Tickers
    /\ doubled \in BOOLEAN /\ (doubled => holdings # {})
    /\ evaluation = "NONE"
    /\ volRows = {} /\ signals = {} /\ targets = {}
    /\ event = "none" /\ snapshot = "none"
    /\ at = [c \in Calls |-> "begun"]
    /\ held = [c \in Calls |-> {}]
    /\ why = [c \in Calls |-> "none"]
    /\ disturbed = {}

--------------------------------------------------------------------------------
\* A call is executing and stands at stage s.
Stands(c, s) == pc[c] \in Ledger!Executing /\ at[c] = s

Goto(c, s) == at' = [at EXCEPT ![c] = s]

\* The holdings a stage has read are its own, until it ends.
Hold(c, tickers) == held' = [held EXCEPT ![c] = tickers]

\* An exception leaves the stage; nothing of its transaction stays.
Raise(c, reason) ==
    /\ Goto(c, "raised")
    /\ Hold(c, {})
    /\ why' = [why EXCEPT ![c] = reason]
    /\ UNCHANGED <<ledger, book, disturbed>>

--------------------------------------------------------------------------------
(***************************************************************************)
(* The ledger's part of a call.                                            *)
(***************************************************************************)

\* claim(), up to its verdict; a claim won while another call still executes
\* is an overlap.
Claim(c) ==
    /\ \/ Ledger!Begin(c) \/ Ledger!InsertRow(c) \/ Ledger!InsertConflict(c)
       \/ Ledger!ReadRow(c) \/ Ledger!Reclaim(c) \/ Ledger!LoseReclaim(c)
    /\ disturbed' =
          IF pc'[c] = "claimed" /\ \E d \in Calls : pc[d] \in Ledger!Executing
          THEN disturbed \cup {"overlap"} ELSE disturbed
    /\ UNCHANGED <<book, rows, at, held, why>>

Attach(c) ==
    /\ Stands(c, "ensured")
    /\ Ledger!AttachEvaluation(c)
    /\ Goto(c, "volatility")
    /\ UNCHANGED <<book, rows, held, notes>>

Complete(c) ==
    /\ Stands(c, "done")
    /\ Ledger!Complete(c)
    /\ UNCHANGED <<book, rows, at, held, notes>>

\* The except clause of _execute, for a stage that raised or the commit of
\* complete() whose acknowledgement was lost.
FailRun(c) ==
    /\ Stands(c, "raised") \/ pc[c] = "committed"
    /\ Ledger!Fail(c)
    /\ UNCHANGED <<book, rows, at, held, notes>>

Return(c) ==
    /\ Ledger!Return(c)
    /\ UNCHANGED <<book, rows, at, held, notes>>

Crash(c) ==
    /\ Ledger!Crash(c)
    /\ UNCHANGED <<book, rows, at, held, notes>>

Tick ==
    /\ Ledger!Tick
    /\ UNCHANGED <<book, rows, at, held, notes>>

--------------------------------------------------------------------------------
(***************************************************************************)
(* _ensure_evaluation                                                      *)
(***************************************************************************)

EnsureRead(c) ==
    /\ Stands(c, "begun")
    /\ Goto(c, IF evaluation = "NONE" THEN "create" ELSE "ensured")
    /\ UNCHANGED <<ledger, book, rows, held, notes>>

EnsureCreate(c) ==
    /\ Stands(c, "create")
    /\ evaluation = "NONE"
    /\ evaluation' = "PENDING"
    /\ Goto(c, "ensured")
    /\ UNCHANGED <<ledger, book, volRows, signals, targets, event, snapshot,
                   held, notes>>

\* Another attempt created the row since it was looked up.
EnsureConflict(c) ==
    /\ Stands(c, "create")
    /\ evaluation # "NONE"
    /\ Raise(c, "race")
    /\ UNCHANGED rows

--------------------------------------------------------------------------------
(***************************************************************************)
(* VolatilityEvaluationService.evaluate                                    *)
(***************************************************************************)

\* No holdings: InsufficientCoverageError before anything else.
VolatilityEmpty(c) ==
    /\ Stands(c, "volatility")
    /\ holdings = {}
    /\ Raise(c, "unusable")
    /\ UNCHANGED rows

\* The regime row of the evaluation, which is committed with its estimates.
HasRegime == volRows # {}

\* An existing regime row ends the stage.
VolatilityRead(c) ==
    /\ Stands(c, "volatility")
    /\ holdings # {}
    /\ Hold(c, IF HasRegime THEN {} ELSE holdings)
    /\ Goto(c, IF HasRegime THEN "signals" ELSE "computing")
    /\ UNCHANGED <<ledger, book, rows, notes>>

\* _mark_failed: whatever the row says by now becomes FAILED, in a commit of
\* its own whose failure is swallowed.
MarkFailed == evaluation' \in {evaluation, "FAILED"}

\* Mutated form of VolatilityFails: a status EvaluationStatus does not have.
VolatilityFailsUnknown(c) ==
    /\ Stands(c, "computing") \/ Stands(c, "marking")
    /\ evaluation' = "ERROR"
    /\ Raise(c, "outside")
    /\ UNCHANGED <<volRows, signals, targets, event, snapshot>>

\* The market data, a fit, the coverage or the database fails.
VolatilityFails(c) ==
    /\ Stands(c, "computing") \/ Stands(c, "marking")
    /\ MarkFailed
    /\ Raise(c, "outside")
    /\ UNCHANGED <<volRows, signals, targets, event, snapshot>>

\* The regime rows of other evaluations of the portfolio are refused: two of
\* one day, on every retry, or too few.  Evaluations of other ids and days
\* write them (StressHistory follows them), so any attempt may meet this.
HistoryRefused(c) ==
    /\ Stands(c, "computing")
    /\ MarkFailed
    /\ Raise(c, "unusable")
    /\ UNCHANGED <<volRows, signals, targets, event, snapshot>>

\* VolatilityService.evaluate fits each ticker by itself and leaves out those that
\* fail; with none left, aggregation fails.
Estimates(tickers) == (SUBSET tickers) \ {{}}

\* VolatilityRepository.create_many and RegimeRepository.create: one row for
\* every estimate and one regime row; an evaluation has them once.
CreateStates(fitted) == ~HasRegime /\ volRows' = fitted

\* Mutated form of VolatilityPersist: the regime row is no obstacle.
VolatilityOverwrite(c) ==
    /\ Stands(c, "computing")
    /\ \E fitted \in Estimates(held[c]) :
          /\ volRows' = fitted
          /\ disturbed' = IF fitted = held[c] THEN disturbed
                          ELSE disturbed \cup {"fit"}
    /\ evaluation' = "COMPLETED"
    /\ Goto(c, "signals") /\ Hold(c, {})
    /\ UNCHANGED <<ledger, book, signals, targets, event, snapshot, why>>

\* Mutated form of VolatilityPersist: the status is left as a failed attempt
\* set it.
VolatilityKeepStatus(c) ==
    /\ Stands(c, "computing")
    /\ volRows = {}
    /\ \E fitted \in Estimates(held[c]) :
          /\ volRows' = fitted
          /\ disturbed' = IF fitted = held[c] THEN disturbed
                          ELSE disturbed \cup {"fit"}
    /\ evaluation' = IF evaluation = "PENDING" THEN "COMPLETED" ELSE evaluation
    /\ Goto(c, "signals") /\ Hold(c, {})
    /\ UNCHANGED <<ledger, book, signals, targets, event, snapshot, why>>

\* Estimates, regime and the evaluation's status in one commit.
VolatilityPersist(c) ==
    /\ Stands(c, "computing")
    /\ \E fitted \in Estimates(held[c]) :
          /\ CreateStates(fitted)
          /\ disturbed' = IF fitted = held[c] THEN disturbed
                          ELSE disturbed \cup {"fit"}
    /\ evaluation' = "COMPLETED"
    /\ Goto(c, "signals") /\ Hold(c, {})
    /\ UNCHANGED <<ledger, book, signals, targets, event, snapshot, why>>

\* The same, but the acknowledgement of the commit is lost: what was committed
\* stays, and the exception leads to _mark_failed.
VolatilityPersistLost(c) ==
    /\ LostAcks
    /\ Stands(c, "computing")
    /\ \E fitted \in Estimates(held[c]) :
          /\ CreateStates(fitted)
          /\ disturbed' = disturbed \cup {"ack"} \cup
                          IF fitted = held[c] THEN {} ELSE {"fit"}
    /\ evaluation' = "COMPLETED"
    /\ Goto(c, "marking") /\ Hold(c, {})
    /\ UNCHANGED <<ledger, book, signals, targets, event, snapshot, why>>

\* Another attempt's rows violate the unique keys: its result is taken.
VolatilityConflict(c) ==
    /\ Stands(c, "computing")
    /\ HasRegime
    /\ Goto(c, "signals") /\ Hold(c, {})
    /\ UNCHANGED <<ledger, book, rows, notes>>

--------------------------------------------------------------------------------
(***************************************************************************)
(* SignalEvaluationService.evaluate                                        *)
(***************************************************************************)

\* IntelligenceRepository.has_evaluation: the risk row.
HasSignals == signals # {}

\* Existing bundle, or holdings that all have a volatility state; a ticker
\* read twice goes into the bundle twice.
SignalsRead(c) ==
    /\ Stands(c, "signals")
    /\ HasSignals \/ holdings \subseteq volRows
    /\ Hold(c, IF HasSignals THEN {} ELSE holdings)
    /\ Goto(c, IF HasSignals THEN "control"
               ELSE IF doubled THEN "doubled" ELSE "signalling")
    /\ UNCHANGED <<ledger, book, rows, notes>>

\* volatility_by_ticker[holding.ticker] raises KeyError.
SignalsMissing(c) ==
    /\ Stands(c, "signals")
    /\ ~HasSignals /\ ~(holdings \subseteq volRows)
    /\ Raise(c, "missing")
    /\ UNCHANGED rows

\* IntelligenceRepository.create_bundle: factors, exposures, reliability and
\* signal of every holding, and one risk row; an evaluation has them once.
CreateBundle(tickers) == ~HasSignals /\ signals' = tickers

\* Mutated form of SignalsPersist: a holding without features is skipped.
SignalsPersistPartial(c) ==
    /\ Stands(c, "signalling")
    /\ signals = {}
    /\ signals' \in (SUBSET held[c]) \ {{}}
    /\ Goto(c, "control") /\ Hold(c, {})
    /\ UNCHANGED <<ledger, book, evaluation, volRows, targets, event, snapshot, notes>>

\* The bundle of every holding, in one commit.
SignalsPersist(c) ==
    /\ Stands(c, "signalling")
    /\ CreateBundle(held[c])
    /\ Goto(c, "control") /\ Hold(c, {})
    /\ UNCHANGED <<ledger, book, evaluation, volRows, targets, event, snapshot, notes>>

\* A rival's bundle violates the unique keys: it is taken as the result.
SignalsConflict(c) ==
    /\ Stands(c, "signalling") \/ Stands(c, "doubled")
    /\ HasSignals
    /\ Goto(c, "control") /\ Hold(c, {})
    /\ UNCHANGED <<ledger, book, rows, notes>>

\* Two rows of one ticker violate the unique keys by themselves.
SignalsTwice(c) ==
    /\ Stands(c, "doubled")
    /\ ~HasSignals
    /\ Raise(c, "twice")
    /\ UNCHANGED rows

--------------------------------------------------------------------------------
(***************************************************************************)
(* PortfolioControlService.optimize_and_rebalance                          *)
(***************************************************************************)

\* get_rebalance: an event of the evaluation, whoever wrote it.
HasEvent == event # "none"

\* get_portfolio_control: the result of an earlier attempt needs its targets.
Loadable == HasEvent /\ targets # {}

\* Every holding has a signal and a volatility state.
AssetStateComplete == holdings \subseteq signals \cap volRows

\* Mutated form of ControlMissing and ControlRead together: the check for
\* missing asset state is gone.
ControlReadUnchecked(c) ==
    /\ Stands(c, "control")
    /\ \/ event # "none" /\ targets # {}
       \/ event = "none"
    /\ Hold(c, IF HasEvent THEN {} ELSE holdings)
    /\ Goto(c, IF event = "none" THEN "controlling" ELSE "done")
    /\ UNCHANGED <<ledger, book, rows, notes>>

\* Mutated form of ControlRead: a rebalance event alone ends the stage.
ControlReadAnyEvent(c) ==
    /\ Stands(c, "control")
    /\ event # "none" \/ holdings \subseteq signals \cap volRows
    /\ Hold(c, IF HasEvent THEN {} ELSE holdings)
    /\ Goto(c, IF event = "none" THEN "controlling" ELSE "done")
    /\ UNCHANGED <<ledger, book, rows, notes>>

\* An existing event ends the stage if its targets can be loaded; without
\* one, every holding needs a signal and a volatility state.
ControlRead(c) ==
    /\ Stands(c, "control")
    /\ Loadable \/ (~HasEvent /\ AssetStateComplete /\ ~doubled)
    /\ Hold(c, IF HasEvent THEN {} ELSE holdings)
    /\ Goto(c, IF HasEvent THEN "done" ELSE "controlling")
    /\ UNCHANGED <<ledger, book, rows, notes>>

\* ValueError: a holding has no asset state.
ControlMissing(c) ==
    /\ Stands(c, "control")
    /\ ~HasEvent /\ ~AssetStateComplete
    /\ Raise(c, "missing")
    /\ UNCHANGED rows

\* ValueError: the event has no targets.
ControlUnloadable(c) ==
    /\ Stands(c, "control")
    /\ HasEvent /\ ~Loadable
    /\ Raise(c, "taken")
    /\ UNCHANGED rows

\* Two targets of one ticker violate the unique key whoever else writes.
ControlTwice(c) ==
    /\ Stands(c, "control")
    /\ ~HasEvent /\ AssetStateComplete /\ doubled
    /\ Raise(c, "twice")
    /\ UNCHANGED rows

\* portfolio_value must be positive, a price is divided by, a conditional
\* volatility must be positive; amounts are left out, so any may be zero.
ControlRefused(c) ==
    /\ Stands(c, "control")
    /\ ~HasEvent /\ AssetStateComplete
    /\ Raise(c, "unusable")
    /\ UNCHANGED rows

\* PortfolioControlRepository: a target for every holding; one event of the
\* evaluation, with its trades; one snapshot of the portfolio and date.
CreateTargets(tickers) == targets' = tickers
CreateRebalance(writer) == ~HasEvent /\ event' = writer
CreateSnapshot(writer) == snapshot = "none" /\ snapshot' = writer

\* Targets, event and snapshot in one commit.
ControlPersist(c) ==
    /\ Stands(c, "controlling")
    /\ CreateTargets(held[c])
    /\ CreateRebalance("control") /\ CreateSnapshot("control")
    /\ Goto(c, "done") /\ Hold(c, {})
    /\ UNCHANGED <<ledger, book, evaluation, volRows, signals, notes>>

\* IntegrityError: rolled back and raised, also when a rival attempt wrote the
\* event that this one was to write.
ControlConflict(c) ==
    /\ Stands(c, "controlling")
    /\ HasEvent \/ snapshot # "none"
    /\ Raise(c, IF Loadable THEN "race" ELSE "taken")
    /\ UNCHANGED rows

\* The market data or the database fails in a stage with nothing to clean up.
TransientFailure(c) ==
    /\ at[c] \in Stages \ {"computing", "marking", "raised"}
    /\ pc[c] \in Ledger!Executing
    /\ Raise(c, IF at[c] \in LaterStages THEN "later" ELSE "outside")
    /\ UNCHANGED rows

--------------------------------------------------------------------------------
(***************************************************************************)
(* The rest of the system: requests of the API, which claim nothing.       *)
(*                                                                         *)
(* A request may have read the tables at any earlier moment, and any       *)
(* number of them is under way: what one can commit is what some earlier   *)
(* state allowed it and the unique keys admit now, so a request is its     *)
(* commit, one action.  Holdings and bundles only grow, which makes what   *)
(* an earlier state allowed a subset of what the present one shows.        *)
(***************************************************************************)

\* What a request leaves alone.
Beside == <<ledger, book, at, held, why>>

\* PortfolioService.add_holding, which does not ask whether the ticker is
\* there.  Nothing calls remove_holding.
AddHolding ==
    /\ \E t \in Tickers :
          /\ holdings' = holdings \cup {t}
          /\ doubled' = (doubled \/ t \in holdings)
    /\ disturbed' = IF evaluation # "NONE" \/ \E c \in Calls : pc[c] # "new"
                    THEN disturbed \cup {"holding"} ELSE disturbed
    /\ UNCHANGED <<ledger, rows, at, held, why>>

\* POST volatility/evaluate, signals/evaluate and rebalance run the volatility
\* stage under the evaluation id they are given: they create its row, ...
RequestCreates ==
    /\ evaluation = "NONE" /\ holdings # {}
    /\ evaluation' = "PENDING"
    /\ disturbed' = disturbed \cup {"request"}
    /\ UNCHANGED <<Beside, volRows, signals, targets, event, snapshot>>

\* ... commit its volatility bundle, ...
RequestPersists ==
    /\ evaluation # "NONE"
    /\ \E fitted \in Estimates(holdings) :
          /\ CreateStates(fitted)
          /\ disturbed' = disturbed \cup {"request"} \cup
                          IF fitted = holdings THEN {} ELSE {"fit"}
    /\ evaluation' = "COMPLETED"
    /\ UNCHANGED <<Beside, signals, targets, event, snapshot>>

\* ... or mark it failed, by now perhaps beside committed rows.
RequestFails ==
    /\ evaluation # "NONE" /\ holdings # {}
    /\ evaluation' = "FAILED"
    /\ disturbed' = disturbed \cup {"request"}
    /\ UNCHANGED <<Beside, volRows, signals, targets, event, snapshot>>

\* POST optimize for this evaluation: the control stage, with targets and event
\* of the evaluation and a snapshot of the portfolio that was named, which need
\* not be the evaluation's own.
Optimize ==
    /\ \E assets \in (SUBSET (signals \cap volRows)) \ {{}} : CreateTargets(assets)
    /\ \/ CreateRebalance("optimize") /\ CreateSnapshot("control")
          /\ targets' \subseteq holdings
       \/ CreateRebalance("foreign") /\ UNCHANGED snapshot
    /\ UNCHANGED <<Beside, disturbed, evaluation, volRows, signals>>

\* POST optimize for this portfolio and another evaluation of the date.
OptimizeAcross ==
    /\ holdings # {}
    /\ CreateSnapshot("across")
    /\ UNCHANGED <<Beside, disturbed, evaluation, volRows, signals, targets, event>>

\* execute_paper_rebalance of this evaluation: event and snapshot of this
\* date, an existing snapshot being deleted first, in one commit.
PaperRebalance ==
    /\ HasRegime /\ ~HasEvent
    /\ event' = "paper"
    /\ snapshot' = "paper"
    /\ UNCHANGED <<Beside, disturbed, evaluation, volRows, signals, targets>>

\* The same for another evaluation of this portfolio and date.
PaperSnapshot ==
    /\ holdings # {}
    /\ snapshot' = "paper"
    /\ UNCHANGED <<Beside, disturbed, evaluation, volRows, signals, targets, event>>

Request ==
    \/ AddHolding \/ RequestCreates \/ RequestPersists \/ RequestFails
    \/ Optimize \/ OptimizeAcross \/ PaperRebalance \/ PaperSnapshot

EnsureStage(c) == EnsureRead(c) \/ EnsureCreate(c) \/ EnsureConflict(c)

VolatilityStage(c) ==
    \/ VolatilityEmpty(c) \/ VolatilityRead(c) \/ VolatilityFails(c)
    \/ HistoryRefused(c) \/ VolatilityPersist(c) \/ VolatilityPersistLost(c)
    \/ VolatilityConflict(c)

SignalsStage(c) ==
    \/ SignalsRead(c) \/ SignalsMissing(c) \/ SignalsPersist(c) \/ SignalsConflict(c)
    \/ SignalsTwice(c)

ControlStage(c) ==
    \/ ControlRead(c) \/ ControlMissing(c) \/ ControlUnloadable(c) \/ ControlTwice(c)
    \/ ControlRefused(c) \/ ControlPersist(c) \/ ControlConflict(c)

Next ==
    \/ \E c \in Calls :
          \/ Claim(c) \/ Attach(c) \/ Complete(c) \/ FailRun(c) \/ Return(c)
          \/ EnsureStage(c) \/ VolatilityStage(c) \/ SignalsStage(c)
          \/ ControlStage(c) \/ TransientFailure(c) \/ Crash(c)
    \/ Tick
    \/ Request

Spec == Init /\ [][Next]_vars

--------------------------------------------------------------------------------
(***************************************************************************)
(* Properties                                                              *)
(***************************************************************************)

\* The ledger says COMPLETED only of an evaluation whose every bundle is
\* there, whatever crashed, was resumed or overlapped on the way; only its
\* snapshot may be that of another portfolio, if the control stage was
\* requested for one.
CompletedRunIsWhole ==
    row.status = "COMPLETED" =>
        /\ evaluation # "NONE" /\ volRows # {} /\ signals # {}
        /\ targets # {} /\ event \in {"control", "optimize", "foreign"}
        /\ event # "foreign" => snapshot # "none"

\* The bundles of an evaluation fit together although each attempt, and each
\* stage of an attempt, reads the holdings anew: no target without a signal,
\* no signal without a volatility state.
CoherentBundles == targets \subseteq signals /\ signals \subseteq volRows

\* "rather than duplicating earlier rows": a bundle, once committed, is never
\* written again by a retry, by a call that outlived its claim, or by a request.
BundlesWrittenOnce ==
    [][/\ volRows # {} => volRows' = volRows
       /\ signals # {} => signals' = signals
       /\ targets # {} => targets' = targets
       /\ event # "none" => event' = event]_vars

\* The ledger's claims are guarded the same while the stages run: however long
\* a call takes, a live claim is not stolen from it.
LiveClaimNeverStolen == Ledger!LiveClaimNeverStolen

\* The evaluation's status never claims a volatility bundle that is not there.
\* It may deny one that is, but only after two evaluations of the id ran at
\* once, by overlapping claims or a request, or the commit of the bundle lost
\* its acknowledgement: attempts that fail and are retried one after another
\* leave a status that tells.
StatusTellsVolatility ==
    /\ evaluation = "COMPLETED" => volRows # {}
    /\ disturbed \cap {"overlap", "request", "ack"} = {} =>
           (volRows # {} => evaluation = "COMPLETED")

\* Of the failures that bar a run by what others wrote, none is the work of
\* crashes, failed stages, lost acknowledgements and overlaps alone, nor of a
\* requested evaluation or optimization of this id.  A holding without state
\* was added under way or had no estimate; the place of event or snapshot was
\* taken by a paper rebalance or under another evaluation of the date.  And a
\* ticker held twice bars a run before its signals are there, unless the second
\* row came under way.
BlockedOnlyByInterference ==
    \A c \in Calls :
        /\ why[c] = "missing" => disturbed \cap {"holding", "fit"} # {}
        /\ why[c] = "taken" => "paper" = event \/ snapshot \in {"across", "paper"}
        /\ why[c] = "twice" => doubled /\ (signals = {} \/ "holding" \in disturbed)

\* "A failed later stage can be resumed with the deterministic evaluation ID":
\* once a later stage has failed for a passing reason, behind a volatility
\* bundle of all its tickers, no retry is barred by what came in between.
ResumeNeverBlocked ==
    [][\A c, d \in Calls :
          /\ pc[d] = "failed" /\ why[d] = "later"
          /\ "fit" \notin disturbed
          /\ why'[c] \in {"missing", "taken", "twice"}
          => why[c] = why'[c]]_vars

================================================================================
