----------------------------- MODULE StressHistory -----------------------------
(***************************************************************************)
(* The stress history of one portfolio: how                                *)
(* VolatilityEvaluationService.evaluate builds the window on which         *)
(* RegimeService classifies a day, from the regime rows of earlier         *)
(* evaluations, the feedback rows of earlier paper rebalances and a        *)
(* bootstrap from market returns.                                          *)
(*                                                                         *)
(* regime_states is unique per (evaluation, date), not per date: the full  *)
(* evaluation and the volatility refresh of one day have different         *)
(* evaluation ids, and both persist a row.  Evaluations of any days run in *)
(* any order and interleave: the API takes the date from its request.      *)
(***************************************************************************)
EXTENDS Integers, FiniteSets, FiniteSetsExt

CONSTANTS
    Kinds,          \* the evaluations a day can have: one id for each kind
    LastDay,        \* bound: days 1..LastDay are evaluated
    Usable,         \* days whose truncated returns yield a stress snapshot
    MinimumHistory  \* RollingQuantileThreshold.minimum_history

ASSUME KindsAssumption == IsFiniteSet(Kinds)
ASSUME LastDayAssumption == LastDay \in Nat
ASSUME UsableAssumption == Usable \subseteq Int /\ IsFiniteSet(Usable)
ASSUME MinimumHistoryAssumption == MinimumHistory \in Nat \ {0}

VARIABLES
    persisted, \* evaluations that have a regime row
    feedback,  \* days that have a feedback row
    pc,        \* where each evaluation is
    prior,     \* historical_rows, as read
    source,    \* the day of the feedback row in use, or NoDay
    used       \* the days of the window the regime was derived from

vars == <<persisted, feedback, pc, prior, source, used>>

Days == 1..LastDay
Evaluations == Kinds \X Days
DayOf(e) == e[2]
DaysOf(E) == {DayOf(e) : e \in E}
NoDay == 0

TypeOK ==
    /\ persisted \subseteq Evaluations
    /\ feedback \subseteq Days
    /\ pc \in [Evaluations -> {"new", "history", "window", "persist",
                               "completed", "duplicate", "short"}]
    /\ prior \in [Evaluations -> SUBSET Evaluations]
    /\ source \in [Evaluations -> Days \cup {NoDay}]
    /\ used \in [Evaluations -> SUBSET (Days \cup Usable)]

Init ==
    /\ persisted = {}
    /\ feedback = {}
    /\ pc = [e \in Evaluations |-> "new"]
    /\ prior = [e \in Evaluations |-> {}]
    /\ source = [e \in Evaluations |-> NoDay]
    /\ used = [e \in Evaluations |-> {}]

--------------------------------------------------------------------------------
\* `item.timestamp < current.timestamp`: the rows of earlier days.
Earlier(e) == {f \in prior[e] : DayOf(f) < DayOf(e)}

\* The n latest members of a set of days, or all of them if there are fewer.
Latest(S, n) == {d \in S : Cardinality({x \in S : x > d}) < n}

\* _load_returns: bars after as_of_date are dropped, whatever the provider
\* answers.
Returns(e) == {d \in Usable : d <= DayOf(e)}

\* _bootstrap_stress_history, `timestamp < as_of_date`.
Candidates(e) == {d \in Returns(e) : d < DayOf(e)}

\* Mutated form of Bootstrap: the current observation is counted twice.
BootstrapOneShort(e) ==
    Latest(Candidates(e) \ DaysOf(Earlier(e)),
           MinimumHistory - 2 - Cardinality(Earlier(e)))

\* _bootstrap_stress_history: the missing observations, from the latest usable
\* days before this one that have no row.
Bootstrap(e) ==
    Latest(Candidates(e) \ DaysOf(Earlier(e)),
           MinimumHistory - 1 - Cardinality(Earlier(e)))

\* The rolling strategy bootstraps; the fixed one that feedback brings asks
\* for one observation only, the current one.
Boot(e) == IF source[e] = NoDay THEN Bootstrap(e) ELSE {}
Required(e) == IF source[e] = NoDay THEN MinimumHistory ELSE 1

\* Mutated form of Distinct: duplicate timestamps pass.
DistinctUnchecked(e) == DaysOf(Earlier(e)) \cap Boot(e) = {}

\* "stress history must not contain duplicate timestamps"
Distinct(e) ==
    /\ \A f, g \in Earlier(e) : DayOf(f) = DayOf(g) => f = g
    /\ DaysOf(Earlier(e)) \cap Boot(e) = {}

\* len(available) >= minimum_history, the current observation included.
Enough(e) == Cardinality(Earlier(e)) + Cardinality(Boot(e)) + 1 >= Required(e)

--------------------------------------------------------------------------------
\* get_history_for_portfolio(through_date).  An evaluation that failed is
\* evaluated again under its id by the next attempt.
ReadHistory(e) ==
    /\ pc[e] \in {"new", "duplicate", "short"}
    /\ prior' = [prior EXCEPT ![e] = {f \in persisted : DayOf(f) <= DayOf(e)}]
    /\ pc' = [pc EXCEPT ![e] = "history"]
    /\ UNCHANGED <<persisted, feedback, source, used>>

\* Mutated form of ReadFeedback: feedback of the day itself, and of later
\* days, is admitted.
ReadAnyFeedback(e) ==
    /\ pc[e] = "history"
    /\ source' = [source EXCEPT ![e] = Max(feedback \cup {NoDay})]
    /\ pc' = [pc EXCEPT ![e] = "window"]
    /\ UNCHANGED <<persisted, feedback, prior, used>>

\* _regime_service_for_evaluation: the latest feedback of an earlier day.
ReadFeedback(e) ==
    /\ pc[e] = "history"
    /\ source' = [source EXCEPT ![e] = Max({d \in feedback : d < DayOf(e)} \cup {NoDay})]
    /\ pc' = [pc EXCEPT ![e] = "window"]
    /\ UNCHANGED <<persisted, feedback, prior, used>>

\* RegimeService.evaluate over a window that _historical_window accepts.
Classify(e) ==
    /\ pc[e] = "window"
    /\ Distinct(e) /\ Enough(e)
    /\ used' = [used EXCEPT ![e] = DaysOf(Earlier(e)) \cup Boot(e) \cup {DayOf(e)}]
    /\ pc' = [pc EXCEPT ![e] = "persist"]
    /\ UNCHANGED <<persisted, feedback, prior, source>>

\* _historical_window raises; _mark_failed.
Reject(e) ==
    /\ pc[e] = "window"
    /\ \/ ~Distinct(e) /\ pc' = [pc EXCEPT ![e] = "duplicate"]
       \/ Distinct(e) /\ ~Enough(e) /\ pc' = [pc EXCEPT ![e] = "short"]
    /\ UNCHANGED <<persisted, feedback, prior, source, used>>

\* Mutated form of Persist: a status the evaluations do not know.
PersistUnknownStatus(e) ==
    /\ pc[e] = "persist"
    /\ persisted' = persisted \cup {e}
    /\ pc' = [pc EXCEPT ![e] = "done"]
    /\ UNCHANGED <<feedback, prior, source, used>>

\* The regime row and the evaluation's status, in one commit.
Persist(e) ==
    /\ pc[e] = "persist"
    /\ persisted' = persisted \cup {e}
    /\ pc' = [pc EXCEPT ![e] = "completed"]
    /\ UNCHANGED <<feedback, prior, source, used>>

\* A paper rebalance of an evaluation leaves a feedback row for its day.
PaperRebalance(e) ==
    /\ e \in persisted
    /\ feedback' = feedback \cup {DayOf(e)}
    /\ UNCHANGED <<persisted, pc, prior, source, used>>

Next == \E e \in Evaluations :
    \/ ReadHistory(e) \/ ReadFeedback(e) \/ Classify(e) \/ Reject(e) \/ Persist(e)
    \/ PaperRebalance(e)

Spec == Init /\ [][Next]_vars

--------------------------------------------------------------------------------
\* No regime is derived from its own day's or a later day's rows, returns or
\* feedback, although rows of any day are committed while it is computed:
\* the "lookahead-safe" window and the timing contract of the feedback cycle.
NoLookahead ==
    \A e \in Evaluations :
        /\ \A d \in used[e] : d <= DayOf(e)
        /\ source[e] # NoDay => source[e] < DayOf(e)

\* Every window holds as many days as the strategy demands, each once: the
\* bootstrap tops up the persisted rows to exactly what is missing.
WindowLongEnough ==
    \A e \in Evaluations : pc[e] \in {"persist", "completed"} =>
        Cardinality(used[e]) >= Required(e)

\* An evaluation is refused for a short history only if persisted rows and
\* usable market days together really fall short, and for a duplicate only
\* if two evaluations of one earlier day were both persisted.
RefusedForCause ==
    \A e \in Evaluations :
        /\ pc[e] = "short" =>
              /\ source[e] = NoDay
              /\ Cardinality(DaysOf(Earlier(e)) \cup {d \in Usable : d < DayOf(e)})
                     < MinimumHistory - 1
        /\ pc[e] = "duplicate" =>
              \E f, g \in persisted : f # g /\ DayOf(f) = DayOf(g) /\ DayOf(f) < DayOf(e)

\* The stricter `timestamp < current` rule is "preventing same-day
\* duplication": no evaluation is refused for a duplicate.
NoDayIsDuplicated == \A e \in Evaluations : pc[e] # "duplicate"

================================================================================
