------------------------------- MODULE WalkForward -------------------------------
(***************************************************************************)
(* BacktestEngine, AblationRunner and BacktestService: a request brings    *)
(* returns of some dates and, for one variant or for all of them, target   *)
(* weights of some signal dates.  The engine walks over the return dates   *)
(* of each variant in turn; the results of a request are persisted in one  *)
(* transaction, or not at all.                                             *)
(*                                                                         *)
(* Dates are numbered; a month has DaysPerMonth of them.  One asset stands *)
(* for the portfolio: its weight is clipped to 0 and normalised to Whole.  *)
(* Realised returns and the metrics computed from them are left out.       *)
(***************************************************************************)
EXTENDS Integers, Sequences, FiniteSets, FiniteSetsExt

CONSTANTS
    Variants,     \* AblationVariant, in the order of its definition
    LastDay,      \* bound: dates are 1..LastDay
    DaysPerMonth,
    ReturnDates,  \* sets of dates a request can have returns for
    Frames,       \* target weights: functions from signal dates to weights
    Whole         \* the weight 1.0

VARIABLES
    dates,    \* the index of asset_returns
    weights,  \* variant_weights
    todo,     \* variants not walked yet
    seen,     \* the last return date walked, 0 before the first
    month,    \* last_month, 0 for None
    current,  \* the weight held
    signal,   \* active_signal_date, 0 for None
    rebalance,\* active_rebalance_date, 0 for None
    records,  \* BacktestReturns of the variant that is walked
    results,  \* records of the variants walked
    flushed,  \* variants whose rows are in the open transaction
    stored,   \* what the database has of the request
    status    \* "running", "stored", "invalid" (ValueError) or "failed" (the database)

walkVars == <<dates, weights, todo, seen, month, current, signal, rebalance,
              records, results, flushed, stored, status>>

VariantSet == {Variants[i] : i \in DOMAIN Variants}
Days == 1..LastDay
NoResults == [v \in {} |-> <<>>]
Magnitude(n) == IF n < 0 THEN -n ELSE n
Month(d) == (d - 1) \div DaysPerMonth + 1

TypeOK ==
    /\ dates \subseteq Days /\ DOMAIN weights \subseteq VariantSet
    /\ seen \in {0} \cup dates
    /\ month \in 0..Month(LastDay)
    /\ current \in 0..Whole
    /\ signal \in 0..LastDay /\ rebalance \in 0..LastDay
    /\ \A i \in DOMAIN records : records[i].turnover \in 0..Whole
    /\ DOMAIN results \subseteq DOMAIN weights /\ flushed \subseteq DOMAIN results
    /\ status \in {"running", "stored", "invalid", "failed"}

\* run() stores its result as FULL_STATE_COUPLED, the last variant; run_ablation()
\* may miss some.  All the weights of a request have the same signal dates.
Single == Variants[Len(Variants)]

Init ==
    /\ dates \in ReturnDates
    /\ \/ /\ todo = <<Single>>
          /\ weights \in [{Single} -> Frames]
       \/ /\ todo = Variants
          /\ \E V \in SUBSET VariantSet : weights \in [V -> Frames]
          /\ \A v, u \in DOMAIN weights : DOMAIN weights[v] = DOMAIN weights[u]
    /\ seen = 0 /\ month = 0 /\ current = 0 /\ signal = 0 /\ rebalance = 0
    /\ records = <<>> /\ results = NoResults /\ flushed = {} /\ stored = NoResults
    /\ status = "running"

--------------------------------------------------------------------------------
\* AblationRunner: "missing ablation variants" otherwise.
Complete == \A i \in DOMAIN todo : todo[i] \in DOMAIN weights

\* "backtest inputs must not be empty"
NonEmpty == dates # {} /\ (todo # <<>> => DOMAIN weights[Head(todo)] # {})

Valid == Complete /\ NonEmpty

\* A ValueError becomes a response of status 422.
Refuse ==
    /\ ~Valid
    /\ status' = "invalid"
    /\ UNCHANGED <<dates, weights, todo, seen, month, current, signal, rebalance,
                   records, results, flushed, stored>>

Frame == weights[Head(todo)]
NextDate == Min({d \in dates : d > seen})
Left == {d \in dates : d > seen} # {}

\* The first return date is passed over before its month is looked at.
SkipFirst ==
    /\ Valid /\ todo # <<>> /\ seen = 0
    /\ seen' = Min(dates)
    /\ UNCHANGED <<dates, weights, todo, month, current, signal, rebalance,
                   records, results, flushed, stored, status>>

\* weights.index < realization_date
Available(d) == {s \in DOMAIN Frame : s < d}

\* Mutated form of MonthAfter: a month counts once a signal was there for it.
MonthAfterSignal(d) == IF Available(d) # {} THEN Month(d) ELSE month

\* last_month = month, whether or not a signal was there.
MonthAfter(d) == Month(d)

\* clip(lower=0) and the normalisation of a sum above 1.
Proposed(d) == Min({Whole, Max({0, Frame[Max(Available(d))]})})

\* The rebalance of a date: at the first one of a month, to the latest weights
\* that were known before it.
Rebalances(d) == Month(d) # month /\ Available(d) # {}

Return(s, r, d, t) == [signal |-> s, rebalance |-> r, date |-> d, turnover |-> t]

WalkDate ==
    /\ Valid /\ todo # <<>> /\ seen # 0 /\ Left
    /\ LET d == NextDate
           turnover == IF Rebalances(d) THEN Magnitude(Proposed(d) - current) ELSE 0
       IN  /\ seen' = d
           /\ month' = MonthAfter(d)
           /\ current' = IF Rebalances(d) THEN Proposed(d) ELSE current
           /\ signal' = IF Rebalances(d) THEN Max(Available(d)) ELSE signal
           /\ rebalance' = IF Rebalances(d) THEN d ELSE rebalance
           /\ records' = IF signal' = 0 THEN records
                         ELSE Append(records, Return(signal', rebalance', d, turnover))
    /\ UNCHANGED <<dates, weights, todo, results, flushed, stored, status>>

\* The result of a variant; "backtest produced no realized returns" otherwise.
EndVariant ==
    /\ Valid /\ todo # <<>> /\ seen # 0 /\ ~Left
    /\ IF records = <<>>
       THEN status' = "invalid" /\ UNCHANGED <<todo, results>>
       ELSE /\ results' = [v \in DOMAIN results \cup {Head(todo)} |->
                              IF v = Head(todo) THEN records ELSE results[v]]
            /\ todo' = Tail(todo)
            /\ UNCHANGED status
    /\ seen' = 0 /\ month' = 0 /\ current' = 0 /\ signal' = 0 /\ rebalance' = 0
    /\ records' = <<>>
    /\ UNCHANGED <<dates, weights, flushed, stored>>

\* uq_backtest_return_date and the checks of the table.
KeysFree(rows) ==
    /\ \A i, j \in DOMAIN rows : rows[i].date = rows[j].date => i = j
    /\ \A i \in DOMAIN rows : rows[i].turnover >= 0

\* What the steps that persist leave alone.
walked == <<dates, weights, todo, seen, month, current, signal, rebalance, records, results>>

\* BacktestRepository.create: the rows of one variant are flushed.
Create ==
    /\ todo = <<>> /\ flushed # DOMAIN results
    /\ LET pending == {i \in DOMAIN Variants : Variants[i] \in DOMAIN results \ flushed}
           v == Variants[Min(pending)]
       IN  KeysFree(results[v]) /\ flushed' = flushed \cup {v}
    /\ UNCHANGED <<walked, stored, status>>

Commit ==
    /\ todo = <<>> /\ flushed = DOMAIN results
    /\ stored' = results
    /\ status' = "stored"
    /\ UNCHANGED <<walked, flushed>>

\* The database refuses a row or the commit: everything is rolled back.
Rollback ==
    /\ todo = <<>>
    /\ flushed' = {}
    /\ status' = "failed"
    /\ UNCHANGED <<walked, stored>>

Next ==
    /\ status = "running"
    /\ Refuse \/ SkipFirst \/ WalkDate \/ EndVariant \/ Create \/ Commit \/ Rollback

Spec == Init /\ [][Next]_walkVars

--------------------------------------------------------------------------------
Past == dates \ {Min(dates)}
IsMonthStart(m) == m \in Past /\ \A d \in Past : d < m => Month(d) # Month(m)

\* The month starts up to d that had a signal to rebalance to.
Turns(v, d) == {m \in Past : IsMonthStart(m) /\ m <= d /\ \E s \in DOMAIN weights[v] : s < m}

\* A stored result has one record for every return date on or after the first
\* month start with a signal before it, in order, and none for other dates: a
\* signal that comes after the first date of its month changes nothing before
\* the next one.  Every record takes the latest signal before its last
\* rebalance, which is never one of its own date, and a turnover is charged on
\* that date alone.  An ablation stores all of its variants or, whatever fails
\* on the way, none.
RecordsAreComplete ==
    IF status # "stored" THEN stored = NoResults
    ELSE
        /\ DOMAIN stored \in {{Single}, VariantSet}
        /\ \A v \in DOMAIN stored : LET rows == stored[v] IN
            /\ {rows[i].date : i \in DOMAIN rows} = {d \in Past : Turns(v, d) # {}}
            /\ \A i, j \in DOMAIN rows : i < j => rows[i].date < rows[j].date
            /\ \A i \in DOMAIN rows :
                /\ rows[i].rebalance = Max(Turns(v, rows[i].date))
                /\ rows[i].signal = Max({s \in DOMAIN weights[v] : s < rows[i].rebalance})
                /\ rows[i].turnover # 0 => rows[i].date = rows[i].rebalance

================================================================================
