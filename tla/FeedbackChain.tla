----------------------------- MODULE FeedbackChain -----------------------------
(***************************************************************************)
(* The feedback loop of one portfolio.  A paper rebalance folds the        *)
(* volatility it observes into an adaptive threshold and leaves it in a    *)
(* feedback row of its date; evaluations of later dates classify with it.  *)
(*                                                                         *)
(* Evaluations, paper rebalances, outcomes posted to apply_feedback and    *)
(* control stages of any dates run in any order and interleave: the API    *)
(* takes ids and dates from its requests.  A threshold is represented by   *)
(* where it comes from: the sequence of observations folded into it.       *)
(*                                                                         *)
(* Transactions read what is committed, statement by statement.  Sessions  *)
(* do not autoflush: what a request adds reaches the database at its       *)
(* commit, where the unique keys decide.                                   *)
(***************************************************************************)
EXTENDS Integers, Sequences, FiniteSets

CONSTANTS
    Requests,  \* requests that evaluate, rebalance or post an outcome
    Kinds,     \* the evaluations a day can have: one id for each kind
    LastDay,   \* bound: dates are 1..LastDay
    Outcomes,  \* dates of the outcomes that are posted to apply_feedback
    Nothing    \* no row

Days == 1..LastDay
Evaluations == Kinds \X Days
DayOf(e) == e[2]

ASSUME NothingAssumption == Nothing \notin Evaluations
ASSUME LastDayAssumption == LastDay \in Nat
ASSUME OutcomesAssumption == Outcomes \subseteq Days

VARIABLES
    regime,     \* per evaluation: the threshold of its regime row
    feedback,   \* feedback rows
    lastId,     \* id of the youngest feedback row
    events,     \* evaluations that have a rebalance event
    snapshot,   \* per date: the evaluation whose snapshot it has
    pc,         \* where each request is
    goal,       \* what it is for
    subject,    \* its evaluation
    threshold,  \* the threshold it has read
    seen,       \* the snapshot of its date it has read
    old,        \* the feedback row of its date it has read
    backfilled, \* a feedback row was committed when a later date had rows
                \* (history)
    posted      \* dates that ever had a row of apply_feedback (history)

rows == <<regime, feedback, lastId, events, snapshot, backfilled, posted>>
vars == <<rows, pc, goal, subject, threshold, seen, old>>

Observations == ({"paper", "regime"} \X Evaluations) \cup ({"outcome"} \X Days)
Observed(o) == IF o[1] = "outcome" THEN o[2] ELSE DayOf(o[2])
Row == [id : Nat, day : Days, by : {"paper", "outcome"},
        of : Evaluations, threshold : Seq(Observations)]

TypeOK ==
    /\ regime \in [Evaluations -> Seq(Observations)]
    /\ feedback \subseteq Row
    /\ lastId \in Nat
    /\ events \subseteq Evaluations
    /\ snapshot \in [Days -> Evaluations \cup {Nothing}]
    /\ pc \in [Requests -> {"new", "regime", "persist", "decide", "snapshot", "previous",
                            "baseline", "existing", "commit", "post", "done", "failed"}]
    /\ goal \in [Requests -> {"evaluate", "rebalance", "post"}]
    /\ subject \in [Requests -> Evaluations \cup {Nothing}]
    /\ threshold \in [Requests -> Seq(Observations)]
    /\ seen \in [Requests -> Evaluations \cup {Nothing}]
    /\ old \in [Requests -> SUBSET Row]
    /\ backfilled \in BOOLEAN
    /\ posted \subseteq Days

\* An evaluation without a regime row has an empty threshold.
Init ==
    /\ regime = [e \in Evaluations |-> <<>>]
    /\ feedback = {}
    /\ lastId = 0
    /\ events = {}
    /\ snapshot = [d \in Days |-> Nothing]
    /\ pc = [r \in Requests |-> "new"]
    /\ goal = [r \in Requests |-> "evaluate"]
    /\ subject = [r \in Requests |-> Nothing]
    /\ threshold = [r \in Requests |-> <<>>]
    /\ seen = [r \in Requests |-> Nothing]
    /\ old = [r \in Requests |-> {}]
    /\ backfilled = FALSE
    /\ posted = {}

--------------------------------------------------------------------------------
Goto(r, s) == pc' = [pc EXCEPT ![r] = s]
DateOf(r) == DayOf(subject[r])
Evaluated == {e \in Evaluations : regime[e] # <<>>}

\* ORDER BY observation_date DESC, and ORDER BY observation_date DESC, id DESC.
LatestByDate(R) == {f \in R : \A g \in R : g.day <= f.day}
LatestById(R) == {f \in LatestByDate(R) : \A g \in LatestByDate(R) : g.id <= f.id}

Begin(r, g, e) ==
    /\ pc[r] = "new"
    /\ goal' = [goal EXCEPT ![r] = g]
    /\ subject' = [subject EXCEPT ![r] = e]
    /\ Goto(r, IF g = "post" THEN "previous" ELSE "regime")
    /\ UNCHANGED <<rows, threshold, seen, old>>

\* A request ends, and its local variables with it.
End(r, s) ==
    /\ Goto(r, s)
    /\ threshold' = [threshold EXCEPT ![r] = <<>>]
    /\ seen' = [seen EXCEPT ![r] = Nothing]
    /\ old' = [old EXCEPT ![r] = {}]

\* Where a request goes once its evaluation has a regime row.
AfterRegime(r) == End(r, IF goal[r] = "rebalance" THEN "decide" ELSE "done")

--------------------------------------------------------------------------------
(***************************************************************************)
(* VolatilityEvaluationService.evaluate                                    *)
(***************************************************************************)

\* The evaluation exists already: its rows are loaded.
RegimeReuse(r) ==
    /\ pc[r] = "regime" /\ subject[r] \in Evaluated
    /\ AfterRegime(r)
    /\ UNCHANGED <<rows, goal, subject>>

\* Mutated form of Eligible: the row of the day itself counts.
EligibleSameDay(d) == {f \in feedback : f.day <= d}

\* _regime_service_for_evaluation: feedback of earlier dates only.
Eligible(d) == {f \in feedback : f.day < d}

\* The youngest eligible row gives a fixed threshold; without one the threshold
\* comes from the stress history up to the day.
RegimeRead(r) ==
    /\ pc[r] = "regime" /\ subject[r] \notin Evaluated
    /\ LET F == LatestById(Eligible(DateOf(r)))
       IN  \/ F = {} /\ threshold' = [threshold EXCEPT ![r] = <<<<"regime", subject[r]>>>>]
           \/ \E f \in F : threshold' = [threshold EXCEPT ![r] = f.threshold]
    /\ Goto(r, "persist")
    /\ UNCHANGED <<rows, goal, subject, seen, old>>

\* The commit, or, if another request has committed first, its rows.
RegimePersist(r) ==
    /\ pc[r] = "persist"
    /\ regime' = IF subject[r] \in Evaluated THEN regime
                 ELSE [regime EXCEPT ![subject[r]] = threshold[r]]
    /\ AfterRegime(r)
    /\ UNCHANGED <<feedback, lastId, events, snapshot, backfilled, posted, goal, subject>>

\* Data is missing, the decision is HOLD, a price or a trade is refused.
Refuse(r) ==
    /\ pc[r] \in {"regime", "decide"}
    /\ End(r, "failed")
    /\ UNCHANGED <<rows, goal, subject>>

--------------------------------------------------------------------------------
(***************************************************************************)
(* RebalanceService.execute_paper_rebalance, from the event on             *)
(***************************************************************************)

\* The event is flushed: its evaluation must not have one.
InsertEvent(r) ==
    /\ pc[r] = "decide"
    /\ Goto(r, IF subject[r] \in events THEN "failed" ELSE "snapshot")
    /\ UNCHANGED <<rows, goal, subject, threshold, seen, old>>

ReadSnapshot(r) ==
    /\ pc[r] = "snapshot"
    /\ seen' = [seen EXCEPT ![r] = snapshot[DateOf(r)]]
    /\ Goto(r, "previous")
    /\ UNCHANGED <<rows, goal, subject, threshold, old>>

\* prev_threshold: the latest feedback row of any date, if there is one.
ReadPrevious(r) ==
    /\ pc[r] = "previous" /\ goal[r] = "rebalance"
    /\ IF feedback = {} THEN Goto(r, "baseline") /\ UNCHANGED threshold
       ELSE /\ \E f \in LatestByDate(feedback) :
                   threshold' = [threshold EXCEPT ![r] = f.threshold]
            /\ Goto(r, "existing")
    /\ UNCHANGED <<rows, goal, subject, seen, old>>

\* Else the latest regime of any date.  There is one: this request has evaluated.
ReadBaseline(r) ==
    /\ pc[r] = "baseline"
    /\ \E e \in Evaluated :
          /\ \A x \in Evaluated : DayOf(x) <= DayOf(e)
          /\ threshold' = [threshold EXCEPT ![r] = regime[e]]
    /\ Goto(r, "existing")
    /\ UNCHANGED <<rows, goal, subject, seen, old>>

\* existing_feedback: some row of the same date.
ReadExisting(r) ==
    /\ pc[r] = "existing"
    /\ LET F == {f \in feedback : f.day = DateOf(r)}
       IN  \/ \E f \in F : old' = [old EXCEPT ![r] = {f}]
           \/ F = {} /\ UNCHANGED old
    /\ Goto(r, "commit")
    /\ UNCHANGED <<rows, goal, subject, threshold, seen>>

\* Mutated forms of KeysFree: the snapshot is put in place of whatever there is;
\* events have no key.
KeysFreeUpsert(r) == subject[r] \notin events
KeysFreeEvents(r) == snapshot[DateOf(r)] = seen[r]

\* The keys at commit: nobody has committed an event of the evaluation, and the
\* snapshot of the date is still the one this request deletes, or none.
KeysFree(r) == subject[r] \notin events /\ snapshot[DateOf(r)] = seen[r]

Later(d) == (\E f \in feedback : f.day > d) \/ (\E e \in Evaluated : DayOf(e) > d)

\* Mutated form of NewRow: the row belongs to no evaluation.
NewRowUnowned(r, d, by, o) ==
    [id |-> lastId + 1, day |-> d, by |-> by, of |-> Nothing,
     threshold |-> Append(threshold[r], o)]

\* create_feedback, and the feedback_model of a paper rebalance: what was
\* observed is folded into the threshold that was read.
NewRow(r, d, by, o) ==
    [id |-> lastId + 1, day |-> d, by |-> by, of |-> subject[r],
     threshold |-> Append(threshold[r], o)]

\* A feedback row of this request's evaluation, for date d.
Insert(r, d, by, o, replaced) ==
    /\ lastId' = lastId + 1
    /\ feedback' = (feedback \ replaced) \cup {NewRow(r, d, by, o)}
    /\ backfilled' = (backfilled \/ Later(d))

\* Mutated form of CommitPaper: a snapshot of the date stays.
CommitPaperKeeping(r) ==
    /\ pc[r] = "commit"
    /\ KeysFree(r)
    /\ Insert(r, DateOf(r), "paper", <<"paper", subject[r]>>, old[r])
    /\ events' = events \cup {subject[r]}
    /\ snapshot' = IF seen[r] = Nothing
                   THEN [snapshot EXCEPT ![DateOf(r)] = subject[r]] ELSE snapshot
    /\ End(r, "done")
    /\ UNCHANGED <<regime, posted, goal, subject>>

CommitPaper(r) ==
    /\ pc[r] = "commit"
    /\ KeysFree(r)
    /\ Insert(r, DateOf(r), "paper", <<"paper", subject[r]>>, old[r])
    /\ events' = events \cup {subject[r]}
    /\ snapshot' = [snapshot EXCEPT ![DateOf(r)] = subject[r]]
    /\ End(r, "done")
    /\ UNCHANGED <<regime, posted, goal, subject>>

\* A unique key is taken: the request is rolled back.
ConflictPaper(r) ==
    /\ pc[r] = "commit"
    /\ ~KeysFree(r)
    /\ End(r, "failed")
    /\ UNCHANGED <<rows, goal, subject>>

--------------------------------------------------------------------------------
(***************************************************************************)
(* PortfolioControlService                                                 *)
(***************************************************************************)

\* optimize_and_rebalance of an evaluation: its event and snapshot, in one
\* commit, if neither key is taken.
Control(e) ==
    /\ e \in Evaluated \ events
    /\ snapshot[DayOf(e)] = Nothing
    /\ events' = events \cup {e}
    /\ snapshot' = [snapshot EXCEPT ![DayOf(e)] = e]
    /\ UNCHANGED <<regime, feedback, lastId, backfilled, posted,
                   pc, goal, subject, threshold, seen, old>>

\* apply_feedback: the state of the last row, or one made of the regime.  The
\* evaluation must be complete and the portfolio have a snapshot; the state
\* that a paper rebalance leaves is a threshold only and fails validation.
PostRead(r) ==
    /\ pc[r] = "previous" /\ goal[r] = "post"
    /\ subject[r] \in Evaluated /\ \E d \in Days : snapshot[d] # Nothing
    /\ \/ feedback = {} /\ threshold' = [threshold EXCEPT ![r] = regime[subject[r]]]
       \/ \E f \in LatestByDate(feedback) :
             /\ f.by = "outcome"
             /\ threshold' = [threshold EXCEPT ![r] = f.threshold]
    /\ Goto(r, "post")
    /\ UNCHANGED <<rows, goal, subject, seen, old>>

\* The signals or the risk of the evaluation are missing, or PostRead refuses.
PostRefused(r) ==
    /\ pc[r] = "previous" /\ goal[r] = "post"
    /\ End(r, "failed")
    /\ UNCHANGED <<rows, goal, subject>>

\* The row gets the date of the outcome, whatever it is; nothing is replaced.
PostCommit(r, d) ==
    /\ pc[r] = "post"
    /\ Insert(r, d, "outcome", <<"outcome", d>>, {})
    /\ posted' = posted \cup {d}
    /\ End(r, "done")
    /\ UNCHANGED <<regime, events, snapshot, goal, subject>>

--------------------------------------------------------------------------------
Evaluate(r) == RegimeReuse(r) \/ RegimeRead(r) \/ RegimePersist(r) \/ Refuse(r)

Paper(r) ==
    \/ InsertEvent(r) \/ ReadSnapshot(r) \/ ReadPrevious(r) \/ ReadBaseline(r)
    \/ ReadExisting(r) \/ CommitPaper(r) \/ ConflictPaper(r)

Next ==
    \/ \E r \in Requests :
          \/ \E g \in {"evaluate", "rebalance", "post"}, e \in Evaluations : Begin(r, g, e)
          \/ Evaluate(r) \/ Paper(r) \/ PostRead(r) \/ PostRefused(r)
          \/ \E d \in Outcomes : PostCommit(r, d)
    \/ \E e \in Evaluations : Control(e)

Spec == Init /\ [][Next]_vars

--------------------------------------------------------------------------------
PaperRows(d) == {f \in feedback : f.by = "paper" /\ f.day = d}

\* No paper rebalance is folded into a threshold twice, although every one
\* starts from what earlier ones have left and may be repeated: an evaluation
\* has at most one event, and the event commits with the row.
NothingFoldedTwice ==
    \A f \in feedback : \A i, j \in DOMAIN f.threshold :
        i # j /\ f.threshold[i][1] = "paper" => f.threshold[i] # f.threshold[j]

\* "Idempotency: replace existing feedback for same portfolio+date": a date
\* has one paper row at most.  feedback_updates has no key that says so; what
\* keeps two rebalances of a date apart is the key of the snapshots, which are
\* read before the feedback.  A row that apply_feedback left on the date may
\* be deleted in place of the paper row.
OneRowPerDate ==
    \A d \in Days \ posted : Cardinality(PaperRows(d)) <= 1

\* The snapshot that get_portfolio shows of a rebalanced date and the youngest
\* paper row of the date are of the same evaluation.
SnapshotMatchesFeedback ==
    \A d \in Days : \A f \in PaperRows(d) :
        (\A g \in PaperRows(d) : g.id <= f.id) => snapshot[d] = f.of

Leaks(e) ==
    \E i \in DOMAIN regime[e] :
        Observed(regime[e][i]) >= DayOf(e) /\ regime[e][i] # <<"regime", e>>

\* "limiting the query to earlier dates preserves the timing contract and
\* prevents same-day/future feedback from leaking backward"
\* (_regime_service_for_evaluation): no evaluation is classified with a
\* threshold that its own or a later date has gone into.
NothingLeaksBack == \A e \in Evaluations : ~Leaks(e)

\* That is so as long as feedback is committed in the order of its dates.
LeaksOnlyByBackfill == backfilled \/ NothingLeaksBack

================================================================================
