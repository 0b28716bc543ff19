--------------------------- MODULE FeedbackChainProofs -------------------------
(***************************************************************************)
(* Theorems about the feedback loop, for any requests, kinds, dates and    *)
(* outcomes.                                                               *)
(***************************************************************************)
EXTENDS FeedbackChain, FiniteSetTheorems, TLAPS

--------------------------------------------------------------------------------
(***************************************************************************)
(* Types.                                                                  *)
(***************************************************************************)

LEMMA EvaluationsHaveDays ==
  ASSUME NEW e \in Evaluations
  PROVE  DayOf(e) \in Days /\ e # Nothing
BY NothingAssumption DEF Evaluations, DayOf

LEMMA DaysAreNumbers == Days \subseteq Nat
BY LastDayAssumption DEF Days

LEMMA NoObservations == <<>> \in Seq(Observations)
OBVIOUS

\* A request that has begun has an evaluation, and its stage fits its goal.
Started(r) ==
    /\ pc[r] # "new" => subject[r] \in Evaluations
    /\ pc[r] \in {"decide", "snapshot", "baseline", "existing", "commit"} =>
          goal[r] = "rebalance"

TypeInv == TypeOK /\ \A r \in Requests : Started(r)

\* What a request inserts is a row.
LEMMA NewRowType ==
  ASSUME NEW r \in Requests, TypeInv, pc[r] # "new", NEW d \in Days,
         NEW by \in {"paper", "outcome"}, NEW o \in Observations
  PROVE  NewRow(r, d, by, o) \in Row
BY DEF TypeInv, TypeOK, Started, NewRow, Row

LEMMA TypeInit == Init => TypeInv
<1> SUFFICES ASSUME Init PROVE TypeInv
  OBVIOUS
<1> USE NoObservations DEF Init
<1>1. regime \in [Evaluations -> Seq(Observations)]
  OBVIOUS
<1>2. threshold \in [Requests -> Seq(Observations)]
  OBVIOUS
<1> QED
  BY <1>1, <1>2 DEF TypeInv, TypeOK, Started

\* CommitPaper, PostCommit, RegimePersist and Control change rows; the other
\* steps of a request are its own.
Local(r) ==
    \/ \E g \in {"evaluate", "rebalance", "post"}, e \in Evaluations : Begin(r, g, e)
    \/ RegimeReuse(r) \/ RegimeRead(r) \/ Refuse(r)
    \/ InsertEvent(r) \/ ReadSnapshot(r) \/ ReadPrevious(r) \/ ReadBaseline(r)
    \/ ReadExisting(r) \/ ConflictPaper(r) \/ PostRead(r) \/ PostRefused(r)

LEMMA StepCases ==
  ASSUME [Next]_vars
  PROVE  \/ \E r \in Requests : Local(r)
         \/ \E r \in Requests : RegimePersist(r)
         \/ \E r \in Requests : CommitPaper(r)
         \/ \E r \in Requests, d \in Days : PostCommit(r, d)
         \/ \E e \in Evaluations : Control(e)
         \/ UNCHANGED vars
BY OutcomesAssumption DEF Next, Evaluate, Paper, Local

LEMMA LocalKeepsRows ==
  ASSUME NEW r \in Requests, Local(r)
  PROVE  UNCHANGED rows
BY DEF Local, Begin, RegimeReuse, RegimeRead, Refuse, InsertEvent, ReadSnapshot,
   ReadPrevious, ReadBaseline, ReadExisting, ConflictPaper, PostRead, PostRefused

\* A request's step leaves the other requests alone.
LEMMA OthersStand ==
  ASSUME TypeInv, NEW r \in Requests, NEW q \in Requests \ {r},
         \/ Local(r) \/ RegimePersist(r) \/ CommitPaper(r)
         \/ \E d \in Days : PostCommit(r, d)
  PROVE  /\ pc'[q] = pc[q] /\ goal'[q] = goal[q] /\ subject'[q] = subject[q]
         /\ threshold'[q] = threshold[q] /\ seen'[q] = seen[q] /\ old'[q] = old[q]
<1> USE DEF TypeInv, TypeOK, Goto, End, AfterRegime
<1>1. CASE Local(r)
  BY <1>1 DEF Local, Begin, RegimeReuse, RegimeRead, Refuse, InsertEvent, ReadSnapshot,
     ReadPrevious, ReadBaseline, ReadExisting, ConflictPaper, PostRead, PostRefused
<1>2. CASE RegimePersist(r) \/ CommitPaper(r) \/ \E d \in Days : PostCommit(r, d)
  BY <1>2 DEF RegimePersist, CommitPaper, PostCommit
<1> QED
  BY <1>1, <1>2

LEMMA TypeStep == TypeInv /\ [Next]_vars => TypeInv'
<1> SUFFICES ASSUME TypeInv, [Next]_vars PROVE TypeInv'
  OBVIOUS
<1> USE DEF TypeInv, TypeOK, Started, Goto, End, AfterRegime, rows
<1>1. ASSUME NEW r \in Requests, Local(r) PROVE TypeInv'
  <2>1. CASE \E g \in {"evaluate", "rebalance", "post"}, e \in Evaluations : Begin(r, g, e)
    BY <2>1 DEF Begin
  <2>2. CASE RegimeReuse(r) \/ Refuse(r) \/ InsertEvent(r) \/ ConflictPaper(r) \/ PostRefused(r)
    <3>1. threshold' \in [Requests -> Seq(Observations)]
      BY <2>2, NoObservations DEF RegimeReuse, Refuse, InsertEvent, ConflictPaper, PostRefused
    <3> QED
      BY <2>2, <3>1 DEF RegimeReuse, Refuse, InsertEvent, ConflictPaper, PostRefused
  <2>3. CASE RegimeRead(r)
    <3>1. threshold' \in [Requests -> Seq(Observations)]
      <4>1. <<"regime", subject[r]>> \in Observations
        BY <2>3 DEF RegimeRead, Observations
      <4>2. <<<<"regime", subject[r]>>>> \in Seq(Observations)
        BY <4>1
      <4>3. \A f \in LatestById(Eligible(DateOf(r))) : f.threshold \in Seq(Observations)
        BY DEF LatestById, LatestByDate, Eligible, Row
      <4> QED
        BY <2>3, <4>2, <4>3 DEF RegimeRead
    <3> QED
      BY <2>3, <3>1 DEF RegimeRead
  <2>4. CASE ReadSnapshot(r)
    <3>1. snapshot[DateOf(r)] \in Evaluations \cup {Nothing}
      BY <2>4, EvaluationsHaveDays DEF ReadSnapshot, DateOf
    <3> QED
      BY <2>4, <3>1 DEF ReadSnapshot
  <2>5. CASE ReadPrevious(r) \/ ReadBaseline(r)
    BY <2>5 DEF ReadPrevious, ReadBaseline, LatestByDate, Row, Evaluated
  <2>6. CASE ReadExisting(r)
    <3>1. old' \in [Requests -> SUBSET Row]
      <4>1. CASE UNCHANGED old
        BY <4>1
      <4>2. ASSUME NEW f \in feedback, old' = [old EXCEPT ![r] = {f}]
            PROVE  old' \in [Requests -> SUBSET Row]
        <5>1. {f} \in SUBSET Row
          OBVIOUS
        <5> QED
          BY <4>2, <5>1
      <4> QED
        BY <2>6, <4>1, <4>2 DEF ReadExisting
    <3> QED
      BY <2>6, <3>1 DEF ReadExisting
  <2>7. CASE PostRead(r)
    <3>1. threshold' \in [Requests -> Seq(Observations)]
      BY <2>7 DEF PostRead, LatestByDate, Row
    <3> QED
      BY <2>7, <3>1 DEF PostRead
  <2> QED
    BY <1>1, <2>1, <2>2, <2>3, <2>4, <2>5, <2>6, <2>7 DEF Local
<1>2. ASSUME NEW r \in Requests, RegimePersist(r) PROVE TypeInv'
  BY <1>2 DEF RegimePersist
<1>3. ASSUME NEW r \in Requests, CommitPaper(r) PROVE TypeInv'
  <2>1. DateOf(r) \in Days /\ <<"paper", subject[r]>> \in Observations
    BY <1>3, EvaluationsHaveDays DEF CommitPaper, DateOf, Observations
  <2>2. NewRow(r, DateOf(r), "paper", <<"paper", subject[r]>>) \in Row
    BY <1>3, <2>1, NewRowType DEF CommitPaper
  <2>3. feedback' \subseteq Row /\ lastId' \in Nat /\ backfilled' \in BOOLEAN
    BY <1>3, <2>2 DEF CommitPaper, Insert, Later
  <2> QED
    BY <1>3, <2>1, <2>3 DEF CommitPaper
<1>4. ASSUME NEW r \in Requests, NEW d \in Days, PostCommit(r, d) PROVE TypeInv'
  <2>1. <<"outcome", d>> \in Observations
    BY DEF Observations
  <2>2. NewRow(r, d, "outcome", <<"outcome", d>>) \in Row
    BY <1>4, <2>1, NewRowType DEF PostCommit
  <2>3. feedback' \subseteq Row /\ lastId' \in Nat /\ backfilled' \in BOOLEAN
    BY <1>4, <2>2 DEF PostCommit, Insert, Later
  <2> QED
    BY <1>4, <2>3 DEF PostCommit
<1>5. ASSUME NEW e \in Evaluations, Control(e) PROVE TypeInv'
  BY <1>5, EvaluationsHaveDays DEF Control
<1>6. CASE UNCHANGED vars
  BY <1>6 DEF vars
<1> QED
  BY <1>1, <1>2, <1>3, <1>4, <1>5, <1>6, StepCases

LEMMA TypeAlways == Spec => []TypeInv
BY TypeInit, TypeStep, PTL DEF Spec

\* The variables always have their types.
THEOREM TypeCorrect == Spec => []TypeOK
BY TypeAlways, PTL DEF TypeInv

--------------------------------------------------------------------------------
(***************************************************************************)
(* One event, one row, one snapshot.                                       *)
(***************************************************************************)

\* A request that rebalances and has read the snapshot of its date.
Pending(r) == pc[r] \in {"previous", "baseline", "existing", "commit"} /\ goal[r] = "rebalance"

\* What a request has read of its date, in the order in which it reads.  While
\* the snapshot is the one it has read, nobody has rebalanced the date since:
\* events are never taken back, and a snapshot belongs to one.
UpToDate(r) ==
    /\ Pending(r) => seen[r] \in events \cup {Nothing}
    /\ pc[r] # "commit" => old[r] = {}
    /\ \A f \in old[r] : f.day = DateOf(r)
    /\ pc[r] = "commit" /\ snapshot[DateOf(r)] = seen[r] /\ DateOf(r) \notin posted =>
          {f \in feedback : f.day = DateOf(r)} \subseteq old[r]

Singular ==
    /\ \A f, g \in feedback : f.day = g.day /\ f.day \notin posted => f = g
    /\ \A f \in feedback : f.by = "outcome" => f.day \in posted
    /\ \A d \in Days : snapshot[d] \in events \cup {Nothing}

RowInv == TypeInv /\ Singular /\ \A r \in Requests : UpToDate(r)

LEMMA RowInit == Init => RowInv
BY TypeInit DEF Init, RowInv, Singular, UpToDate, Pending

LEMMA SingularStep ==
  ASSUME RowInv, [Next]_vars
  PROVE  Singular'
<1> USE DEF RowInv, Singular
<1>1. ASSUME UNCHANGED rows PROVE Singular'
  BY <1>1 DEF rows
<1>2. ASSUME NEW r \in Requests, RegimePersist(r) PROVE Singular'
  BY <1>2 DEF RegimePersist
<1>3. ASSUME NEW r \in Requests, CommitPaper(r) PROVE Singular'
  <2> DEFINE d == DateOf(r)
             n == NewRow(r, d, "paper", <<"paper", subject[r]>>)
  <2>1. n.day = d /\ n.by = "paper"
    BY DEF NewRow
  <2>2. feedback' = (feedback \ old[r]) \cup {n} /\ posted' = posted
    BY <1>3 DEF CommitPaper, Insert
  <2>3. d \notin posted => \A f \in feedback : f.day = d => f \in old[r]
    BY <1>3 DEF CommitPaper, KeysFree, UpToDate
  <2>4. /\ events' = events \cup {subject[r]}
        /\ snapshot' = [snapshot EXCEPT ![d] = subject[r]]
    BY <1>3 DEF CommitPaper
  <2>5. \A x \in Days : snapshot'[x] \in events' \cup {Nothing}
    BY <2>4 DEF TypeInv, TypeOK
  <2> HIDE DEF n, d
  <2>6. \A f, g \in feedback' : f.day = g.day /\ f.day \notin posted' => f = g
    BY <2>1, <2>2, <2>3
  <2>7. \A f \in feedback' : f.by = "outcome" => f.day \in posted'
    BY <2>1, <2>2
  <2> QED
    BY <2>5, <2>6, <2>7
<1>4. ASSUME NEW r \in Requests, NEW d \in Days, PostCommit(r, d) PROVE Singular'
  <2> DEFINE n == NewRow(r, d, "outcome", <<"outcome", d>>)
  <2>1. n.day = d
    BY DEF NewRow
  <2>2. /\ feedback' = feedback \cup {n} /\ posted' = posted \cup {d}
        /\ events' = events /\ snapshot' = snapshot
    BY <1>4 DEF PostCommit, Insert
  <2> HIDE DEF n
  <2> QED
    BY <2>1, <2>2
<1>5. ASSUME NEW e \in Evaluations, Control(e) PROVE Singular'
  BY <1>5 DEF Control, TypeInv, TypeOK
<1> QED
  BY <1>1, <1>2, <1>3, <1>4, <1>5, StepCases, LocalKeepsRows DEF vars

\* A request that does not move stays up to date, or sees another snapshot.
LEMMA UpToDateStands ==
  ASSUME RowInv, [Next]_vars, NEW q \in Requests,
         pc'[q] = pc[q], goal'[q] = goal[q], subject'[q] = subject[q],
         seen'[q] = seen[q], old'[q] = old[q]
  PROVE  UpToDate(q)'
<1> USE DEF RowInv, UpToDate, Pending, DateOf
<1>0. pc[q] = "commit" => Pending(q) /\ DateOf(q) \in Days /\ subject[q] # Nothing
  BY EvaluationsHaveDays DEF TypeInv, Started
<1>1. ASSUME UNCHANGED <<feedback, events, snapshot, posted>> PROVE UpToDate(q)'
  BY <1>1
<1>2. ASSUME NEW r \in Requests, CommitPaper(r) PROVE UpToDate(q)'
  <2> DEFINE d == DateOf(r)
             n == NewRow(r, d, "paper", <<"paper", subject[r]>>)
  <2>1. n.day = d
    BY DEF NewRow
  <2>2. /\ feedback' = (feedback \ old[r]) \cup {n} /\ posted' = posted
        /\ events' = events \cup {subject[r]}
        /\ snapshot' = [snapshot EXCEPT ![d] = subject[r]]
        /\ subject[r] \notin events
    BY <1>2 DEF CommitPaper, Insert, KeysFree
  <2>3. subject[r] # Nothing
    BY <1>2, EvaluationsHaveDays DEF CommitPaper, TypeInv, Started
  <2>4. CASE DateOf(q) = d
    BY <1>0, <2>2, <2>3, <2>4 DEF TypeInv, TypeOK
  <2>5. CASE DateOf(q) # d
    <3> HIDE DEF n, d
    <3> QED
      BY <1>0, <2>1, <2>2, <2>5 DEF TypeInv, TypeOK
  <2> QED
    BY <2>4, <2>5
<1>3. ASSUME NEW r \in Requests, NEW d \in Days, PostCommit(r, d) PROVE UpToDate(q)'
  <2> DEFINE n == NewRow(r, d, "outcome", <<"outcome", d>>)
  <2>1. n.day = d
    BY DEF NewRow
  <2>2. /\ feedback' = feedback \cup {n} /\ posted' = posted \cup {d}
        /\ events' = events /\ snapshot' = snapshot
    BY <1>3 DEF PostCommit, Insert
  <2> HIDE DEF n
  <2> QED
    BY <2>1, <2>2
<1>4. ASSUME NEW e \in Evaluations, Control(e) PROVE UpToDate(q)'
  <2>1. e # Nothing /\ DayOf(e) \in Days
    BY EvaluationsHaveDays
  <2>2. /\ UNCHANGED <<feedback, posted>> /\ events' = events \cup {e}
        /\ snapshot' = [snapshot EXCEPT ![DayOf(e)] = e] /\ e \notin events
    BY <1>4 DEF Control
  <2> QED
    BY <1>0, <2>1, <2>2 DEF TypeInv, TypeOK
<1>5. ASSUME NEW r \in Requests, RegimePersist(r) PROVE UpToDate(q)'
  BY <1>1, <1>5 DEF RegimePersist
<1> QED
  BY <1>1, <1>2, <1>3, <1>4, <1>5, StepCases, LocalKeepsRows DEF vars, rows

\* A request that moves has read what it relies on.
LEMMA UpToDateMoves ==
  ASSUME RowInv, NEW r \in Requests,
         Local(r) \/ RegimePersist(r) \/ CommitPaper(r) \/ \E d \in Days : PostCommit(r, d)
  PROVE  UpToDate(r)'
<1> USE DEF RowInv, TypeInv, TypeOK, UpToDate, Pending, DateOf, Goto, End, AfterRegime
<1>1. CASE \/ RegimeReuse(r) \/ RegimePersist(r) \/ Refuse(r) \/ CommitPaper(r)
           \/ ConflictPaper(r) \/ PostRefused(r) \/ \E d \in Days : PostCommit(r, d)
  BY <1>1 DEF RegimeReuse, RegimePersist, Refuse, CommitPaper, ConflictPaper, PostRefused,
     PostCommit
<1>2. CASE \E g \in {"evaluate", "rebalance", "post"}, e \in Evaluations : Begin(r, g, e)
  BY <1>2 DEF Begin, rows
<1>3. CASE RegimeRead(r) \/ InsertEvent(r) \/ PostRead(r)
  BY <1>3 DEF RegimeRead, InsertEvent, PostRead, rows
<1>4. CASE ReadSnapshot(r)
  <2>1. DateOf(r) \in Days
    BY <1>4, EvaluationsHaveDays DEF ReadSnapshot, Started
  <2> QED
    BY <1>4, <2>1 DEF ReadSnapshot, Singular, rows
<1>5. CASE ReadPrevious(r) \/ ReadBaseline(r)
  BY <1>5 DEF ReadPrevious, ReadBaseline, rows
<1>6. CASE ReadExisting(r)
  BY <1>6 DEF ReadExisting, Singular, rows
<1> QED
  BY <1>1, <1>2, <1>3, <1>4, <1>5, <1>6 DEF Local

LEMMA RowInductive == RowInv /\ [Next]_vars => RowInv'
<1> SUFFICES ASSUME RowInv, [Next]_vars PROVE RowInv'
  OBVIOUS
<1>1. TypeInv' /\ Singular'
  BY TypeStep, SingularStep DEF RowInv
<1>2. ASSUME NEW r \in Requests,
             \/ Local(r) \/ RegimePersist(r) \/ CommitPaper(r)
             \/ \E d \in Days : PostCommit(r, d),
             NEW q \in Requests
      PROVE  UpToDate(q)'
  <2>1. CASE q = r
    BY <1>2, <2>1, UpToDateMoves
  <2>2. CASE q # r
    BY <1>2, <2>2, OthersStand, UpToDateStands DEF RowInv
  <2> QED
    BY <2>1, <2>2
<1>3. CASE (\E e \in Evaluations : Control(e)) \/ UNCHANGED vars
  <2>1. UNCHANGED <<pc, goal, subject, seen, old>>
    BY <1>3 DEF Control, vars
  <2>2. \A q \in Requests : UpToDate(q)'
    BY <2>1, UpToDateStands
  <2> QED
    BY <1>1, <2>2 DEF RowInv
<1> QED
  BY <1>1, <1>2, <1>3, StepCases DEF RowInv

LEMMA RowAlways == Spec => []RowInv
BY RowInit, RowInductive, PTL DEF Spec

\* A date without posted outcomes has one paper row at most.
THEOREM OneRow == Spec => []OneRowPerDate
<1>1. ASSUME RowInv PROVE OneRowPerDate
  <2> SUFFICES ASSUME NEW d \in Days \ posted PROVE Cardinality(PaperRows(d)) <= 1
    BY DEF OneRowPerDate
  <2>1. CASE PaperRows(d) = {}
    BY <2>1, FS_EmptySet
  <2>2. CASE PaperRows(d) # {}
    <3>1. PICK f : f \in PaperRows(d)
      BY <2>2
    <3>2. PaperRows(d) = {f}
      BY <1>1, <3>1 DEF PaperRows, RowInv, Singular
    <3> QED
      BY <3>2, FS_Singleton
  <2> QED
    BY <2>1, <2>2
<1> QED
  BY <1>1, RowAlways, PTL

--------------------------------------------------------------------------------
(***************************************************************************)
(* No paper rebalance is folded in twice.                                  *)
(***************************************************************************)

\* The paper observations of t are of evaluations in E, once each.
Folded(t, E) ==
    /\ \A i \in DOMAIN t : t[i][1] = "paper" => t[i][2] \in E
    /\ \A i, j \in DOMAIN t : i # j /\ t[i][1] = "paper" => t[i] # t[j]

FoldInv ==
    /\ TypeInv
    /\ \A f \in feedback : Folded(f.threshold, events)
    /\ \A e \in Evaluations : Folded(regime[e], events)
    /\ \A r \in Requests : Folded(threshold[r], events)

LEMMA FoldInit == Init => FoldInv
<1> SUFFICES ASSUME Init PROVE FoldInv
  OBVIOUS
<1>1. Folded(<<>>, events)
  BY DEF Folded
<1>2. feedback = {} /\ \A e \in Evaluations : regime[e] = <<>>
  BY DEF Init
<1>3. \A r \in Requests : threshold[r] = <<>>
  BY DEF Init
<1> QED
  BY <1>1, <1>2, <1>3, TypeInit DEF FoldInv

\* Events are never taken back, so what is folded stays folded.
LEMMA EventsStay ==
  ASSUME [Next]_vars
  PROVE  events \subseteq events'
BY StepCases, LocalKeepsRows DEF RegimePersist, CommitPaper, PostCommit, Control, rows, vars

\* An observation that is no paper observation may come on top; a paper
\* observation, of an evaluation that had no event.
LEMMA FoldedAppend ==
  ASSUME NEW t \in Seq(Observations), NEW E, NEW F, Folded(t, E), E \subseteq F,
         NEW o \in Observations, o[1] = "paper" => o[2] \in F \ E
  PROVE  Folded(Append(t, o), F)
<1> DEFINE u == Append(t, o)
<1>1. /\ DOMAIN u = 1..Len(t)+1
      /\ \A i \in 1..Len(t) : u[i] = t[i]
      /\ u[Len(t)+1] = o
  OBVIOUS
<1>2. DOMAIN t = 1..Len(t) /\ Len(t) \in Nat
  OBVIOUS
<1> HIDE DEF u
<1>3. \A i \in DOMAIN u : u[i][1] = "paper" => u[i][2] \in F
  BY <1>1, <1>2 DEF Folded
<1>4. ASSUME NEW i \in DOMAIN u, NEW j \in DOMAIN u, i # j, u[i][1] = "paper"
      PROVE  u[i] # u[j]
  BY <1>1, <1>2, <1>4 DEF Folded
<1>5. Folded(u, F)
  BY <1>3, <1>4 DEF Folded
<1> QED
  BY <1>5 DEF u

\* A request takes its threshold from a row, from a regime or from the history.
LEMMA ThresholdSources ==
  ASSUME TypeInv, NEW r \in Requests, Local(r)
  PROVE  \/ threshold'[r] = threshold[r]
         \/ threshold'[r] = <<>>
         \/ threshold'[r] = <<<<"regime", subject[r]>>>>
         \/ \E f \in feedback : threshold'[r] = f.threshold
         \/ \E e \in Evaluations : threshold'[r] = regime[e]
<1> USE DEF TypeInv, TypeOK, Goto, End, AfterRegime
<1>1. CASE \/ \E g \in {"evaluate", "rebalance", "post"}, e \in Evaluations : Begin(r, g, e)
           \/ InsertEvent(r) \/ ReadSnapshot(r) \/ ReadExisting(r)
  BY <1>1 DEF Begin, InsertEvent, ReadSnapshot, ReadExisting
<1>2. CASE RegimeReuse(r) \/ Refuse(r) \/ ConflictPaper(r) \/ PostRefused(r)
  BY <1>2 DEF RegimeReuse, Refuse, ConflictPaper, PostRefused
<1>3. CASE RegimeRead(r)
  BY <1>3 DEF RegimeRead, LatestById, LatestByDate, Eligible
<1>4. CASE ReadPrevious(r) \/ ReadBaseline(r)
  BY <1>4 DEF ReadPrevious, ReadBaseline, LatestByDate, Evaluated
<1>5. CASE PostRead(r)
  BY <1>5 DEF PostRead, LatestByDate, Evaluated
<1> QED
  BY <1>1, <1>2, <1>3, <1>4, <1>5 DEF Local

LEMMA FoldStep ==
  ASSUME FoldInv, [Next]_vars
  PROVE  FoldInv'
<1>t. TypeInv'
  BY TypeStep DEF FoldInv
<1>m. events \subseteq events' /\ \A t : Folded(t, events) => Folded(t, events')
  BY EventsStay DEF Folded
<1>e. Folded(<<>>, events') /\ \A e : Folded(<<<<"regime", e>>>>, events')
  BY DEF Folded
<1> USE DEF FoldInv, TypeInv, TypeOK, End, AfterRegime
<1>1. ASSUME NEW r \in Requests, Local(r) PROVE FoldInv'
  <2>1. UNCHANGED <<feedback, regime>>
    BY <1>1, LocalKeepsRows DEF rows
  <2>2. Folded(threshold'[r], events')
    BY <1>1, <1>e, <1>m, ThresholdSources
  <2>3. \A q \in Requests \ {r} : threshold'[q] = threshold[q]
    BY <1>1, OthersStand
  <2> QED
    BY <1>t, <1>m, <2>1, <2>2, <2>3
<1>2. ASSUME NEW r \in Requests, RegimePersist(r) PROVE FoldInv'
  <2>1. /\ feedback' = feedback
        /\ threshold' = [threshold EXCEPT ![r] = <<>>]
        /\ \A e \in Evaluations : regime'[e] = regime[e] \/ regime'[e] = threshold[r]
    BY <1>2 DEF RegimePersist
  <2> QED
    BY <1>t, <1>m, <1>e, <2>1
<1>3. ASSUME NEW r \in Requests, CommitPaper(r) PROVE FoldInv'
  <2>1. <<"paper", subject[r]>> \in Observations
    BY <1>3 DEF CommitPaper, Started, Observations
  <2>2. Folded(Append(threshold[r], <<"paper", subject[r]>>), events')
    BY <1>3, <1>m, <2>1, FoldedAppend DEF CommitPaper, KeysFree
  <2>3. \A f \in feedback' : \/ f \in feedback
                             \/ f.threshold = Append(threshold[r], <<"paper", subject[r]>>)
    BY <1>3 DEF CommitPaper, Insert, NewRow
  <2>4. threshold' = [threshold EXCEPT ![r] = <<>>] /\ regime' = regime
    BY <1>3 DEF CommitPaper
  <2> QED
    BY <1>t, <1>m, <1>e, <2>2, <2>3, <2>4
<1>4. ASSUME NEW r \in Requests, NEW d \in Days, PostCommit(r, d) PROVE FoldInv'
  <2>1. <<"outcome", d>> \in Observations
    BY DEF Observations
  <2>2. Folded(Append(threshold[r], <<"outcome", d>>), events')
    <3>1. threshold[r] \in Seq(Observations) /\ Folded(threshold[r], events)
      OBVIOUS
    <3>2. <<"outcome", d>>[1] # "paper"
      OBVIOUS
    <3> QED
      BY <1>m, <2>1, <3>1, <3>2, FoldedAppend
  <2>3. \A f \in feedback' : \/ f \in feedback
                             \/ f.threshold = Append(threshold[r], <<"outcome", d>>)
    BY <1>4 DEF PostCommit, Insert, NewRow
  <2>4. threshold' = [threshold EXCEPT ![r] = <<>>] /\ regime' = regime
    BY <1>4 DEF PostCommit
  <2> QED
    BY <1>t, <1>m, <1>e, <2>2, <2>3, <2>4
<1>5. CASE (\E e \in Evaluations : Control(e)) \/ UNCHANGED vars
  <2>1. UNCHANGED <<feedback, regime, threshold>>
    BY <1>5 DEF Control, vars, rows
  <2> QED
    BY <1>t, <1>m, <2>1
<1> QED
  BY <1>1, <1>2, <1>3, <1>4, <1>5, StepCases

LEMMA FoldAlways == Spec => []FoldInv
<1>1. FoldInv /\ [Next]_vars => FoldInv'
  BY FoldStep
<1> QED
  BY <1>1, FoldInit, PTL DEF Spec

\* No paper rebalance is folded into a threshold twice.
THEOREM FoldedOnce == Spec => []NothingFoldedTwice
<1>1. FoldInv => NothingFoldedTwice
  BY DEF FoldInv, Folded, NothingFoldedTwice
<1> QED
  BY <1>1, FoldAlways, PTL

--------------------------------------------------------------------------------
(***************************************************************************)
(* The snapshot of a rebalanced date.                                      *)
(***************************************************************************)

SnapshotInv ==
    /\ RowInv
    /\ \A f \in feedback : f.id <= lastId
    /\ \A d \in Days : PaperRows(d) # {} => snapshot[d] # Nothing
    /\ SnapshotMatchesFeedback

LEMMA SnapshotInit == Init => SnapshotInv
BY RowInit DEF Init, SnapshotInv, PaperRows, SnapshotMatchesFeedback

LEMMA SnapshotStep ==
  ASSUME SnapshotInv, [Next]_vars
  PROVE  SnapshotInv'
<1>r. RowInv'
  BY RowInductive DEF SnapshotInv
<1> USE DEF SnapshotInv, RowInv, TypeInv, TypeOK, SnapshotMatchesFeedback, PaperRows
<1>1. ASSUME UNCHANGED <<feedback, lastId, snapshot>> PROVE SnapshotInv'
  BY <1>r, <1>1
<1>2. ASSUME NEW r \in Requests, CommitPaper(r) PROVE SnapshotInv'
  <2>0. DateOf(r) \in Days /\ subject[r] # Nothing
    BY <1>2, EvaluationsHaveDays DEF CommitPaper, DateOf, Started
  <2> PICK d \in Days : d = DateOf(r)
    BY <2>0
  <2> DEFINE n == NewRow(r, d, "paper", <<"paper", subject[r]>>)
  <2>1. n.day = d /\ n.by = "paper" /\ n.id = lastId + 1 /\ n.of = subject[r]
    BY DEF NewRow
  <2>2. /\ feedback' = (feedback \ old[r]) \cup {n}
        /\ lastId' = lastId + 1
        /\ snapshot' = [snapshot EXCEPT ![d] = subject[r]]
    BY <1>2 DEF CommitPaper, Insert
  <2>4. \A f \in old[r] : f.day = d
    BY DEF UpToDate
  <2>5. \A f \in feedback : f.id \in Nat
    BY DEF Row
  <2> HIDE DEF n
  <2>6. \A f \in feedback' : f.id <= lastId'
    BY <2>1, <2>2, <2>5
  <2>7. \A x \in Days : x # d => PaperRows(x)' = PaperRows(x) /\ snapshot'[x] = snapshot[x]
    BY <2>1, <2>2, <2>0, <2>4
  <2>8. n \in PaperRows(d)' /\ snapshot'[d] = subject[r]
    <3>1. n \in feedback' /\ n.by = "paper" /\ n.day = d
      BY <2>1, <2>2
    <3>2. snapshot'[d] = subject[r]
      BY <2>2, <2>0
    <3> QED
      BY <3>1, <3>2
  <2>9. \A f \in PaperRows(d)' : f = n \/ f.id < n.id
    BY <2>1, <2>2, <2>5
  <2>10. ASSUME NEW x \in Days, PaperRows(x)' # {} PROVE snapshot'[x] # Nothing
    BY <2>0, <2>7, <2>8, <2>10
  <2>11. ASSUME NEW x \in Days, NEW f \in PaperRows(x)',
                \A g \in PaperRows(x)' : g.id <= f.id
         PROVE  snapshot'[x] = f.of
    <3>1. CASE x = d
      <4>1. f = n
        <5>1. n.id <= f.id
          BY <2>8, <2>11, <3>1
        <5>2. f \in PaperRows(d)' /\ n.id \in Nat /\ f.id \in Nat
          BY <2>1, <2>2, <2>5, <2>11, <3>1
        <5> QED
          BY <2>9, <5>1, <5>2
      <4> QED
        BY <2>1, <2>8, <3>1, <4>1
    <3>2. CASE x # d
      BY <2>7, <2>11, <3>2
    <3> QED
      BY <3>1, <3>2
  <2>12. SnapshotMatchesFeedback'
    BY <2>11
  <2> QED
    BY <1>r, <2>6, <2>10, <2>12
<1>3. ASSUME NEW r \in Requests, NEW d \in Days, PostCommit(r, d) PROVE SnapshotInv'
  <2> DEFINE n == NewRow(r, d, "outcome", <<"outcome", d>>)
  <2>1. n.by = "outcome" /\ n.id = lastId + 1
    BY DEF NewRow
  <2>2. /\ feedback' = feedback \cup {n}
        /\ lastId' = lastId + 1 /\ snapshot' = snapshot
    BY <1>3 DEF PostCommit, Insert
  <2>3. \A f \in feedback : f.id \in Nat
    BY DEF Row
  <2> HIDE DEF n
  <2>4. \A f \in feedback' : f.id <= lastId'
    BY <2>1, <2>2, <2>3
  <2>5. \A x \in Days : PaperRows(x)' = PaperRows(x)
    BY <2>1, <2>2
  <2> QED
    BY <1>r, <2>2, <2>4, <2>5
<1>4. ASSUME NEW e \in Evaluations, Control(e) PROVE SnapshotInv'
  <2>1. DayOf(e) \in Days /\ e # Nothing
    BY EvaluationsHaveDays
  <2>2. /\ UNCHANGED <<feedback, lastId>>
        /\ snapshot[DayOf(e)] = Nothing
        /\ snapshot' = [snapshot EXCEPT ![DayOf(e)] = e]
    BY <1>4 DEF Control
  <2>3. PaperRows(DayOf(e)) = {}
    BY <2>1, <2>2
  <2> QED
    BY <1>r, <2>1, <2>2, <2>3
<1>5. ASSUME NEW r \in Requests, RegimePersist(r) PROVE SnapshotInv'
  BY <1>1, <1>5 DEF RegimePersist
<1>6. ASSUME UNCHANGED rows PROVE SnapshotInv'
  BY <1>1, <1>6 DEF rows
<1> QED
  BY <1>2, <1>3, <1>4, <1>5, <1>6, StepCases, LocalKeepsRows DEF vars

LEMMA SnapshotAlways == Spec => []SnapshotInv
<1>1. SnapshotInv /\ [Next]_vars => SnapshotInv'
  BY SnapshotStep
<1> QED
  BY <1>1, SnapshotInit, PTL DEF Spec

\* The snapshot of a date and its youngest paper row are of one evaluation.
THEOREM SnapshotOfTheYoungest == Spec => []SnapshotMatchesFeedback
BY SnapshotAlways, PTL DEF SnapshotInv

--------------------------------------------------------------------------------
(***************************************************************************)
(* Nothing leaks back while feedback comes in the order of its dates.      *)
(***************************************************************************)

\* What t holds was observed by day d, or by a date that has a row by now.
By(t, d) == \A i \in DOMAIN t : Observed(t[i]) <= d
Reached == {f.day : f \in feedback} \cup {DayOf(e) : e \in Evaluated}
Covered(t) == \A i \in DOMAIN t : \E d \in Reached : Observed(t[i]) <= d

\* What may classify e: earlier observations, and e's own history.
Clean(t, e) ==
    \A i \in DOMAIN t : Observed(t[i]) < DayOf(e) \/ t[i] = <<"regime", e>>

\* As long as no row was committed behind a later date: a row holds nothing
\* later than itself, and what a request is about to fold into is covered.
Ordered ==
    /\ \A f \in feedback : By(f.threshold, f.day)
    /\ \A e \in Evaluations : Clean(regime[e], e)
    /\ \A r \in Requests : pc[r] = "persist" => Clean(threshold[r], subject[r])
    /\ \A r \in Requests : pc[r] \in {"existing", "commit", "post"} => Covered(threshold[r])

LeakInv == TypeInv /\ (~backfilled => Ordered)

LEMMA ObservedDays ==
  ASSUME NEW o \in Observations
  PROVE  Observed(o) \in Days /\ Observed(o) \in Nat
<1>1. Observed(o) \in Days
  BY EvaluationsHaveDays DEF Observations, Observed
<1> QED
  BY <1>1, DaysAreNumbers

LEMMA LeakInit == Init => LeakInv
<1> SUFFICES ASSUME Init PROVE LeakInv
  OBVIOUS
<1>1. feedback = {} /\ \A e \in Evaluations : regime[e] = <<>>
  BY DEF Init
<1>2. \A r \in Requests : pc[r] = "new"
  BY DEF Init
<1> QED
  BY <1>1, <1>2, TypeInit DEF LeakInv, Ordered, Clean

\* A date that has a row keeps one.
LEMMA ReachedGrows ==
  ASSUME RowInv, [Next]_vars
  PROVE  Reached \subseteq Reached'
<1> USE DEF RowInv, TypeInv, TypeOK, Reached, Evaluated
<1>1. ASSUME UNCHANGED <<feedback, regime>> PROVE Reached \subseteq Reached'
  BY <1>1
<1>2. ASSUME NEW r \in Requests, CommitPaper(r) PROVE Reached \subseteq Reached'
  <2> DEFINE n == NewRow(r, DateOf(r), "paper", <<"paper", subject[r]>>)
  <2>1. n.day = DateOf(r)
    BY DEF NewRow
  <2>2. feedback' = (feedback \ old[r]) \cup {n} /\ regime' = regime
    BY <1>2 DEF CommitPaper, Insert
  <2>3. \A f \in old[r] : f.day = DateOf(r)
    BY DEF UpToDate
  <2> HIDE DEF n
  <2>4. \A f \in feedback : \E g \in feedback' : g.day = f.day
    BY <2>1, <2>2, <2>3
  <2> QED
    BY <2>2, <2>4
<1>3. ASSUME NEW r \in Requests, NEW d \in Days, PostCommit(r, d)
      PROVE  Reached \subseteq Reached'
  BY <1>3 DEF PostCommit, Insert
<1>4. ASSUME NEW r \in Requests, RegimePersist(r) PROVE Reached \subseteq Reached'
  BY <1>4 DEF RegimePersist
<1> QED
  BY <1>1, <1>2, <1>3, <1>4, StepCases, LocalKeepsRows DEF Control, rows, vars

\* A row committed behind no later date holds nothing later than itself.
LEMMA InsertInOrder ==
  ASSUME TypeInv, NEW r \in Requests, NEW d \in Days, Covered(threshold[r]), ~Later(d),
         NEW o \in Observations, Observed(o) <= d
  PROVE  By(Append(threshold[r], o), d)
<1> DEFINE t == threshold[r]
           u == Append(t, o)
<1>1. t \in Seq(Observations)
  BY DEF TypeInv, TypeOK
<1>2. /\ DOMAIN u = 1..Len(t)+1
      /\ \A i \in 1..Len(t) : u[i] = t[i] /\ t[i] \in Observations
      /\ u[Len(t)+1] = o
      /\ DOMAIN t = 1..Len(t) /\ Len(t) \in Nat
  BY <1>1
<1>3. \A x \in Reached : x \in Nat /\ x <= d
  <2>0. d \in Nat
    BY DaysAreNumbers
  <2>1. \A f \in feedback : f.day \in Nat /\ f.day <= d
    <3>1. \A f \in feedback : f.day \in Nat
      BY DaysAreNumbers DEF TypeInv, TypeOK, Row
    <3> QED
      BY <2>0, <3>1 DEF Later
  <2>2. \A e \in Evaluated : DayOf(e) \in Nat /\ DayOf(e) <= d
    <3>1. \A e \in Evaluated : DayOf(e) \in Nat
      BY EvaluationsHaveDays, DaysAreNumbers DEF Evaluated
    <3> QED
      BY <2>0, <3>1 DEF Later
  <2> QED
    BY <2>1, <2>2 DEF Reached
<1>4. \A i \in 1..Len(t) : Observed(t[i]) <= d
  BY <1>2, <1>3, ObservedDays, DaysAreNumbers DEF Covered
<1> HIDE DEF u, t
<1>5. \A i \in DOMAIN u : Observed(u[i]) <= d
  BY <1>2, <1>4
<1> QED
  BY <1>5 DEF By, u, t

\* What a request reads of rows in order is clean, or covered.
LEMMA ReadsInOrder ==
  ASSUME LeakInv, NEW r \in Requests, Local(r), Ordered
  PROVE  /\ pc'[r] = "persist" => Clean(threshold'[r], subject'[r])
         /\ pc'[r] \in {"existing", "commit", "post"} => Covered(threshold'[r])
<1> USE DEF LeakInv, TypeInv, TypeOK, Goto, End, AfterRegime
<1>1. CASE \/ \E g \in {"evaluate", "rebalance", "post"}, e \in Evaluations : Begin(r, g, e)
           \/ RegimeReuse(r) \/ Refuse(r) \/ InsertEvent(r) \/ ReadSnapshot(r)
           \/ ConflictPaper(r) \/ PostRefused(r)
  BY <1>1 DEF Begin, RegimeReuse, Refuse, InsertEvent, ReadSnapshot, ConflictPaper,
     PostRefused
<1>c. \A f \in feedback : f.threshold \in Seq(Observations) /\ Covered(f.threshold)
  <2>1. \A f \in feedback : f.day \in Reached
    BY DEF Reached
  <2>2. \A f \in feedback : f.threshold \in Seq(Observations)
    BY DEF Row
  <2> QED
    BY <2>1, <2>2 DEF Ordered, By, Covered
<1>d. \A e \in Evaluated : Covered(regime[e])
  <2> SUFFICES ASSUME NEW e \in Evaluated, NEW i \in DOMAIN regime[e]
               PROVE  Observed(regime[e][i]) <= DayOf(e)
    BY DEF Covered, Reached
  <2>1. e \in Evaluations /\ DayOf(e) \in Nat
    BY EvaluationsHaveDays, DaysAreNumbers DEF Evaluated
  <2>4. Observed(regime[e][i]) \in Nat
    <3>1. regime[e] \in Seq(Observations)
      BY <2>1
    <3>2. regime[e][i] \in Observations
      BY <3>1
    <3> QED
      BY <3>2, ObservedDays
  <2>2. Observed(regime[e][i]) < DayOf(e) \/ regime[e][i] = <<"regime", e>>
    BY <2>1 DEF Ordered, Clean
  <2>3. Observed(<<"regime", e>>) = DayOf(e)
    BY DEF Observed
  <2>5. CASE Observed(regime[e][i]) < DayOf(e)
    BY <2>1, <2>4, <2>5
  <2>6. CASE regime[e][i] = <<"regime", e>>
    BY <2>1, <2>3, <2>6
  <2> QED
    BY <2>2, <2>5, <2>6
<1>2. CASE RegimeRead(r)
  <2>1. subject[r] \in Evaluations /\ DateOf(r) \in Nat /\ subject' = subject
    BY <1>2, EvaluationsHaveDays, DaysAreNumbers DEF RegimeRead, Started, DateOf
  <2>2. pc'[r] = "persist"
    BY <1>2 DEF RegimeRead
  <2>3. CASE threshold' = [threshold EXCEPT ![r] = <<<<"regime", subject[r]>>>>]
    BY <2>1, <2>2, <2>3 DEF Clean
  <2>4. ASSUME NEW f \in LatestById(Eligible(DateOf(r))),
               threshold' = [threshold EXCEPT ![r] = f.threshold]
        PROVE  Clean(threshold'[r], subject'[r])
    <3>1. f \in feedback /\ f.day < DateOf(r) /\ f.day \in Nat
      BY DaysAreNumbers DEF LatestById, LatestByDate, Eligible, Row
    <3>2. \A i \in DOMAIN f.threshold : Observed(f.threshold[i]) \in Nat
      BY <1>c, <3>1, ObservedDays
    <3>3. \A i \in DOMAIN f.threshold : Observed(f.threshold[i]) <= f.day
      BY <3>1 DEF Ordered, By
    <3>4. \A i \in DOMAIN f.threshold : Observed(f.threshold[i]) < DateOf(r)
      BY <2>1, <3>1, <3>2, <3>3
    <3> QED
      BY <2>1, <2>4, <3>4 DEF Clean, DateOf
  <2> QED
    BY <1>2, <2>2, <2>3, <2>4 DEF RegimeRead
<1>3. CASE ReadPrevious(r)
  BY <1>3, <1>c DEF ReadPrevious, LatestByDate
<1>4. CASE ReadBaseline(r)
  BY <1>4, <1>d DEF ReadBaseline
<1>5. CASE ReadExisting(r)
  BY <1>5 DEF ReadExisting, Ordered
<1>6. CASE PostRead(r)
  BY <1>6, <1>c, <1>d DEF PostRead, LatestByDate
<1> QED
  BY <1>1, <1>2, <1>3, <1>4, <1>5, <1>6 DEF Local

LEMMA OrderedStep ==
  ASSUME RowInv, LeakInv, [Next]_vars, ~backfilled'
  PROVE  Ordered'
<1>b. ~backfilled
  BY StepCases, LocalKeepsRows DEF RegimePersist, CommitPaper, PostCommit, Insert, Control,
     rows, vars
<1>o. Ordered
  BY <1>b DEF LeakInv
<1>g. \A t : Covered(t) => Covered(t)'
  BY ReachedGrows DEF Covered
<1> USE DEF RowInv, TypeInv, TypeOK
<1>1. ASSUME NEW r \in Requests, Local(r) PROVE Ordered'
  <2>1. UNCHANGED <<feedback, regime>>
    BY <1>1, LocalKeepsRows DEF rows
  <2>2. \A q \in Requests \ {r} : /\ pc'[q] = pc[q] /\ subject'[q] = subject[q]
                                  /\ threshold'[q] = threshold[q]
    BY <1>1, OthersStand
  <2>3. /\ pc'[r] = "persist" => Clean(threshold'[r], subject'[r])
        /\ pc'[r] \in {"existing", "commit", "post"} => Covered(threshold'[r])
    BY <1>1, <1>o, ReadsInOrder
  <2>4. \A t : Covered(t) <=> Covered(t)'
    BY <2>1 DEF Covered, Reached, Evaluated
  <2>5. \A q \in Requests : pc'[q] = "persist" => Clean(threshold'[q], subject'[q])
    BY <1>o, <2>2, <2>3 DEF Ordered
  <2>6. \A q \in Requests :
           pc'[q] \in {"existing", "commit", "post"} => Covered(threshold'[q])
    BY <1>o, <2>2, <2>3 DEF Ordered
  <2> QED
    BY <1>o, <2>1, <2>4, <2>5, <2>6 DEF Ordered, Clean, Covered, Reached, Evaluated
<1>2. ASSUME NEW r \in Requests, RegimePersist(r) PROVE Ordered'
  <2>1. /\ feedback' = feedback /\ subject' = subject /\ pc[r] = "persist"
        /\ threshold' = [threshold EXCEPT ![r] = <<>>]
        /\ pc'[r] \in {"decide", "done"} /\ \A q \in Requests \ {r} : pc'[q] = pc[q]
        /\ regime' = regime \/ regime' = [regime EXCEPT ![subject[r]] = threshold[r]]
    BY <1>2 DEF RegimePersist, AfterRegime, End, Goto
  <2>2. \A e \in Evaluations : Clean(regime'[e], e)
    BY <1>o, <2>1 DEF Ordered
  <2> QED
    BY <1>o, <1>g, <2>1, <2>2 DEF Ordered, Clean
<1>3. ASSUME NEW r \in Requests, NEW d \in Days, NEW by, NEW o \in Observations,
             NEW replaced, Insert(r, d, by, o, replaced), Observed(o) = d,
             pc[r] \in {"commit", "post"}, pc'[r] = "done",
             \A q \in Requests \ {r} : /\ pc'[q] = pc[q]
                                       /\ threshold'[q] = threshold[q],
             UNCHANGED <<regime, subject>>
      PROVE  Ordered'
  <2>1. ~Later(d)
    BY <1>3 DEF Insert
  <2>2. d \in Nat /\ Observed(o) <= d
    BY <1>3, DaysAreNumbers
  <2>3. By(Append(threshold[r], o), d)
    BY <1>o, <1>3, <2>1, <2>2, InsertInOrder DEF Ordered
  <2>4. \A f \in feedback' : \/ f \in feedback
                             \/ f.day = d /\ f.threshold = Append(threshold[r], o)
    BY <1>3 DEF Insert, NewRow
  <2>5. \A f \in feedback' : By(f.threshold, f.day)
    BY <1>o, <2>3, <2>4 DEF Ordered
  <2> QED
    BY <1>o, <1>g, <1>3, <2>5 DEF Ordered, By, Clean
<1>4. ASSUME NEW r \in Requests, CommitPaper(r) PROVE Ordered'
  <2>1. subject[r] \in Evaluations /\ DateOf(r) \in Days
    BY <1>4, EvaluationsHaveDays DEF CommitPaper, Started, DateOf
  <2>2. <<"paper", subject[r]>> \in Observations
    BY <2>1 DEF Observations
  <2>3. Observed(<<"paper", subject[r]>>) = DateOf(r)
    BY DEF Observed, DateOf
  <2>4. /\ Insert(r, DateOf(r), "paper", <<"paper", subject[r]>>, old[r])
        /\ pc[r] = "commit" /\ pc'[r] = "done" /\ UNCHANGED <<regime, subject>>
    BY <1>4 DEF CommitPaper, End, Goto
  <2>5. \A q \in Requests \ {r} : pc'[q] = pc[q] /\ threshold'[q] = threshold[q]
    BY <1>4, OthersStand
  <2> QED
    BY <1>3, <2>1, <2>2, <2>3, <2>4, <2>5
<1>5. ASSUME NEW r \in Requests, NEW d \in Days, PostCommit(r, d) PROVE Ordered'
  <2>1. <<"outcome", d>> \in Observations /\ Observed(<<"outcome", d>>) = d
    BY DEF Observations, Observed
  <2>2. /\ Insert(r, d, "outcome", <<"outcome", d>>, {})
        /\ pc[r] = "post" /\ pc'[r] = "done" /\ UNCHANGED <<regime, subject>>
    BY <1>5 DEF PostCommit, End, Goto
  <2>3. \A q \in Requests \ {r} : pc'[q] = pc[q] /\ threshold'[q] = threshold[q]
    BY <1>5, OthersStand
  <2> QED
    BY <1>3, <2>1, <2>2, <2>3
<1>6. CASE (\E e \in Evaluations : Control(e)) \/ UNCHANGED vars
  <2>1. UNCHANGED <<feedback, regime, pc, subject, threshold>>
    BY <1>6 DEF Control, vars, rows
  <2> QED
    BY <1>o, <2>1 DEF Ordered, By, Clean, Covered, Reached, Evaluated
<1> QED
  BY <1>1, <1>2, <1>4, <1>5, <1>6, StepCases

LEMMA LeakAlways == Spec => []LeakInv
<1>1. RowInv /\ LeakInv /\ [Next]_vars => LeakInv'
  BY TypeStep, OrderedStep DEF LeakInv
<1> QED
  BY <1>1, LeakInit, RowAlways, PTL DEF Spec

\* No evaluation is classified with what its own or a later date has left,
\* unless a feedback row was committed behind a later date.
THEOREM NoLeakInOrder == Spec => []LeaksOnlyByBackfill
<1>1. ASSUME LeakInv, ~backfilled, NEW e \in Evaluations PROVE ~Leaks(e)
  <2> SUFFICES ASSUME NEW i \in DOMAIN regime[e]
               PROVE  ~(Observed(regime[e][i]) >= DayOf(e) /\ regime[e][i] # <<"regime", e>>)
    BY DEF Leaks
  <2>1. regime[e] \in Seq(Observations)
    BY <1>1 DEF LeakInv, TypeInv, TypeOK
  <2>2. regime[e][i] \in Observations
    BY <2>1
  <2>3. Observed(regime[e][i]) \in Nat /\ DayOf(e) \in Nat
    BY <2>2, ObservedDays, EvaluationsHaveDays, DaysAreNumbers
  <2>4. Observed(regime[e][i]) < DayOf(e) \/ regime[e][i] = <<"regime", e>>
    BY <1>1 DEF LeakInv, Ordered, Clean
  <2> QED
    BY <2>3, <2>4
<1>2. LeakInv => LeaksOnlyByBackfill
  BY <1>1 DEF LeaksOnlyByBackfill, NothingLeaksBack
<1> QED
  BY <1>2, LeakAlways, PTL

================================================================================
