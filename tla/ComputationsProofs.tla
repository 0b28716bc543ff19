--------------------------- MODULE ComputationsProofs ---------------------------
(***************************************************************************)
(* Theorems about the computations of Computations, for any values of      *)
(* their constants.  In a behaviour of JobSpec every module does steps of  *)
(* its own or none, so that what holds of the module's own specification   *)
(* holds of JobSpec.                                                       *)
(***************************************************************************)
EXTENDS Computations, SumTheorems, SequenceTheorems

LEMMA JobsAreSteps ==
    JobSpec => Spec /\ Paper!Spec /\ Backtest!Spec /\ Walk!Spec /\ Sched!Spec
<1>1. JobInit => Init /\ Paper!Init /\ Backtest!Init /\ Walk!Init /\ Sched!Init
    BY DEF JobInit
<1>2. [JobNext]_jobVars => /\ [Next]_vars
                          /\ [Paper!Next]_(Paper!paperVars)
                          /\ [Backtest!Next]_(Backtest!backtestVars)
                          /\ [Walk!Next]_(Walk!walkVars)
                          /\ [Sched!Next]_(Sched!schedulerVars)
    BY DEF JobNext, jobVars, vars, paperVariables, backtestVariables, walkVariables,
           schedulerVariables, Paper!paperVars, Backtest!backtestVars, Walk!walkVars,
           Sched!schedulerVars
<1> QED
    BY <1>1, <1>2, PTL DEF JobSpec, Spec, Paper!Spec, Backtest!Spec, Walk!Spec, Sched!Spec

\* The operators that an instance brings along are those of this module.
LEMMA SameCardinality ==
    \A s : /\ Sched!Cardinality(s) = Cardinality(s) /\ Paper!Cardinality(s) = Cardinality(s)
          /\ Backtest!Cardinality(s) = Cardinality(s) /\ Walk!Cardinality(s) = Cardinality(s)
BY DEF Sched!Cardinality, Paper!Cardinality, Backtest!Cardinality, Walk!Cardinality, Cardinality

LEMMA SameExtremes ==
    \A s : /\ Backtest!Max(s) = Max(s) /\ Paper!Max(s) = Max(s) /\ Walk!Max(s) = Max(s)
          /\ Paper!Min(s) = Min(s) /\ Walk!Min(s) = Min(s)
BY DEF Backtest!Max, Paper!Max, Walk!Max, Max, Paper!Min, Walk!Min, Min

LEMMA SameTotals == \A f, s : Backtest!Total(f, s) = Total(f, s) /\ Paper!Total(f, s) = Total(f, s)
BY DEF Backtest!Total, Backtest!MapThenSumSet, Backtest!MapThenFoldSet,
       Paper!Total, Paper!MapThenSumSet, Paper!MapThenFoldSet,
       Total, MapThenSumSet, MapThenFoldSet

--------------------------------------------------------------------------------

Statuses == {"NONE", "RUNNING", "COMPLETED", "FAILED"}

Batches == [date : 0..LastDay, portfolios : SUBSET Portfolios, todo : SUBSET Portfolios,
            run : SUBSET Portfolios, failed : SUBSET Portfolios]

\* A batch with portfolios has the date of a day.
Dated(b) == b.portfolios # {} => b.date \in 1..LastDay

\* What TypeOK says of one batch.
Sound(b, ls) ==
    /\ b.portfolios \subseteq ls /\ b.todo \subseteq b.portfolios
    /\ b.run \subseteq b.portfolios \ b.todo /\ Cardinality(b.run) <= 1
    /\ b.failed \subseteq b.portfolios \ (b.todo \cup b.run)

\* The portfolios that a batch has behind it were started or logged.
Covers(b, j, r) == \A p \in b.portfolios \ (b.todo \cup b.failed) : r[<<j, p, b.date>>] # "NONE"

BatchesSound ==
    \A w \in Workers, j \in Jobs :
        Dated(batch[w][j]) /\ Sound(batch[w][j], listed) /\ Covers(batch[w][j], j, row)

\* The inductive invariant: without the date of a batch, the row that its run
\* writes could be none of the ledger's.
BatchInv ==
    /\ slot \in 0..SlotsPerDay * LastDay - 1
    /\ listed \subseteq Portfolios /\ running \subseteq Workers
    /\ due \in [Workers -> SUBSET Jobs]
    /\ batch \in [Workers -> [Jobs -> Batches]]
    /\ row \in [Sched!Keys -> Statuses]
    /\ BatchesSound

--------------------------------------------------------------------------------
\* The date of a slot is a day.
LEMMA TodayIsADay ==
    ASSUME SlotsPerDay \in Nat \ {0}, LastDay \in Nat,
           slot \in 0..SlotsPerDay * LastDay - 1
    PROVE  Sched!Today \in 1..LastDay
<1> DEFINE day == slot \div SlotsPerDay
           rest == slot % SlotsPerDay
<1>1. /\ day \in Int /\ rest \in 0..SlotsPerDay - 1
      /\ slot = SlotsPerDay * day + rest
    OBVIOUS
<1>2. day >= 0
    BY <1>1
<1>3. day < LastDay
    <2>1. SUFFICES ASSUME day >= LastDay PROVE FALSE
        BY <1>1
    <2>2. SlotsPerDay * day >= SlotsPerDay * LastDay
        BY <1>1, <2>1
    <2> QED
        BY <1>1, <2>2
<1> QED
    BY <1>1, <1>2, <1>3 DEF Sched!Today

\* The date of a batch is that of a row of the ledger.
LEMMA KeyIsInLedger ==
    ASSUME BatchInv, NEW w \in Workers, NEW j \in Jobs, NEW p \in batch[w][j].portfolios
    PROVE  Sched!Key(w, j, p) \in Sched!Keys
BY DEF BatchInv, BatchesSound, Dated, Sound, Sched!Key, Sched!Keys, Batches

\* What happens to the ledger and the list leaves the batches sound as long as
\* no row becomes NONE and no portfolio is taken off the list.
LEMMA SoundStays ==
    ASSUME BatchInv, NEW w \in Workers, NEW j \in Jobs,
           NEW ls, listed \subseteq ls, NEW r,
           \A k \in Sched!Keys : row[k] # "NONE" => r[k] # "NONE"
    PROVE  /\ Dated(batch[w][j]) /\ Sound(batch[w][j], ls) /\ Covers(batch[w][j], j, r)
<1>1. Dated(batch[w][j]) /\ Sound(batch[w][j], ls)
    BY DEF BatchInv, BatchesSound, Sound
<1>2. ASSUME NEW p \in batch[w][j].portfolios \ (batch[w][j].todo \cup batch[w][j].failed)
      PROVE  r[<<j, p, batch[w][j].date>>] # "NONE"
    <2>1. <<j, p, batch[w][j].date>> \in Sched!Keys
        BY KeyIsInLedger DEF Sched!Key
    <2>2. row[<<j, p, batch[w][j].date>>] # "NONE"
        BY DEF BatchInv, BatchesSound, Covers
    <2> QED
        BY <2>1, <2>2
<1> QED
    BY <1>1, <1>2 DEF Covers

\* One batch becomes b, which is sound, and no row becomes NONE.
LEMMA OneBatch ==
    ASSUME BatchInv, NEW w \in Workers, NEW j \in Jobs, NEW b \in Batches,
           batch' = [batch EXCEPT ![w][j] = b], UNCHANGED listed,
           row' \in [Sched!Keys -> Statuses],
           \A k \in Sched!Keys : row[k] # "NONE" => row'[k] # "NONE",
           Dated(b), Sound(b, listed), Covers(b, j, row')
    PROVE  /\ batch' \in [Workers -> [Jobs -> Batches]]
           /\ BatchesSound'
<1>1. batch' \in [Workers -> [Jobs -> Batches]]
    BY DEF BatchInv
<1>2. ASSUME NEW v \in Workers, NEW i \in Jobs
      PROVE  /\ Dated(batch'[v][i]) /\ Sound(batch'[v][i], listed)
             /\ Covers(batch'[v][i], i, row')
    <2>1. CASE v = w /\ i = j
        <3>1. batch'[v][i] = b
            BY <2>1 DEF BatchInv
        <3> QED
            BY <2>1, <3>1
    <2>2. CASE ~(v = w /\ i = j)
        <3>1. batch'[v][i] = batch[v][i]
            BY <2>2 DEF BatchInv
        <3> QED
            BY <3>1, SoundStays
    <2> QED
        BY <2>1, <2>2
<1> QED
    BY <1>1, <1>2 DEF BatchesSound

--------------------------------------------------------------------------------
\* NoBatch is sound.
LEMMA NoBatchIsSound ==
    ASSUME LastDay \in Nat, NEW j, NEW r, NEW ls
    PROVE  Sched!NoBatch \in Batches /\ Dated(Sched!NoBatch) /\ Sound(Sched!NoBatch, ls) /\ Covers(Sched!NoBatch, j, r)
<1>1. Cardinality({}) = 0
    BY FS_EmptySet
<1> QED
    BY <1>1 DEF Sched!NoBatch, Batches, Dated, Sound, Covers

LEMMA BatchInit ==
    ASSUME SlotsPerDay \in Nat \ {0}, LastDay \in Nat \ {0}, Sched!Init
    PROVE  BatchInv
<1>1. SlotsPerDay * LastDay >= 1
    OBVIOUS
<1>2. slot \in 0..SlotsPerDay * LastDay - 1
    BY <1>1 DEF Sched!Init
<1>3. batch \in [Workers -> [Jobs -> Batches]]
    BY NoBatchIsSound DEF Sched!Init
<1>4. BatchesSound
    BY NoBatchIsSound DEF Sched!Init, BatchesSound
<1> QED
    BY <1>2, <1>3, <1>4 DEF Sched!Init, BatchInv, Statuses

--------------------------------------------------------------------------------
\* A step of one run: the batch of w becomes b, the rest of its state stays.
LEMMA RunStep ==
    ASSUME BatchInv, NEW w \in Workers, NEW j \in Jobs, NEW b \in Batches,
           batch' = [batch EXCEPT ![w][j] = b], UNCHANGED <<slot, listed, running>>,
           due' \in [Workers -> SUBSET Jobs],
           row' \in [Sched!Keys -> Statuses],
           \A k \in Sched!Keys : row[k] # "NONE" => row'[k] # "NONE",
           Dated(b), Sound(b, listed), Covers(b, j, row')
    PROVE  BatchInv'
<1>1. batch' \in [Workers -> [Jobs -> Batches]] /\ BatchesSound'
    BY OneBatch
<1> QED
    BY <1>1 DEF BatchInv

\* The batch is left as it is.
LEMMA IdleStep ==
    ASSUME BatchInv, UNCHANGED <<batch, row>>,
           slot' \in 0..SlotsPerDay * LastDay - 1,
           listed \subseteq listed', listed' \subseteq Portfolios,
           running' \subseteq Workers, due' \in [Workers -> SUBSET Jobs]
    PROVE  BatchInv'
<1>1. ASSUME NEW w \in Workers, NEW j \in Jobs
      PROVE  /\ Dated(batch[w][j]) /\ Sound(batch[w][j], listed') /\ Covers(batch[w][j], j, row)
    BY SoundStays
<1> QED
    BY <1>1 DEF BatchInv, BatchesSound

\* What a batch in its place looks like.
LEMMA BatchAt ==
    ASSUME BatchInv, NEW w \in Workers, NEW j \in Jobs
    PROVE  /\ batch[w][j] \in Batches /\ Dated(batch[w][j]) /\ Sound(batch[w][j], listed)
           /\ Covers(batch[w][j], j, row)
BY DEF BatchInv, BatchesSound

\* start, stop, the end of a process, the clock and new portfolios.
LEMMA WorkersAndClock ==
    ASSUME SlotsPerDay \in Nat \ {0}, LastDay \in Nat \ {0}, BatchInv,
           \/ Sched!Tick \/ \E p \in Portfolios : Sched!AddPortfolio(p)
           \/ \E w \in Workers : Sched!Start(w) \/ Sched!Stop(w) \/ Sched!Die(w)
    PROVE  BatchInv'
<1>1. CASE Sched!Tick
    <2>1. slot' \in 0..SlotsPerDay * LastDay - 1
        BY <1>1 DEF Sched!Tick, BatchInv
    <2>2. due' \in [Workers -> SUBSET Jobs]
        BY <1>1 DEF Sched!Tick, Sched!Triggered
    <2> QED
        BY <1>1, <2>1, <2>2, IdleStep DEF Sched!Tick, BatchInv
<1>2. ASSUME NEW p \in Portfolios, Sched!AddPortfolio(p)
      PROVE  BatchInv'
    BY <1>2, IdleStep DEF Sched!AddPortfolio, BatchInv
<1>3. ASSUME NEW w \in Workers, Sched!Start(w) \/ Sched!Stop(w)
      PROVE  BatchInv'
    BY <1>3, IdleStep DEF Sched!Start, Sched!Stop, BatchInv
<1>4. ASSUME NEW w \in Workers, Sched!Die(w)
      PROVE  BatchInv'
    <2>1. batch' \in [Workers -> [Jobs -> Batches]]
        BY <1>4, NoBatchIsSound DEF Sched!Die, BatchInv
    <2>2. ASSUME NEW v \in Workers, NEW j \in Jobs
          PROVE  /\ Dated(batch'[v][j]) /\ Sound(batch'[v][j], listed)
                 /\ Covers(batch'[v][j], j, row)
        <3>1. CASE v = w
            BY <1>4, <3>1, NoBatchIsSound DEF Sched!Die, BatchInv
        <3>2. CASE v # w
            <4>1. batch'[v][j] = batch[v][j]
                BY <1>4, <3>2 DEF Sched!Die, BatchInv
            <4> QED
                BY <4>1, BatchAt
        <3> QED
            BY <3>1, <3>2
    <2> QED
        BY <1>4, <2>1, <2>2 DEF Sched!Die, BatchInv, BatchesSound
<1> QED
    BY <1>1, <1>2, <1>3, <1>4

--------------------------------------------------------------------------------
\* Triggers: a batch begins with all its portfolios to do, or does not begin.
LEMMA Triggers ==
    ASSUME SlotsPerDay \in Nat \ {0}, LastDay \in Nat \ {0}, BatchInv,
           NEW w \in Workers, NEW j \in Jobs,
           Sched!Overrun(w, j) \/ Sched!BeginBatch(w, j) \/ Sched!BatchRaises(w, j) \/ Sched!EndBatch(w, j)
    PROVE  BatchInv'
<1>1. CASE Sched!Overrun(w, j) \/ Sched!BatchRaises(w, j)
    BY <1>1, IdleStep DEF Sched!Overrun, Sched!BatchRaises, Sched!Taken, BatchInv
<1>2. CASE Sched!BeginBatch(w, j)
    <2> DEFINE b == [Sched!NoBatch EXCEPT !.date = Sched!Today, !.portfolios = listed, !.todo = listed]
    <2>1. Sched!Today \in 1..LastDay
        BY TodayIsADay DEF BatchInv
    <2>2. Sched!NoBatch \in Batches /\ listed \in SUBSET Portfolios /\ Sched!Today \in 0..LastDay
        <3>1. Sched!NoBatch \in Batches
            BY NoBatchIsSound
        <3> QED
            BY <2>1, <3>1 DEF BatchInv
    <2>3. /\ b \in Batches /\ b.date = Sched!Today /\ b.portfolios = listed /\ b.todo = listed
          /\ b.run = {} /\ b.failed = {}
        BY <2>2 DEF Batches, Sched!NoBatch
    <2>4. b \in Batches /\ Dated(b) /\ Sound(b, listed) /\ Covers(b, j, row)
        <3>1. Cardinality(b.run) = 0
            BY <2>3, FS_EmptySet
        <3> QED
            BY <2>1, <2>3, <3>1 DEF Dated, Sound, Covers
    <2> QED
        BY <1>2, <2>4, RunStep DEF Sched!BeginBatch, Sched!Taken, BatchInv
<1>3. CASE Sched!EndBatch(w, j)
    BY <1>3, NoBatchIsSound, RunStep DEF Sched!EndBatch, BatchInv
<1> QED
    BY <1>1, <1>2, <1>3

\* The runs: a portfolio leaves what is to do with a row of its own, or logged.
LEMMA Runs ==
    ASSUME BatchInv, NEW w \in Workers, NEW j \in Jobs, NEW p \in Portfolios,
           \/ Sched!Claim(w, j, p) \/ Sched!Skip(w, j, p) \/ Sched!ClaimRaises(w, j, p)
           \/ Sched!RunCompletes(w, j, p) \/ Sched!RunRaises(w, j, p)
    PROVE  BatchInv'
<1> DEFINE b == batch[w][j]
           k == Sched!Key(w, j, p)
<1>1. /\ b \in Batches /\ Dated(b) /\ Sound(b, listed) /\ Covers(b, j, row)
      /\ row \in [Sched!Keys -> Statuses] /\ due \in [Workers -> SUBSET Jobs]
    BY BatchAt DEF BatchInv
<1>2. Cardinality({p}) = 1 /\ Cardinality({}) = 0
    BY FS_Singleton, FS_EmptySet
<1>3. \A q \in b.portfolios : <<j, q, b.date>> \in Sched!Keys
    BY KeyIsInLedger DEF Sched!Key
<1>4. k = <<j, p, b.date>>
    BY DEF Sched!Key
<1>5. CASE Sched!Claim(w, j, p)
    <2> DEFINE c == [b EXCEPT !.todo = @ \ {p}, !.run = {p}]
    <2>1. /\ b.run = {} /\ p \in b.todo
          /\ batch' = [batch EXCEPT ![w][j] = c]
          /\ row' = [row EXCEPT ![k] = "RUNNING"] /\ UNCHANGED <<slot, listed, running, due>>
        BY <1>5 DEF Sched!Claim, Sched!Reaches, BatchInv
    <2>2. c \in Batches /\ Dated(c) /\ Sound(c, listed)
        <3>1. c \in Batches /\ c.date = b.date /\ c.portfolios = b.portfolios
            BY <1>1, <2>1 DEF Batches
        <3>2. c.todo = b.todo \ {p} /\ c.run = {p} /\ c.failed = b.failed
            BY <1>1, <2>1 DEF Batches
        <3>3. Cardinality(c.run) <= 1
            BY <1>2, <3>2
        <3> QED
            BY <1>1, <2>1, <3>1, <3>2, <3>3 DEF Dated, Sound
    <2>3. Covers(c, j, row')
        BY <1>1, <1>3, <1>4, <2>1 DEF Covers, Batches, Statuses
    <2>4. row' \in [Sched!Keys -> Statuses] /\ \A i \in Sched!Keys : row[i] # "NONE" => row'[i] # "NONE"
        BY <1>1, <2>1 DEF Statuses
    <2> QED
        BY <1>1, <2>1, <2>2, <2>3, <2>4, RunStep
<1>6. CASE Sched!Skip(w, j, p)
    <2> DEFINE c == [b EXCEPT !.todo = @ \ {p}]
    <2>1. /\ b.run = {} /\ p \in b.todo /\ row[k] # "NONE"
          /\ batch' = [batch EXCEPT ![w][j] = c]
          /\ UNCHANGED <<slot, listed, running, due, row>>
        BY <1>6 DEF Sched!Skip, Sched!Reaches, BatchInv
    <2>2. c \in Batches /\ Dated(c) /\ Sound(c, listed)
        BY <1>1, <1>2, <2>1 DEF Batches, Dated, Sound
    <2>3. Covers(c, j, row')
        BY <1>1, <1>4, <2>1 DEF Covers, Batches
    <2> QED
        BY <1>1, <2>1, <2>2, <2>3, RunStep
<1>7. CASE Sched!ClaimRaises(w, j, p)
    <2> DEFINE c == [b EXCEPT !.todo = @ \ {p}, !.failed = @ \cup {p}]
    <2>1. /\ b.run = {} /\ p \in b.todo
          /\ batch' = [batch EXCEPT ![w][j] = c]
          /\ UNCHANGED <<slot, listed, running, due, row>>
        BY <1>7 DEF Sched!ClaimRaises, Sched!Reaches, BatchInv
    <2>2. c \in Batches /\ Dated(c) /\ Sound(c, listed)
        BY <1>1, <1>2, <2>1 DEF Batches, Dated, Sound
    <2>3. Covers(c, j, row')
        BY <1>1, <2>1 DEF Covers, Batches
    <2> QED
        BY <1>1, <2>1, <2>2, <2>3, RunStep
<1>8. CASE Sched!RunCompletes(w, j, p)
    <2> DEFINE c == [b EXCEPT !.run = {}]
    <2>1. /\ p \in b.run /\ batch' = [batch EXCEPT ![w][j] = c]
          /\ row' = [row EXCEPT ![k] = "COMPLETED"] /\ UNCHANGED <<slot, listed, running, due>>
        BY <1>8 DEF Sched!RunCompletes, BatchInv
    <2>2. c \in Batches /\ Dated(c) /\ Sound(c, listed)
        BY <1>1, <1>2, <2>1 DEF Batches, Dated, Sound
    <2>3. row' \in [Sched!Keys -> Statuses] /\ \A i \in Sched!Keys : row[i] # "NONE" => row'[i] # "NONE"
        BY <1>1, <2>1 DEF Statuses
    <2>4. Covers(c, j, row')
        BY <1>1, <1>3, <2>1, <2>3 DEF Covers, Batches
    <2> QED
        BY <1>1, <2>1, <2>2, <2>3, <2>4, RunStep
<1>9. CASE Sched!RunRaises(w, j, p)
    <2> DEFINE c == [b EXCEPT !.run = {}, !.failed = @ \cup {p}]
    <2>1. /\ p \in b.run /\ batch' = [batch EXCEPT ![w][j] = c]
          /\ row' = [row EXCEPT ![k] = "FAILED"] \/ row' = row
          /\ UNCHANGED <<slot, listed, running, due>>
        BY <1>9 DEF Sched!RunRaises, BatchInv
    <2>2. c \in Batches /\ Dated(c) /\ Sound(c, listed)
        <3>1. c \in Batches /\ c.date = b.date /\ c.portfolios = b.portfolios
            BY <1>1, <2>1 DEF Batches
        <3>2. c.todo = b.todo /\ c.run = {} /\ c.failed = b.failed \cup {p}
            BY <1>1, <2>1 DEF Batches
        <3>3. Cardinality(c.run) <= 1
            BY <1>2, <3>2
        <3> QED
            BY <1>1, <2>1, <3>1, <3>2, <3>3 DEF Dated, Sound
    <2>3. row' \in [Sched!Keys -> Statuses] /\ \A i \in Sched!Keys : row[i] # "NONE" => row'[i] # "NONE"
        BY <1>1, <2>1 DEF Statuses
    <2>4. Covers(c, j, row')
        BY <1>1, <1>3, <2>1, <2>3 DEF Covers, Batches
    <2> QED
        BY <1>1, <2>1, <2>2, <2>3, <2>4, RunStep
<1> QED
    BY <1>5, <1>6, <1>7, <1>8, <1>9

LEMMA BatchNext ==
    ASSUME SlotsPerDay \in Nat \ {0}, LastDay \in Nat \ {0}, BatchInv, [Sched!Next]_(Sched!schedulerVars)
    PROVE  BatchInv'
<1>1. CASE UNCHANGED Sched!schedulerVars
    BY <1>1 DEF Sched!schedulerVars, BatchInv, BatchesSound
<1>2. CASE Sched!Next
    BY <1>2, WorkersAndClock, Triggers, Runs DEF Sched!Next
<1> QED
    BY <1>1, <1>2

--------------------------------------------------------------------------------
LEMMA BatchAlways == Sched!Spec => []BatchInv
<1>1. Sched!Init => BatchInv
    BY BatchInit, SchedulerAssumption
<1>2. BatchInv /\ [Sched!Next]_(Sched!schedulerVars) => BatchInv'
    BY BatchNext, SchedulerAssumption
<1> QED
    BY <1>1, <1>2, PTL DEF Sched!Spec

\* Every reachable state of the schedulers, their batches and the ledger is
\* well typed: a batch's portfolios are listed, one at a time is run, and what
\* is logged is neither running nor still to do.
THEOREM SchedulerTypes == JobSpec => []Sched!TypeOK
<1>1. ASSUME BatchInv PROVE Sched!TypeOK
    <2>1. ASSUME NEW w \in Workers, NEW j \in Jobs
          PROVE  /\ batch[w][j].date \in 0..LastDay /\ Sound(batch[w][j], listed)
        BY <1>1, BatchAt DEF Batches
    <2> QED
        BY <1>1, <2>1, SameCardinality DEF BatchInv, Sound, Sched!TypeOK, Sched!Keys, Statuses
<1> QED
    BY <1>1, JobsAreSteps, BatchAlways, PTL

\* A portfolio that a batch has behind it was started for the batch's date, or
\* its exception is logged.
THEOREM NonePassedOver == JobSpec => []NoPortfolioPassedOver
<1>1. BatchInv => NoPortfolioPassedOver
    BY DEF BatchInv, BatchesSound, Covers, NoPortfolioPassedOver, Sched!NoPortfolioPassedOver
<1> QED
    BY <1>1, JobsAreSteps, BatchAlways, PTL

--------------------------------------------------------------------------------
\* A batch runs one portfolio at a time.
Single(b) == \A p, q \in b.run : p = q

\* The inductive invariant of the leases: at most one worker executes the run of
\* a key, and its row says RUNNING.
LeaseInv ==
    /\ BatchInv
    /\ \A w \in Workers, j \in Jobs : Single(batch[w][j])
    /\ \A k \in Sched!Keys, w \in Workers : w \in Sched!Executors(k) =>
          row[k] = "RUNNING" /\ Sched!Executors(k) = {w}

\* What a step may do to the run of a key: nothing, or let a worker begin it,
\* end it, or leave it.
Idles(k) == Sched!Executors(k)' = Sched!Executors(k) /\ row'[k] = row[k]
Begins(k, w) ==
    /\ Sched!Executors(k) = {} /\ Sched!Executors(k)' = {w}
    /\ row[k] \in {"NONE", "FAILED", "RUNNING"} /\ row'[k] = "RUNNING"
Ends(k, w) ==
    /\ Sched!Executors(k) = {w} /\ Sched!Executors(k)' = {}
    /\ row[k] = "RUNNING" /\ row'[k] \in {"COMPLETED", "FAILED"}
Leaves(k, w) ==
    /\ Sched!Executors(k) = {w} /\ Sched!Executors(k)' = {}
    /\ row'[k] = row[k]
Moves(k) == Idles(k) \/ \E w \in Workers : Begins(k, w) \/ Ends(k, w) \/ Leaves(k, w)

LEMMA KeyParts ==
    ASSUME NEW k \in Sched!Keys
    PROVE  /\ k[1] \in Jobs /\ k[2] \in Portfolios /\ k[3] \in 1..LastDay
           /\ k = <<k[1], k[2], k[3]>>
BY DEF Sched!Keys

\* One batch changes: other workers, and other jobs of the worker, run what
\* they ran.
LEMMA OtherRuns ==
    ASSUME BatchInv, NEW w \in Workers, NEW j \in Jobs, NEW b,
           batch' = [batch EXCEPT ![w][j] = b],
           NEW k \in Sched!Keys
    PROVE  /\ \A v \in Workers \ {w} : v \in Sched!Executors(k)' <=> v \in Sched!Executors(k)
           /\ k[1] # j => Sched!Executors(k)' = Sched!Executors(k)
           /\ k[1] = j => (w \in Sched!Executors(k)' <=> k[2] \in b.run /\ b.date = k[3])
           /\ Sched!Executors(k)' \subseteq Workers /\ Sched!Executors(k) \subseteq Workers
<1>1. k[1] \in Jobs
    BY KeyParts
<1>2. \A v \in Workers \ {w} : batch'[v][k[1]] = batch[v][k[1]]
    BY <1>1 DEF BatchInv
<1>3. k[1] # j => \A v \in Workers : batch'[v][k[1]] = batch[v][k[1]]
    BY <1>1 DEF BatchInv
<1>4. k[1] = j => batch'[w][k[1]] = b
    BY <1>1 DEF BatchInv
<1> QED
    BY <1>2, <1>3, <1>4 DEF Sched!Executors

\* The worker executes the run neither before nor after: nobody's part changes.
LEMMA SameExecutors ==
    ASSUME BatchInv, NEW w \in Workers, NEW j \in Jobs, NEW b,
           batch' = [batch EXCEPT ![w][j] = b],
           NEW k \in Sched!Keys,
           k[1] = j => w \notin Sched!Executors(k) /\ w \notin Sched!Executors(k)'
    PROVE  Sched!Executors(k)' = Sched!Executors(k)
<1> DEFINE old == Sched!Executors(k)
           new == Sched!Executors(k)'
<1>1. /\ \A v \in Workers \ {w} : v \in new <=> v \in old
      /\ k[1] # j => new = old
      /\ new \subseteq Workers /\ old \subseteq Workers
    BY OtherRuns
<1>2. k[1] = j => w \notin old /\ w \notin new
    OBVIOUS
<1> HIDE DEF old, new
<1>3. new = old
    BY <1>1, <1>2
<1> QED
    BY <1>3 DEF old, new

\* A batch begins or ends, skips or logs a portfolio: what it runs stays nothing.
LEMMA NothingRuns ==
    ASSUME LeaseInv, NEW w \in Workers, NEW j \in Jobs, NEW b,
           batch' = [batch EXCEPT ![w][j] = b], b.run = {}, batch[w][j].run = {},
           UNCHANGED row, NEW k \in Sched!Keys
    PROVE  Moves(k)
<1>1. k[1] = j => w \notin Sched!Executors(k) /\ w \notin Sched!Executors(k)'
    <2>1. k[1] = j => (w \in Sched!Executors(k)' <=> k[2] \in b.run /\ b.date = k[3])
        BY OtherRuns DEF LeaseInv
    <2> QED
        BY <2>1 DEF Sched!Executors
<1>2. Sched!Executors(k)' = Sched!Executors(k)
    BY <1>1, SameExecutors DEF LeaseInv
<1> QED
    BY <1>2 DEF Moves, Idles

\* The run of p ends, with the row r.
LEMMA RunEnds ==
    ASSUME LeaseInv, NEW w \in Workers, NEW j \in Jobs, NEW p \in batch[w][j].run, NEW b,
           batch' = [batch EXCEPT ![w][j] = b], b.run = {},
           \/ row' = row
           \/ \E s \in {"COMPLETED", "FAILED"} : row' = [row EXCEPT ![Sched!Key(w, j, p)] = s],
           NEW k \in Sched!Keys
    PROVE  Moves(k)
<1>0. BatchInv
    BY DEF LeaseInv
<1>1. row \in [Sched!Keys -> Statuses]
    BY <1>0 DEF BatchInv
<1>2. CASE k = Sched!Key(w, j, p)
    <2>1. k[1] = j /\ w \in Sched!Executors(k)
        BY <1>2 DEF Sched!Key, Sched!Executors
    <2>2. Sched!Executors(k) = {w} /\ row[k] = "RUNNING"
        BY <2>1 DEF LeaseInv
    <2>3. Sched!Executors(k)' = {}
        BY <2>1, <2>2, OtherRuns DEF LeaseInv
    <2> QED
        BY <1>1, <1>2, <2>2, <2>3 DEF Moves, Ends, Leaves
<1>3. CASE k # Sched!Key(w, j, p)
    <2>1. row'[k] = row[k]
        BY <1>1, <1>3
    <2>2. k[1] = j => w \notin Sched!Executors(k)
        <3>1. k[1] = j /\ k[2] = p /\ k[3] = batch[w][j].date => k = Sched!Key(w, j, p)
            BY KeyParts DEF Sched!Key
        <3> QED
            BY <1>3, <3>1 DEF LeaseInv, Single, Sched!Executors
    <2>3. k[1] = j => w \notin Sched!Executors(k)'
        <3>1. k[1] = j => (w \in Sched!Executors(k)' <=> k[2] \in b.run /\ b.date = k[3])
            BY <1>0, OtherRuns, Zenon
        <3> QED
            BY <3>1
    <2>4. Sched!Executors(k)' = Sched!Executors(k)
        BY <1>0, <2>2, <2>3, SameExecutors
    <2> QED
        BY <2>1, <2>4 DEF Moves, Idles
<1> QED
    BY <1>2, <1>3

\* The same with the row of the run known.
LEMMA RunEndsAs ==
    ASSUME LeaseInv, NEW w \in Workers, NEW j \in Jobs, NEW p \in batch[w][j].run, NEW b,
           batch' = [batch EXCEPT ![w][j] = b], b.run = {},
           NEW s \in {"COMPLETED", "FAILED"}, row' = [row EXCEPT ![Sched!Key(w, j, p)] = s],
           NEW k \in Sched!Keys
    PROVE  Moves(k)
BY RunEnds

\* The run of p begins.
LEMMA RunBegins ==
    ASSUME LeaseInv, NEW w \in Workers, NEW j \in Jobs, NEW p \in Portfolios, NEW b,
           Sched!Claimable(Sched!Key(w, j, p)), batch[w][j].run = {},
           batch' = [batch EXCEPT ![w][j] = b], b.run = {p}, b.date = batch[w][j].date,
           row' = [row EXCEPT ![Sched!Key(w, j, p)] = "RUNNING"],
           NEW k \in Sched!Keys
    PROVE  Moves(k)
<1>1. BatchInv
    BY DEF LeaseInv
<1>2. row \in [Sched!Keys -> Statuses]
    BY <1>1 DEF BatchInv
<1>a. \A v \in Workers \ {w} : v \in Sched!Executors(k)' <=> v \in Sched!Executors(k)
    BY <1>1, OtherRuns
<1>b. k[1] = j => (w \in Sched!Executors(k)' <=> k[2] \in b.run /\ b.date = k[3])
    <2>1. k[1] = j => batch'[w][k[1]] = b
        BY <1>1 DEF BatchInv
    <2> QED
        BY <2>1 DEF Sched!Executors
<1>c. Sched!Executors(k)' \subseteq Workers
    BY <1>1, OtherRuns
<1>3. CASE k = Sched!Key(w, j, p)
    <2>1. Sched!Executors(k) = {} /\ row[k] \in {"NONE", "FAILED", "RUNNING"}
        <3>1. \A v \in Sched!Executors(k) : row[k] = "RUNNING"
            BY DEF LeaseInv, Sched!Executors
        <3> QED
            BY <1>3, <3>1 DEF Sched!Claimable
    <2>2. k[1] = j /\ k[2] = p /\ k[3] = b.date
        BY <1>3 DEF Sched!Key
    <2>3. Sched!Executors(k)' = {w}
        <3> DEFINE new == Sched!Executors(k)'
        <3>1. /\ \A v \in Workers \ {w} : v \in new <=> v \in Sched!Executors(k)
              /\ k[1] = j => (w \in new <=> k[2] \in b.run /\ b.date = k[3])
              /\ new \subseteq Workers
            BY <1>a, <1>b, <1>c
        <3> HIDE DEF new
        <3>2. new = {w}
            BY <2>1, <2>2, <3>1
        <3> QED
            BY <3>2 DEF new
    <2> QED
        BY <1>2, <1>3, <2>1, <2>3 DEF Moves, Begins
<1>4. CASE k # Sched!Key(w, j, p)
    <2>1. row'[k] = row[k]
        BY <1>2, <1>4
    <2>2. k[1] = j => w \notin Sched!Executors(k)
        BY DEF Sched!Executors
    <2>3. k[1] = j => w \notin Sched!Executors(k)'
        <3>1. k[1] = j /\ k[2] = p /\ k[3] = b.date => k = Sched!Key(w, j, p)
            BY KeyParts DEF Sched!Key
        <3> QED
            BY <1>b, <1>4, <3>1
    <2>4. Sched!Executors(k)' = Sched!Executors(k)
        BY <1>1, <2>2, <2>3, SameExecutors
    <2> QED
        BY <2>1, <2>4 DEF Moves, Idles
<1> QED
    BY <1>3, <1>4

\* Every step does to every run what a lease allows, and keeps runs single.
LEMMA StepMoves ==
    ASSUME LeaseInv, Sched!Next
    PROVE  /\ \A k \in Sched!Keys : Moves(k)
           /\ \A w \in Workers, j \in Jobs : Single(batch'[w][j])
<1>0. BatchInv /\ \A w \in Workers, j \in Jobs : Single(batch[w][j])
    BY DEF LeaseInv
<1>1. CASE /\ UNCHANGED <<batch, row>>
    BY <1>0, <1>1 DEF Moves, Idles, Sched!Executors
<1>2. ASSUME NEW w \in Workers, Sched!Die(w)
      PROVE  /\ \A k \in Sched!Keys : Moves(k)
             /\ \A v \in Workers, j \in Jobs : Single(batch'[v][j])
    <2>1. /\ batch' = [batch EXCEPT ![w] = [j \in Jobs |-> Sched!NoBatch]] /\ row' = row
          /\ Sched!NoBatch.run = {} /\ batch \in [Workers -> [Jobs -> Batches]]
        BY <1>0, <1>2 DEF Sched!Die, BatchInv, Sched!NoBatch
    <2>2. /\ \A j \in Jobs : batch'[w][j].run = {}
          /\ \A v \in Workers \ {w} : batch'[v] = batch[v]
        BY <2>1
    <2>3. ASSUME NEW k \in Sched!Keys PROVE Moves(k)
        <3>1. Sched!Executors(k)' = Sched!Executors(k) \ {w}
            BY <2>2, KeyParts DEF Sched!Executors
        <3>2. w \in Sched!Executors(k) => Sched!Executors(k) = {w}
            BY DEF LeaseInv
        <3> QED
            BY <2>1, <3>1, <3>2 DEF Moves, Idles, Leaves
    <2> QED
        BY <1>0, <2>2, <2>3 DEF Single
<1>3. ASSUME NEW w \in Workers, NEW j \in Jobs, NEW b,
             batch' = [batch EXCEPT ![w][j] = b], Single(b)
      PROVE  \A v \in Workers, i \in Jobs : Single(batch'[v][i])
    BY <1>0, <1>3 DEF BatchInv
<1>4. ASSUME NEW w \in Workers, NEW j \in Jobs, Sched!BeginBatch(w, j) \/ Sched!EndBatch(w, j)
      PROVE  /\ \A k \in Sched!Keys : Moves(k)
             /\ \A v \in Workers, i \in Jobs : Single(batch'[v][i])
    <2>1. batch[w][j].run = {} /\ row' = row
        BY <1>4 DEF Sched!BeginBatch, Sched!EndBatch, Sched!Busy, Sched!NoBatch
    <2>2. CASE Sched!BeginBatch(w, j)
        <3> DEFINE b == [Sched!NoBatch EXCEPT !.date = Sched!Today, !.portfolios = listed,
                                              !.todo = listed]
        <3>1. batch' = [batch EXCEPT ![w][j] = b]
            BY <2>2 DEF Sched!BeginBatch
        <3>2. b.run = {}
            BY DEF Sched!NoBatch
        <3> HIDE DEF b
        <3> QED
            BY <1>3, <2>1, <3>1, <3>2, NothingRuns DEF Single
    <2>3. CASE Sched!EndBatch(w, j)
        <3> DEFINE b == Sched!NoBatch
        <3>1. batch' = [batch EXCEPT ![w][j] = b]
            BY <2>3 DEF Sched!EndBatch
        <3>2. b.run = {}
            BY DEF Sched!NoBatch
        <3> HIDE DEF b
        <3> QED
            BY <1>3, <2>1, <3>1, <3>2, NothingRuns DEF Single
    <2> QED
        BY <1>4, <2>2, <2>3
<1>5. ASSUME NEW w \in Workers, NEW j \in Jobs, NEW p \in Portfolios,
             \/ Sched!Claim(w, j, p) \/ Sched!Skip(w, j, p) \/ Sched!ClaimRaises(w, j, p)
             \/ Sched!RunCompletes(w, j, p) \/ Sched!RunRaises(w, j, p)
      PROVE  /\ \A k \in Sched!Keys : Moves(k)
             /\ \A v \in Workers, i \in Jobs : Single(batch'[v][i])
    <2>1. batch[w][j] \in Batches /\ batch \in [Workers -> [Jobs -> Batches]]
        BY <1>0, BatchAt DEF BatchInv
    <2>2. CASE Sched!Claim(w, j, p)
        <3> DEFINE b == [batch[w][j] EXCEPT !.todo = @ \ {p}, !.run = {p}]
        <3>1. /\ Sched!Claimable(Sched!Key(w, j, p)) /\ batch[w][j].run = {}
              /\ row' = [row EXCEPT ![Sched!Key(w, j, p)] = "RUNNING"]
            BY <2>2 DEF Sched!Claim, Sched!Reaches
        <3>2. batch' = [batch EXCEPT ![w][j] = b]
            BY <2>1, <2>2 DEF Sched!Claim
        <3>3. b.run = {p} /\ b.date = batch[w][j].date
            BY <2>1 DEF Batches
        <3> HIDE DEF b
        <3>4. ASSUME NEW k \in Sched!Keys PROVE Moves(k)
            BY <3>1, <3>2, <3>3, RunBegins
        <3> QED
            BY <1>3, <3>2, <3>3, <3>4 DEF Single
    <2>3. CASE Sched!Skip(w, j, p)
        <3> DEFINE b == [batch[w][j] EXCEPT !.todo = @ \ {p}]
        <3>1. batch[w][j].run = {} /\ row' = row
            BY <2>3 DEF Sched!Skip, Sched!Reaches
        <3>2. batch' = [batch EXCEPT ![w][j] = b]
            BY <2>1, <2>3 DEF Sched!Skip
        <3>3. b.run = {}
            BY <2>1, <3>1 DEF Batches
        <3> HIDE DEF b
        <3>4. ASSUME NEW k \in Sched!Keys PROVE Moves(k)
            BY <3>1, <3>2, <3>3, NothingRuns
        <3> QED
            BY <1>3, <3>2, <3>3, <3>4 DEF Single
    <2>4. CASE Sched!ClaimRaises(w, j, p)
        <3> DEFINE b == [batch[w][j] EXCEPT !.todo = @ \ {p}, !.failed = @ \cup {p}]
        <3>1. batch[w][j].run = {} /\ row' = row
            BY <2>4 DEF Sched!ClaimRaises, Sched!Reaches
        <3>2. batch' = [batch EXCEPT ![w][j] = b]
            BY <2>1, <2>4 DEF Sched!ClaimRaises
        <3>3. b.run = {}
            BY <2>1, <3>1 DEF Batches
        <3> HIDE DEF b
        <3>4. ASSUME NEW k \in Sched!Keys PROVE Moves(k)
            BY <3>1, <3>2, <3>3, NothingRuns
        <3> QED
            BY <1>3, <3>2, <3>3, <3>4 DEF Single
    <2>5. CASE Sched!RunCompletes(w, j, p)
        <3> DEFINE b == [batch[w][j] EXCEPT !.run = {}]
        <3>1. /\ p \in batch[w][j].run
              /\ \/ row' = row
                 \/ \E s \in {"COMPLETED", "FAILED"} :
                       row' = [row EXCEPT ![Sched!Key(w, j, p)] = s]
            BY <2>5 DEF Sched!RunCompletes
        <3>2. batch' = [batch EXCEPT ![w][j] = b]
            BY <2>1, <2>5 DEF Sched!RunCompletes
        <3>3. b.run = {}
            BY <2>1 DEF Batches
        <3> HIDE DEF b
        <3>4. ASSUME NEW k \in Sched!Keys PROVE Moves(k)
            <4>1. CASE row' = row
                BY <3>1, <3>2, <3>3, <4>1, RunEnds
            <4>2. ASSUME NEW s \in {"COMPLETED", "FAILED"},
                         row' = [row EXCEPT ![Sched!Key(w, j, p)] = s]
                  PROVE  Moves(k)
                BY <3>1, <3>2, <3>3, <4>2, RunEndsAs
            <4> QED
                BY <3>1, <4>1, <4>2
        <3> QED
            BY <1>3, <3>2, <3>3, <3>4 DEF Single
    <2>6. CASE Sched!RunRaises(w, j, p)
        <3> DEFINE b == [batch[w][j] EXCEPT !.run = {}, !.failed = @ \cup {p}]
        <3>1. /\ p \in batch[w][j].run
              /\ \/ row' = row
                 \/ \E s \in {"COMPLETED", "FAILED"} :
                       row' = [row EXCEPT ![Sched!Key(w, j, p)] = s]
            BY <2>6 DEF Sched!RunRaises
        <3>2. batch' = [batch EXCEPT ![w][j] = b]
            BY <2>1, <2>6 DEF Sched!RunRaises
        <3>3. b.run = {}
            BY <2>1 DEF Batches
        <3> HIDE DEF b
        <3>4. ASSUME NEW k \in Sched!Keys PROVE Moves(k)
            <4>1. CASE row' = row
                BY <3>1, <3>2, <3>3, <4>1, RunEnds
            <4>2. ASSUME NEW s \in {"COMPLETED", "FAILED"},
                         row' = [row EXCEPT ![Sched!Key(w, j, p)] = s]
                  PROVE  Moves(k)
                BY <3>1, <3>2, <3>3, <4>2, RunEndsAs
            <4> QED
                BY <3>1, <4>1, <4>2
        <3> QED
            BY <1>3, <3>2, <3>3, <3>4 DEF Single
    <2> QED
        BY <1>5, <2>2, <2>3, <2>4, <2>5, <2>6
<1>6. CASE \/ Sched!Tick \/ \E p \in Portfolios : Sched!AddPortfolio(p)
           \/ \E w \in Workers :
                 \/ Sched!Start(w) \/ Sched!Stop(w)
                 \/ \E j \in Jobs : Sched!Overrun(w, j) \/ Sched!BatchRaises(w, j)
    BY <1>0, <1>1, <1>6 DEF Sched!Tick, Sched!AddPortfolio, Sched!Start, Sched!Stop, Sched!Overrun,
       Sched!BatchRaises
<1> QED
    BY <1>2, <1>4, <1>5, <1>6 DEF Sched!Next

\* What Moves allows keeps the invariant of the leases.
LEMMA LeaseNext ==
    ASSUME LeaseInv, [Sched!Next]_(Sched!schedulerVars)
    PROVE  LeaseInv'
<1>1. BatchInv'
    BY BatchNext, SchedulerAssumption DEF LeaseInv
<1>2. CASE UNCHANGED Sched!schedulerVars
    BY <1>1, <1>2 DEF Sched!schedulerVars, LeaseInv, Sched!Executors
<1>3. CASE Sched!Next
    <2>1. ASSUME NEW k \in Sched!Keys, NEW w \in Workers, w \in Sched!Executors(k)'
          PROVE  row'[k] = "RUNNING" /\ Sched!Executors(k)' = {w}
        BY <1>3, <2>1, StepMoves DEF Moves, Idles, Begins, Ends, Leaves, LeaseInv
    <2> QED
        BY <1>1, <1>3, <2>1, StepMoves DEF LeaseInv
<1> QED
    BY <1>2, <1>3

LEMMA LeaseInit == Sched!Init => LeaseInv
<1> SUFFICES ASSUME Sched!Init PROVE LeaseInv
    OBVIOUS
<1>1. BatchInv
    BY BatchInit, SchedulerAssumption
<1>2. \A w \in Workers, j \in Jobs : batch[w][j].run = {}
    BY DEF Sched!Init, Sched!NoBatch
<1> QED
    BY <1>1, <1>2, KeyParts DEF LeaseInv, Single, Sched!Executors

\* Scheduler.claim is one step because the ledger's calls implement RunLease;
\* and so do the batches of all workers, for every job, portfolio and date: a run
\* is executed by one worker at a time, only an unfinished one that nobody
\* executes is begun, and nobody but its executor ends it.
THEOREM BatchesImplementLease ==
    ASSUME NEW k \in Sched!Keys
    PROVE  JobSpec => RunsLease(k)!Spec
<1>1. Sched!Init => RunsLease(k)!Init
    BY KeyParts DEF Sched!Init, Sched!NoBatch, Sched!Executors, RunsLease!Init
<1>2. LeaseInv /\ [Sched!Next]_(Sched!schedulerVars) => [RunsLease(k)!Next]_(RunsLease(k)!vars)
    <2> SUFFICES ASSUME LeaseInv, [Sched!Next]_(Sched!schedulerVars)
                 PROVE  [RunsLease(k)!Next]_(RunsLease(k)!vars)
        OBVIOUS
    <2>1. Moves(k)
        BY StepMoves DEF Sched!schedulerVars, Moves, Idles, Sched!Executors
    <2> QED
        BY <2>1 DEF Moves, Idles, Begins, Ends, Leaves, RunsLease!Next, RunsLease!Acquire,
           RunsLease!Finish, RunsLease!Abandon, RunsLease!vars
<1> QED
    BY <1>1, <1>2, LeaseInit, LeaseNext, JobsAreSteps, PTL DEF Sched!Spec, RunsLease!Spec

--------------------------------------------------------------------------------
\* The records are of dates that rise and that have a value: every date adds a
\* value and at most one record.
RecordsRise ==
    /\ \E S : values \in Seq(S)
    /\ \E S : entries \in Seq(S)
    /\ \A i \in DOMAIN entries : entries[i].date \in i..Len(values)
    /\ \A i, j \in DOMAIN entries : j <= i => entries[i].date - entries[j].date >= i - j

\* The inductive invariant: without the dates, the bases of the last step would
\* be indices of nothing.
RecordInv ==
    /\ RecordsRise
    /\ stage = "completed" => bases = [i \in DOMAIN entries |-> Backtest!BaseIndex(i)]

LEMMA Appended ==
    ASSUME NEW S, NEW s \in Seq(S), NEW x
    PROVE  /\ \E T : Append(s, x) \in Seq(T)
           /\ Len(s) \in Nat /\ DOMAIN s = 1..Len(s)
           /\ Len(Append(s, x)) = Len(s) + 1 /\ DOMAIN Append(s, x) = 1..(Len(s) + 1)
           /\ \A i \in 1..Len(s) : Append(s, x)[i] = s[i]
           /\ Append(s, x)[Len(s) + 1] = x
<1> DEFINE T == S \cup {x}
<1>1. s \in Seq(T) /\ x \in T
    OBVIOUS
<1> HIDE DEF T
<1> QED
    BY <1>1

--------------------------------------------------------------------------------
\* A date without a record.
LEMMA SkippedDate ==
    ASSUME RecordsRise, NEW v, values' = Append(values, v), UNCHANGED entries
    PROVE  RecordsRise'
<1>1. PICK S : values \in Seq(S)
    BY DEF RecordsRise
<1>2. (\E T : values' \in Seq(T)) /\ Len(values) \in Nat /\ Len(values') = Len(values) + 1
    BY <1>1, Appended
<1>3. PICK R : entries \in Seq(R)
    BY DEF RecordsRise
<1>4. DOMAIN entries = 1..Len(entries) /\ Len(entries) \in Nat
    BY <1>3
<1>5. \A i \in DOMAIN entries : entries[i].date \in i..Len(values')
    BY <1>2, <1>4 DEF RecordsRise
<1> QED
    BY <1>2, <1>5 DEF RecordsRise

\* A date with a record.
LEMMA RecordedDate ==
    ASSUME RecordsRise, NEW v, NEW r, r.date = Backtest!Date,
           values' = Append(values, v), entries' = Append(entries, r)
    PROVE  RecordsRise'
<1>s. entries' = Append(entries, r)
    OBVIOUS
<1> DEFINE n == Len(entries)
           d == Len(values)
<1>1. PICK S : values \in Seq(S)
    BY DEF RecordsRise
<1>2. (\E T : values' \in Seq(T)) /\ d \in Nat /\ Len(values') = d + 1
    BY <1>1, Appended
<1>3. PICK R : entries \in Seq(R)
    BY DEF RecordsRise
<1>4. /\ (\E T : entries' \in Seq(T)) /\ n \in Nat /\ DOMAIN entries = 1..n
      /\ DOMAIN entries' = 1..(n + 1)
      /\ \A i \in 1..n : entries'[i] = entries[i]
      /\ entries'[n + 1] = r
    <2> DEFINE longer == Append(entries, r)
    <2>1. /\ \E T : longer \in Seq(T)
          /\ n \in Nat /\ DOMAIN entries = 1..n
          /\ Len(longer) = n + 1 /\ DOMAIN longer = 1..(n + 1)
          /\ \A i \in 1..n : longer[i] = entries[i]
          /\ longer[n + 1] = r
        BY <1>3, Appended, Zenon
    <2>2. entries' = longer
        BY <1>s
    <2> HIDE DEF longer
    <2> QED
        BY <2>1, <2>2
<1>5. /\ \A i \in 1..n : entries[i].date \in i..d
      /\ \A i, j \in 1..n : j <= i => entries[i].date - entries[j].date >= i - j
    BY <1>4 DEF RecordsRise
<1>6. r.date = d + 1
    BY DEF Backtest!Date
<1> HIDE DEF n, d
<1>7. n <= d
    <2>1. CASE n = 0
        BY <1>2, <2>1
    <2>2. CASE n # 0
        <3>1. n \in 1..n
            BY <1>4, <2>2
        <3>2. entries[n].date \in n..d
            BY <1>5, <3>1
        <3> QED
            BY <1>2, <1>4, <3>2
    <2> QED
        BY <2>1, <2>2
<1>8. ASSUME NEW i \in 1..(n + 1)
      PROVE  entries'[i].date \in i..(d + 1)
    <2>1. CASE i \in 1..n
        BY <1>2, <1>4, <1>5, <2>1
    <2>2. CASE i = n + 1
        BY <1>2, <1>4, <1>6, <1>7, <2>2
    <2> QED
        BY <1>4, <2>1, <2>2
<1>9. ASSUME NEW i \in 1..(n + 1), NEW j \in 1..(n + 1), j <= i
      PROVE  entries'[i].date - entries'[j].date >= i - j
    <2>1. CASE i \in 1..n
        BY <1>4, <1>5, <1>9, <2>1
    <2>2. CASE i = n + 1 /\ j = n + 1
        BY <1>2, <1>4, <1>6, <2>2
    <2>3. CASE i = n + 1 /\ j \in 1..n
        <3>1. n \in 1..n /\ j <= n
            BY <1>4, <2>3
        <3> DEFINE e == entries[j].date
                   f == entries[n].date
        <3>2. e \in j..d /\ f \in n..d /\ f - e >= n - j
            BY <1>5, <2>3, <3>1
        <3>3. entries'[i].date = d + 1 /\ entries'[j].date = e
            BY <1>4, <1>6, <2>3
        <3> HIDE DEF e, f
        <3> QED
            BY <1>2, <1>4, <2>3, <3>1, <3>2, <3>3
    <2> QED
        BY <1>4, <2>1, <2>2, <2>3
<1> QED
    BY <1>2, <1>4, <1>8, <1>9 DEF RecordsRise

--------------------------------------------------------------------------------
LEMMA RecordInit == Backtest!Init => RecordInv
<1> SUFFICES ASSUME Backtest!Init PROVE RecordInv
    OBVIOUS
<1>1. values \in Seq({}) /\ entries \in Seq({}) /\ DOMAIN entries = {} /\ stage # "completed"
    BY DEF Backtest!Init
<1> QED
    BY <1>1 DEF RecordInv, RecordsRise

LEMMA RecordNext == RecordInv /\ [Backtest!Next]_(Backtest!backtestVars) => RecordInv'
<1> SUFFICES ASSUME RecordInv, [Backtest!Next]_(Backtest!backtestVars) PROVE RecordInv'
    OBVIOUS
<1>r. RecordsRise
    BY DEF RecordInv
<1>1. CASE Backtest!Next /\ Len(values) < LastDate /\ \E close \in [Universe -> Closes] :
                Backtest!SkipDate(close) \/ Backtest!HoldDate(close) \/ Backtest!RebalanceDate(close)
    <2>1. stage = "running"
        BY <1>1 DEF Backtest!Next
    <2>2. PICK close \in [Universe -> Closes] :
              Backtest!SkipDate(close) \/ Backtest!HoldDate(close) \/ Backtest!RebalanceDate(close)
        BY <1>1
    <2>3. CASE Backtest!SkipDate(close)
        BY <1>r, <2>1, <2>3, SkippedDate DEF Backtest!SkipDate, RecordInv
    <2>4. CASE Backtest!HoldDate(close)
        <3> DEFINE r == [date |-> Backtest!Date, cost |-> 0, rebalanced |-> FALSE,
                         source |-> Backtest!LatestFeedback({})]
        <3>1. /\ values' = Append(values, Backtest!Worth(invested, close))
              /\ entries' = Append(entries, r) /\ stage' = stage
            BY <2>4 DEF Backtest!HoldDate
        <3>2. r.date = Backtest!Date
            OBVIOUS
        <3> HIDE DEF r
        <3>3. RecordsRise'
            BY <1>r, <3>1, <3>2, RecordedDate
        <3> QED
            BY <2>1, <3>1, <3>3 DEF RecordInv
    <2>5. CASE Backtest!RebalanceDate(close)
        <3>1. PICK cost : /\ values' = Append(values, Backtest!Worth(invested', close))
                          /\ entries' = Append(entries, [date |-> Backtest!Date, cost |-> cost,
                                 rebalanced |-> TRUE, source |-> Backtest!LatestFeedback({Backtest!Date})])
                          /\ stage' = stage
            BY <2>5 DEF Backtest!RebalanceDate
        <3> DEFINE r == [date |-> Backtest!Date, cost |-> cost, rebalanced |-> TRUE,
                         source |-> Backtest!LatestFeedback({Backtest!Date})]
        <3>2. r.date = Backtest!Date
            OBVIOUS
        <3>3. entries' = Append(entries, r)
            BY <3>1
        <3> HIDE DEF r
        <3> DEFINE v == Backtest!Worth(invested', close)
        <3>4. values' = Append(values, v)
            BY <3>1
        <3> HIDE DEF v
        <3>5. RecordsRise'
            BY <1>r, <3>2, <3>3, <3>4, RecordedDate
        <3> QED
            BY <2>1, <3>1, <3>5 DEF RecordInv
    <2> QED
        BY <2>2, <2>3, <2>4, <2>5
<1>2. CASE Backtest!Finish
    <2>1. UNCHANGED <<values, entries>>
        BY <1>2 DEF Backtest!Finish
    <2>2. stage' = "completed" => bases' = [i \in DOMAIN entries |-> Backtest!BaseIndex(i)]
        BY <1>2 DEF Backtest!Finish
    <2> QED
        BY <1>r, <2>1, <2>2 DEF RecordInv, RecordsRise
<1>3. CASE UNCHANGED Backtest!backtestVars
    BY <1>3 DEF RecordInv, RecordsRise, Backtest!backtestVars
<1> QED
    BY <1>1, <1>2, <1>3 DEF Backtest!Next

--------------------------------------------------------------------------------
\* A sequence of dates that starts without a gap up to its i-th is as long as
\* its i-th date: i dates are at most i.
LEMMA NoGap ==
    ASSUME RecordsRise, NEW i \in DOMAIN entries
    PROVE  entries[i].date = i <=> {entries[j].date : j \in 1..i} = 1..entries[i].date
<1> DEFINE d == entries[i].date
           Dates == {entries[j].date : j \in 1..i}
<1>1. PICK S : entries \in Seq(S)
    BY DEF RecordsRise
<1>2. i \in Nat /\ 1..i \subseteq DOMAIN entries /\ i \in 1..i
    BY <1>1
<1>3. /\ \A j \in 1..i : entries[j].date \in Int /\ entries[j].date >= j
      /\ \A j \in 1..i : d - entries[j].date >= i - j
    <2>1. PICK T : values \in Seq(T)
        BY DEF RecordsRise
    <2>2. Len(values) \in Nat
        BY <2>1
    <2> QED
        BY <1>2, <2>2 DEF RecordsRise
<1>4. d \in Int /\ d >= i
    BY <1>2, <1>3
<1>5. ASSUME d = i
      PROVE  Dates = 1..d
    <2>1. \A j \in 1..i : entries[j].date = j
        BY <1>2, <1>3, <1>5
    <2> QED
        BY <1>5, <2>1
<1>6. ASSUME Dates = 1..d
      PROVE  d = i
    <2> DEFINE f == [j \in 1..i |-> entries[j].date]
    <2>1. f \in [1..i -> 1..d]
        BY <1>6
    <2>2. \A t \in 1..d : \E j \in 1..i : f[j] = t
        BY <1>6
    <2>3. f \in Surjection(1..i, 1..d)
        BY <2>1, <2>2 DEF Surjection
    <2>4. IsFiniteSet(1..i) /\ Cardinality(1..i) = i /\ Cardinality(1..d) = d
        BY <1>2, <1>4, FS_Interval
    <2>5. Cardinality(1..d) <= Cardinality(1..i)
        BY <2>3, <2>4, FS_Surjection
    <2> QED
        BY <1>2, <1>4, <2>4, <2>5
<1> QED
    BY <1>5, <1>6

\* The invariant settles the base of every record's gross return.
LEMMA BasesPrecede == RecordInv => Backtest!GrossUsesPrecedingValue
<1> SUFFICES ASSUME RecordInv, stage = "completed", NEW i \in DOMAIN entries, i > 1
             PROVE  /\ bases[i] <= entries[i].date - 1
                    /\ bases[i] = entries[i].date - 1 <=>
                           {entries[j].date : j \in 1..i} = 1..entries[i].date
    BY DEF Backtest!GrossUsesPrecedingValue
<1>1. RecordsRise /\ bases[i] = Backtest!BaseIndex(i)
    BY DEF RecordInv
<1>2. i \in Nat /\ Len(values) \in Nat /\ entries[i].date \in i..Len(values)
    <2>1. PICK S : entries \in Seq(S)
        BY <1>1 DEF RecordsRise
    <2>2. PICK T : values \in Seq(T)
        BY <1>1 DEF RecordsRise
    <2> QED
        BY <1>1, <2>1, <2>2 DEF RecordsRise
<1>3. bases[i] = i - 1
    BY <1>1, <1>2 DEF Backtest!BaseIndex
<1>4. entries[i].date = i <=> {entries[j].date : j \in 1..i} = 1..entries[i].date
    BY <1>1, NoGap
<1> DEFINE d == entries[i].date
           whole == {entries[j].date : j \in 1..i} = 1..entries[i].date
<1>5. d \in Int /\ d >= i /\ (d = i <=> whole)
    BY <1>2, <1>4
<1> HIDE DEF d, whole
<1>6. bases[i] <= d - 1 /\ (bases[i] = d - 1 <=> whole)
    BY <1>2, <1>3, <1>5
<1> QED
    BY <1>6 DEF d, whole

\* PipelineBacktester.run: a record's gross return never takes a value of its
\* own date or a later one, and takes an older one than the preceding exactly
\* after a skipped date.
THEOREM GrossReturnsLookBack == JobSpec => []GrossUsesPrecedingValue
<1>1. RecordInv => GrossUsesPrecedingValue
    BY BasesPrecede DEF GrossUsesPrecedingValue
<1>2. Backtest!Spec => []RecordInv
    BY RecordInit, RecordNext, PTL DEF Backtest!Spec
<1> QED
    BY <1>1, <1>2, JobsAreSteps, PTL

--------------------------------------------------------------------------------
\* Max and Min of two, as the formulas of the code use them.
LEMMA MaxOfTwo ==
    ASSUME NEW a \in Int, NEW b \in Int
    PROVE  /\ Max({a, b}) \in {a, b} /\ Max({a, b}) >= a /\ Max({a, b}) >= b
<1>1. \E x \in {a, b} : \A y \in {a, b} : x >= y
    <2>1. CASE a >= b
        BY <2>1
    <2>2. CASE b >= a
        BY <2>2
    <2> QED
        BY <2>1, <2>2
<1> QED
    BY <1>1 DEF Max

LEMMA MinOfTwo ==
    ASSUME NEW a \in Int, NEW b \in Int
    PROVE  /\ Min({a, b}) \in {a, b} /\ Min({a, b}) <= a /\ Min({a, b}) <= b
<1>1. \E x \in {a, b} : \A y \in {a, b} : x <= y
    <2>1. CASE a <= b
        BY <2>1
    <2>2. CASE b <= a
        BY <2>2
    <2> QED
        BY <2>1, <2>2
<1> QED
    BY <1>1 DEF Min

LEMMA NotBelowZero ==
    ASSUME NEW x \in Int
    PROVE  Max({0, x}) = (IF x < 0 THEN 0 ELSE x) /\ Max({0, x}) \in Nat
<1>1. Max({0, x}) \in {0, x} /\ Max({0, x}) >= 0 /\ Max({0, x}) >= x
    BY MaxOfTwo
<1> DEFINE m == Max({0, x})
<1>2. m \in {0, x} /\ m >= 0 /\ m >= x
    BY <1>1
<1> HIDE DEF m
<1>3. m = (IF x < 0 THEN 0 ELSE x) /\ m \in Nat
    BY <1>2
<1> QED
    BY <1>3 DEF m

--------------------------------------------------------------------------------
\* Order statistics.  How many of the observations of s are at most x.
Rank(s, x) == Cardinality(UpTo(s, x))

LEMMA RankRises ==
    ASSUME NEW s \in Seq(Nat), NEW x \in Int, NEW y \in Int, x <= y
    PROVE  /\ Rank(s, x) \in 0..Len(s) /\ Rank(s, y) \in 0..Len(s)
           /\ Rank(s, x) <= Rank(s, y)
           /\ IsFiniteSet(UpTo(s, x)) /\ UpTo(s, x) \subseteq UpTo(s, y)
<1>1. DOMAIN s = 1..Len(s) /\ Len(s) \in Nat /\ \A i \in DOMAIN s : s[i] \in Nat
    OBVIOUS
<1>2. IsFiniteSet(1..Len(s)) /\ Cardinality(1..Len(s)) = Len(s)
    <2> DEFINE n == Len(s)
    <2>1. n \in Nat
        BY <1>1
    <2> HIDE DEF n
    <2>2. IsFiniteSet(1..n) /\ Cardinality(1..n) = n
        BY <2>1, FS_Interval
    <2> QED
        BY <2>2 DEF n
<1>3. UpTo(s, x) \subseteq UpTo(s, y) /\ UpTo(s, y) \subseteq 1..Len(s)
    BY <1>1 DEF UpTo
<1> DEFINE X == UpTo(s, x)
           Y == UpTo(s, y)
           D == 1..Len(s)
<1> HIDE DEF X, Y, D
<1>4. X \in SUBSET Y /\ Y \in SUBSET D /\ IsFiniteSet(D) /\ Cardinality(D) = Len(s)
    BY <1>2, <1>3 DEF X, Y, D
<1>5. IsFiniteSet(Y) /\ Cardinality(Y) <= Cardinality(D)
    BY <1>4, FS_Subset
<1>6. IsFiniteSet(X) /\ Cardinality(X) <= Cardinality(Y)
    BY <1>4, <1>5, FS_Subset
<1>7. Cardinality(X) \in Nat /\ Cardinality(Y) \in Nat
    BY <1>5, <1>6, FS_CardinalityType
<1> QED
    BY <1>1, <1>4, <1>5, <1>6, <1>7 DEF Rank, X, Y

\* An observation counts among those up to it, and not among those before it.
LEMMA RankOfObserved ==
    ASSUME NEW s \in Seq(Nat), NEW i \in DOMAIN s
    PROVE  Rank(s, s[i] - 1) + 1 <= Rank(s, s[i])
<1> DEFINE x == s[i]
           w == s[i] - 1
           X == UpTo(s, w)
           Y == UpTo(s, x)
<1>1. x \in Int /\ w \in Int /\ w <= x
    OBVIOUS
<1>2. i \in Y /\ i \notin X
    BY <1>1 DEF UpTo
<1> HIDE DEF x, w
<1>3. X \subseteq Y /\ IsFiniteSet(X)
    BY <1>1, RankRises
<1>4. IsFiniteSet(Y) /\ Cardinality(Y) \in Int
    BY <1>1, RankRises DEF Rank
<1> HIDE DEF X, Y
<1>5. Cardinality(Y \ {i}) = Cardinality(Y) - 1 /\ IsFiniteSet(Y \ {i})
    BY <1>2, <1>4, FS_RemoveElement
<1>6. Cardinality(X) <= Cardinality(Y \ {i}) /\ Cardinality(X) \in Nat
    BY <1>2, <1>3, <1>5, FS_Subset, FS_CardinalityType
<1> QED
    BY <1>4, <1>5, <1>6 DEF Rank, X, Y, x, w

\* The greatest observation up to x has the rank of x.
LEMMA ObservedBelow ==
    ASSUME NEW s \in Seq(Nat), NEW x \in Int, Rank(s, x) # 0
    PROVE  \E m \in Range(s) : m <= x /\ m \in Nat /\ Rank(s, m) = Rank(s, x)
<1> DEFINE U == UpTo(s, x)
           f == [i \in U |-> s[i]]
           V == {s[i] : i \in U}
<1>1. \A i \in U : i \in DOMAIN s /\ s[i] <= x /\ s[i] \in Nat /\ s[i] \in Range(s)
    BY DEF UpTo, Range
<1>2. IsFiniteSet(U)
    BY RankRises
<1>3. U # {}
    BY FS_EmptySet DEF Rank
<1>4. f \in Surjection(U, V)
    BY DEF Surjection
<1>5. V \in SUBSET Nat /\ V # {}
    BY <1>1, <1>3
<1>6. IsFiniteSet(V)
    BY <1>2, <1>4, FS_Surjection
<1> HIDE DEF V
<1>7. Max(V) \in V /\ \A v \in V : v <= Max(V)
    BY <1>5, <1>6, MaxOfNats
<1> DEFINE m == Max(V)
<1> HIDE DEF m
<1>8. m \in V /\ \A v \in V : v <= m
    BY <1>7 DEF m
<1>9. m \in Range(s) /\ m <= x /\ m \in Nat
    BY <1>1, <1>8 DEF V
<1>10. UpTo(s, m) = UpTo(s, x)
    <2>1. \A i \in DOMAIN s : s[i] \in Nat
        OBVIOUS
    <2>2. ASSUME NEW i \in DOMAIN s, s[i] <= x PROVE s[i] <= m
        BY <1>8, <2>2 DEF V, UpTo
    <2>3. ASSUME NEW i \in DOMAIN s, s[i] <= m PROVE s[i] <= x
        BY <1>9, <2>1, <2>3
    <2> QED
        BY <2>2, <2>3 DEF UpTo
<1> QED
    BY <1>9, <1>10 DEF Rank

\* np.sort: the k-th value is at most x exactly when k observations are.
LEMMA SortedRanks ==
    ASSUME NEW s \in Seq(Nat)
    PROVE  /\ Sorted(s) \in Seq(Nat) /\ Len(Sorted(s)) = Len(s) /\ DOMAIN Sorted(s) = DOMAIN s
           /\ \A k \in 1..Len(s) : Sorted(s)[k] \in Range(s) /\ Sorted(s)[k] \in Nat
           /\ \A k \in 1..Len(s), x \in Int : Sorted(s)[k] <= x <=> k <= Rank(s, x)
<1> DEFINE n == Len(s)
           At(k) == {x \in Range(s) : Cardinality(UpTo(s, x)) >= k}
<1>1. n \in Nat /\ DOMAIN s = 1..n /\ Range(s) \subseteq Nat
    BY DEF Range
<1>2. ASSUME NEW k \in 1..n, NEW x \in Int, k <= Rank(s, x)
      PROVE  \E m \in At(k) : m <= x
    <2>1. Rank(s, x) # 0
        BY <1>1, <1>2
    <2>2. PICK m \in Range(s) : m <= x /\ m \in Nat /\ Rank(s, m) = Rank(s, x)
        BY <2>1, ObservedBelow
    <2>3. Rank(s, x) \in Nat
        BY RankRises
    <2> QED
        BY <1>2, <2>2, <2>3 DEF Rank
<1>3. ASSUME NEW k \in 1..n
      PROVE  At(k) # {}
    <2>1. IsFiniteSet(Range(s)) /\ Range(s) # {}
        <3>1. s \in Surjection(1..n, Range(s))
            BY <1>1 DEF Surjection, Range
        <3>2. IsFiniteSet(1..n)
            BY <1>1, FS_Interval
        <3>3. Range(s) # {}
            BY <1>1, <1>3 DEF Range
        <3> QED
            BY <3>1, <3>2, <3>3, FS_Surjection
    <2> DEFINE top == Max(Range(s))
    <2>2. top \in Range(s) /\ \A m \in Range(s) : m <= top
        BY <1>1, <2>1, MaxOfNats
    <2> HIDE DEF top
    <2>3. UpTo(s, top) = 1..n
        BY <1>1, <2>2 DEF UpTo, Range
    <2>4. Cardinality(UpTo(s, top)) = n
        BY <1>1, <2>3, FS_Interval
    <2>5. n >= k
        BY <1>1, <1>3
    <2> QED
        BY <2>2, <2>4, <2>5
<1>4. \A k \in 1..n : Sorted(s)[k] = Min(At(k))
    BY <1>1 DEF Sorted
<1>5. \A k \in 1..n : At(k) \in SUBSET Nat
    BY <1>1
<1>6. ASSUME NEW k \in 1..n
      PROVE  Sorted(s)[k] \in At(k) /\ \A m \in At(k) : Sorted(s)[k] <= m
    <2> DEFINE A == At(k)
    <2>1. A \in SUBSET Nat /\ A # {} /\ Sorted(s)[k] = Min(A)
        BY <1>3, <1>4, <1>5
    <2> HIDE DEF A
    <2>2. Min(A) \in A /\ \A m \in A : Min(A) <= m
        BY <2>1, MinOfNats
    <2> QED
        BY <2>1, <2>2 DEF A
<1>7. ASSUME NEW k \in 1..n
      PROVE  Sorted(s)[k] \in Range(s) /\ Sorted(s)[k] \in Nat /\ k <= Rank(s, Sorted(s)[k])
    <2>1. Sorted(s)[k] \in At(k)
        BY <1>6
    <2>2. Sorted(s)[k] \in Range(s) /\ Sorted(s)[k] \in Nat /\ Rank(s, Sorted(s)[k]) >= k
        BY <1>1, <2>1 DEF Rank
    <2>3. Rank(s, Sorted(s)[k]) \in Int /\ k \in Int
        BY <2>2, RankRises
    <2> QED
        BY <2>2, <2>3
<1>8. ASSUME NEW k \in 1..n, NEW x \in Int
      PROVE  Sorted(s)[k] <= x <=> k <= Rank(s, x)
    <2> DEFINE v == Sorted(s)[k]
    <2>1. v \in Nat /\ k <= Rank(s, v)
        BY <1>7
    <2>2. ASSUME k <= Rank(s, x) PROVE v <= x
        <3>1. PICK m \in At(k) : m <= x
            BY <1>2, <2>2
        <3>2. v <= m /\ m \in Nat
            BY <1>1, <1>6, <3>1
        <3> HIDE DEF v, At
        <3> QED
            BY <2>1, <3>1, <3>2
    <2> HIDE DEF v
    <2>3. ASSUME v <= x PROVE k <= Rank(s, x)
        <3>1. Rank(s, v) <= Rank(s, x) /\ Rank(s, v) \in Nat /\ Rank(s, x) \in Nat
            BY <2>1, <2>3, RankRises
        <3> QED
            BY <2>1, <3>1
    <2> QED
        BY <2>2, <2>3 DEF v
<1>9. Sorted(s) \in [1..n -> Nat]
    <2>1. Sorted(s) = [k \in 1..n |-> Min(At(k))]
        BY <1>1 DEF Sorted
    <2>2. \A k \in 1..n : Min(At(k)) \in Nat
        BY <1>4, <1>7
    <2> HIDE DEF At
    <2> QED
        BY <2>1, <2>2
<1>10. Sorted(s) \in Seq(Nat) /\ Len(Sorted(s)) = n /\ DOMAIN Sorted(s) = 1..n
    <2> DEFINE S == Sorted(s)
    <2>1. n \in Nat /\ S \in [1..n -> Nat]
        BY <1>1, <1>9
    <2> HIDE DEF S, n
    <2>2. S \in Seq(Nat)
        BY <2>1
    <2>3. Len(S) = n /\ DOMAIN S = 1..n
        BY <2>1, <2>2
    <2> QED
        BY <2>2, <2>3 DEF S
<1> QED
    BY <1>1, <1>7, <1>8, <1>10

--------------------------------------------------------------------------------
\* Quartiles.  With n observations the k-th is at place k * (n - 1) / 4, counted
\* from 0: a number i - 1 of whole places, and r quarters of the next.
Between(S, k, n, i, r) ==
    /\ i \in 1..n /\ r \in 0..3 /\ k * (n - 1) = 4 * (i - 1) + r
    /\ r = 0 => Quartile(S, k) = 4 * S[i]
    /\ r # 0 => i + 1 \in 1..n /\ Quartile(S, k) = 4 * S[i] + r * (S[i + 1] - S[i])

LEMMA QuartilePlace ==
    ASSUME NEW S \in Seq(Nat), Len(S) >= 1, NEW k \in 1..3
    PROVE  /\ \E i \in 1..Len(S), r \in 0..3 : Between(S, k, Len(S), i, r)
           /\ Quartile(S, k) \in Int
<1> DEFINE n == Len(S)
           p == k * (n - 1)
           i == p \div 4 + 1
           r == p % 4
<1>1. n \in Nat /\ n >= 1
    OBVIOUS
<1>2. p \in Nat /\ p <= 3 * (n - 1) /\ \A m \in 1..n : S[m] \in Nat
    <2>1. \A m \in 1..n : S[m] \in Nat
        OBVIOUS
    <2> HIDE DEF n
    <2>2. k \in Nat /\ k <= 3 /\ n - 1 \in Nat
        BY <1>1
    <2>3. k = 1 \/ k = 2 \/ k = 3
        OBVIOUS
    <2> QED
        BY <1>1, <2>1, <2>3
<1>3. Quartile(S, k) = 4 * S[i] + (IF r = 0 THEN 0 ELSE r * (S[i + 1] - S[i]))
    BY DEF Quartile
<1> HIDE DEF p, n
<1>4. r \in 0..3 /\ i \in Int /\ p = 4 * (i - 1) + r
    BY <1>2
<1> HIDE DEF i, r
<1>5. i \in 1..n /\ (r # 0 => i + 1 \in 1..n)
    BY <1>1, <1>2, <1>4
<1>6. S[i] \in Nat /\ (r # 0 => S[i + 1] \in Nat)
    BY <1>2, <1>5
<1>7. r = 0 => Quartile(S, k) = 4 * S[i]
    BY <1>3, <1>6
<1>8. r # 0 => Quartile(S, k) = 4 * S[i] + r * (S[i + 1] - S[i])
    BY <1>3
<1>9. Between(S, k, n, i, r)
    BY <1>4, <1>5, <1>7, <1>8 DEF Between, p
<1>10. Quartile(S, k) \in Int
    <2>1. CASE r = 0
        BY <1>6, <1>7, <2>1
    <2>2. CASE r # 0
        <3> DEFINE a == S[i]
                   b == S[i + 1]
        <3>1. a \in Nat /\ b \in Nat /\ Quartile(S, k) = 4 * a + r * (b - a)
            BY <1>6, <1>8, <2>2
        <3> HIDE DEF a, b
        <3> QED
            BY <1>4, <3>1
    <2> QED
        BY <2>1, <2>2
<1> QED
    BY <1>4, <1>5, <1>9, <1>10 DEF n

\* What an interpolated value lies between.
LEMMA Interpolated ==
    ASSUME NEW a \in Int, NEW b \in Int, a <= b, NEW r \in 1..3
    PROVE  /\ 4 * a + r * (b - a) \in Int
           /\ 4 * a <= 4 * a + r * (b - a) /\ 4 * a + r * (b - a) <= 4 * b
           /\ \A x \in Int : a < x /\ b <= x => 4 * a + r * (b - a) < 4 * x
           /\ \A x \in Int : a >= x /\ b > x => 4 * a + r * (b - a) > 4 * x
<1>1. r = 1 \/ r = 2 \/ r = 3
    OBVIOUS
<1>2. CASE r = 1
    BY <1>2
<1>3. CASE r = 2
    BY <1>3
<1>4. CASE r = 3
    BY <1>4
<1> QED
    BY <1>1, <1>2, <1>3, <1>4

LEMMA SortedRises ==
    ASSUME NEW s \in Seq(Nat), NEW j \in 1..Len(s), NEW k \in 1..Len(s), j <= k
    PROVE  Sorted(s)[j] <= Sorted(s)[k]
<1> DEFINE v == Sorted(s)[k]
<1>1. v \in Nat
    BY SortedRanks
<1> HIDE DEF v
<1>2. k <= Rank(s, v) /\ Rank(s, v) \in Nat
    <2>1. \A x \in Int : Sorted(s)[k] <= x <=> k <= Rank(s, x)
        BY SortedRanks
    <2>2. v \in Int /\ Sorted(s)[k] <= v
        BY <1>1 DEF v
    <2>3. k <= Rank(s, v)
        BY <2>1, <2>2, Zenon
    <2> QED
        BY <1>1, <2>3, RankRises
<1>3. j <= Rank(s, v)
    BY <1>2
<1>4. Sorted(s)[j] <= v
    BY <1>1, <1>3, SortedRanks
<1> QED
    BY <1>4 DEF v

\* The quartiles of the same observations rise.
LEMMA QuartilesRise ==
    ASSUME NEW s \in Seq(Nat), Len(s) >= 1, NEW k \in 1..3, NEW l \in 1..3, k <= l
    PROVE  Quartile(Sorted(s), k) <= Quartile(Sorted(s), l)
<1> DEFINE S == Sorted(s)
           n == Len(s)
<1>1. /\ S \in Seq(Nat) /\ Len(S) = n /\ n \in Nat /\ n >= 1
      /\ \A m \in 1..n : S[m] \in Nat
      /\ \A i, j \in 1..n : i <= j => S[i] <= S[j]
    BY SortedRanks, SortedRises
<1> HIDE DEF S, n
<1>2. PICK i \in 1..n, r \in 0..3 : Between(S, k, n, i, r)
    BY <1>1, QuartilePlace
<1>3. PICK j \in 1..n, t \in 0..3 : Between(S, l, n, j, t)
    BY <1>1, QuartilePlace
<1>4. k * (n - 1) <= l * (n - 1)
    <2> DEFINE m == n - 1
    <2>1. m \in Nat /\ k \in Nat /\ l \in Nat
        BY <1>1
    <2> HIDE DEF m
    <2>2. k * m <= l * m
        <3>1. k = 1 \/ k = 2 \/ k = 3
            OBVIOUS
        <3>2. l = 1 \/ l = 2 \/ l = 3
            OBVIOUS
        <3> QED
            BY <2>1, <3>1, <3>2
    <2> QED
        BY <2>2 DEF m
<1>5. 4 * (i - 1) + r <= 4 * (j - 1) + t
    BY <1>2, <1>3, <1>4 DEF Between
<1> DEFINE a == S[i]
           c == S[j]
           Q == Quartile(S, k)
           R == Quartile(S, l)
<1>6. a \in Nat /\ c \in Nat
    BY <1>1
<1>7. 4 * c <= R
    <2>1. CASE t = 0
        BY <1>3, <1>6, <2>1 DEF Between
    <2>2. CASE t # 0
        <3> DEFINE d == S[j + 1]
        <3>1. j + 1 \in 1..n /\ R = 4 * c + t * (d - c)
            BY <1>3, <2>2 DEF Between
        <3>2. d \in Nat /\ c <= d
            <4>1. j <= j + 1
                OBVIOUS
            <4> QED
                BY <1>1, <3>1, <4>1
        <3> HIDE DEF c, d, R
        <3> QED
            BY <1>6, <2>2, <3>1, <3>2, Interpolated
    <2> QED
        BY <2>1, <2>2
<1>8. CASE i < j
    <2>1. Q <= 4 * c
        <3>1. CASE r = 0
            <4>1. Q = 4 * a
                BY <1>2, <3>1 DEF Between
            <4>2. a <= c
                BY <1>1, <1>8
            <4> HIDE DEF Q, a, c
            <4> QED
                BY <1>6, <4>1, <4>2
        <3>2. CASE r # 0
            <4> DEFINE b == S[i + 1]
            <4>1. i + 1 \in 1..n /\ Q = 4 * a + r * (b - a)
                BY <1>2, <3>2 DEF Between
            <4>2. b \in Nat /\ a <= b /\ b <= c
                <5>1. i <= i + 1 /\ i + 1 <= j
                    BY <1>8
                <5> QED
                    BY <1>1, <4>1, <5>1
            <4> HIDE DEF a, b, c, Q
            <4>3. Q <= 4 * b /\ Q \in Int
                BY <1>6, <3>2, <4>1, <4>2, Interpolated
            <4> QED
                BY <1>6, <4>2, <4>3
        <3> QED
            BY <3>1, <3>2
    <2>2. Q \in Int /\ R \in Int
        BY <1>1, QuartilePlace
    <2> HIDE DEF Q, R, c
    <2> QED
        BY <1>6, <1>7, <2>1, <2>2 DEF Q, R, S
<1>9. CASE i = j
    <2>1. r <= t
        BY <1>5, <1>9
    <2>2. Q \in Int /\ R \in Int
        BY <1>1, QuartilePlace
    <2>3. CASE r = 0
        <3>1. Q = 4 * c
            BY <1>2, <1>9, <2>3 DEF Between
        <3> HIDE DEF Q, R, c
        <3> QED
            BY <1>7, <3>1 DEF Q, R, S
    <2>4. CASE r # 0
        <3> DEFINE b == S[i + 1]
        <3>1. i + 1 \in 1..n /\ Q = 4 * a + r * (b - a)
            BY <1>2, <2>4 DEF Between
        <3>2. t # 0 /\ R = 4 * a + t * (b - a)
            <4>1. t # 0
                BY <2>1, <2>4
            <4> QED
                BY <1>3, <1>9, <4>1 DEF Between
        <3>3. b \in Nat /\ a <= b
            <4>1. i <= i + 1
                OBVIOUS
            <4> QED
                BY <1>1, <3>1, <4>1
        <3> DEFINE d == b - a
        <3>4. d \in Nat
            BY <1>6, <3>3
        <3> HIDE DEF a, b, Q, R, d
        <3>5. r * d <= t * d /\ r * d \in Nat /\ t * d \in Nat
            BY <2>1, <3>4
        <3>6. Q = 4 * a + r * d /\ R = 4 * a + t * d
            BY <3>1, <3>2 DEF d
        <3>7. Q <= R
            BY <1>6, <3>5, <3>6
        <3> QED
            BY <3>7 DEF Q, R, S
    <2> QED
        BY <2>3, <2>4
<1>10. i < j \/ i = j
    BY <1>5
<1> QED
    BY <1>8, <1>9, <1>10

--------------------------------------------------------------------------------
\* Where an observation stands to a quartile, by the ranks of it and of what is
\* before it.
LEMMA QuartileOfObserved ==
    ASSUME NEW s \in Seq(Nat), NEW k \in 1..3, NEW o \in DOMAIN s
    PROVE  /\ 4 * s[o] >= Quartile(Sorted(s), k) <=> 4 * (Rank(s, s[o]) - 1) >= k * (Len(s) - 1)
           /\ 4 * s[o] > Quartile(Sorted(s), k) <=> 4 * Rank(s, s[o] - 1) > k * (Len(s) - 1)
<1> DEFINE S == Sorted(s)
           n == Len(s)
           x == s[o]
           w == s[o] - 1
           c == Rank(s, x)
           b == Rank(s, w)
           Q == Quartile(S, k)
<1>1. n \in Nat /\ n >= 1 /\ x \in Nat /\ w \in Int /\ w = x - 1
    OBVIOUS
<1>2. b + 1 <= c
    BY RankOfObserved
<1> HIDE DEF x, w
<1>3. c \in 0..n /\ b \in 0..n
    BY <1>1, RankRises
<1>4. /\ S \in Seq(Nat) /\ Len(S) = n
      /\ \A m \in 1..n : S[m] \in Nat
      /\ \A i, j \in 1..n : i <= j => S[i] <= S[j]
    BY SortedRanks, SortedRises
<1>5. \A m \in 1..n : (S[m] <= x <=> m <= c) /\ (S[m] <= w <=> m <= b)
    BY <1>1, SortedRanks
<1> HIDE DEF S, n, c, b
<1>6. PICK i \in 1..n, r \in 0..3 : Between(S, k, n, i, r)
    BY <1>1, <1>4, QuartilePlace
<1> DEFINE p == k * (n - 1)
           u == S[i]
<1>7. u \in Nat /\ (u <= x <=> i <= c) /\ (u <= w <=> i <= b)
    <2>1. u \in Nat
        BY <1>4, <1>6
    <2>2. (S[i] <= x <=> i <= c) /\ (S[i] <= w <=> i <= b)
        BY <1>5, <1>6, Zenon
    <2> QED
        BY <2>1, <2>2
<1>8. p = 4 * (i - 1) + r
    BY <1>6 DEF Between
<1>9. CASE r = 0
    <2>1. Q = 4 * u
        BY <1>6, <1>9 DEF Between
    <2> HIDE DEF p, u, Q
    <2>2. 4 * x >= Q <=> 4 * (c - 1) >= p
        BY <1>1, <1>3, <1>7, <1>8, <1>9, <2>1
    <2>3. 4 * x > Q <=> 4 * b > p
        BY <1>1, <1>3, <1>7, <1>8, <1>9, <2>1
    <2> QED
        BY <2>2, <2>3 DEF p, Q, S, x, w, c, b, n
<1>10. CASE r # 0
    <2> DEFINE v == S[i + 1]
    <2>1. i + 1 \in 1..n /\ Q = 4 * u + r * (v - u)
        BY <1>6, <1>10 DEF Between
    <2>2. v \in Nat /\ u <= v /\ (v <= x <=> i + 1 <= c) /\ (v <= w <=> i + 1 <= b)
        <3>1. i <= i + 1 /\ i \in 1..n
            BY <1>6
        <3>2. v \in Nat /\ u <= v
            BY <1>4, <2>1, <3>1
        <3>3. (S[i + 1] <= x <=> i + 1 <= c) /\ (S[i + 1] <= w <=> i + 1 <= b)
            BY <1>5, <2>1, Zenon
        <3> QED
            BY <3>2, <3>3
    <2> HIDE DEF p, u, v, Q
    <2>3. /\ Q \in Int /\ 4 * u <= Q /\ Q <= 4 * v
          /\ (u < x /\ v <= x => Q < 4 * x)
          /\ (u >= x /\ v > x => Q > 4 * x)
        BY <1>1, <1>7, <1>10, <2>1, <2>2, Interpolated
    <2>4. 4 * x >= Q <=> i + 1 <= c
        BY <1>1, <1>2, <1>3, <1>7, <2>2, <2>3
    <2>5. 4 * x > Q <=> i <= b
        BY <1>1, <1>2, <1>3, <1>7, <2>2, <2>3
    <2>6. 4 * x >= Q <=> 4 * (c - 1) >= p
        BY <1>3, <1>8, <1>10, <2>4
    <2>7. 4 * x > Q <=> 4 * b > p
        BY <1>3, <1>8, <1>10, <2>5
    <2> QED
        BY <2>6, <2>7 DEF p, Q, S, x, w, c, b, n
<1> QED
    BY <1>9, <1>10

\* How many observations are above x, and how many below.
Above(s, x) == {i \in DOMAIN s : s[i] > x}
Below(s, x) == {i \in DOMAIN s : s[i] < x}

LEMMA RanksOfOthers ==
    ASSUME NEW s \in Seq(Nat), NEW x \in Int
    PROVE  /\ Cardinality(Above(s, x)) = Len(s) - Rank(s, x)
           /\ Cardinality(Below(s, x)) = Rank(s, x - 1)
<1>1. DOMAIN s = 1..Len(s) /\ Len(s) \in Nat /\ \A i \in DOMAIN s : s[i] \in Nat
    OBVIOUS
<1>2. Below(s, x) = UpTo(s, x - 1)
    BY <1>1 DEF UpTo, Below
<1> DEFINE n == Len(s)
           D == 1..n
           U == UpTo(s, x)
           V == Above(s, x)
<1>3. IsFiniteSet(D) /\ Cardinality(D) = n
    <2> HIDE DEF n
    <2>1. n \in Int /\ n >= 0
        BY <1>1 DEF n
    <2> QED
        BY <2>1, FS_Interval
<1>4. V = D \ U /\ U \subseteq D
    BY <1>1 DEF UpTo, Above
<1> HIDE DEF D, U, V, n
<1>5. Cardinality(V) = Cardinality(D) - Cardinality(D \cap U)
    BY <1>3, <1>4, FS_Difference
<1>6. D \cap U = U
    BY <1>4
<1> QED
    BY <1>2, <1>3, <1>5, <1>6 DEF Rank, U, V, n

--------------------------------------------------------------------------------
\* SetToSeq lists every element of a finite set once.
LEMMA Enumerated ==
    ASSUME NEW E, IsFiniteSet(E)
    PROVE  /\ Cardinality(E) \in Nat
           /\ SetToSeq(E) \in [1..Cardinality(E) -> E]
           /\ \A i, j \in 1..Cardinality(E) : SetToSeq(E)[i] = SetToSeq(E)[j] => i = j
           /\ \A t \in E : \E i \in 1..Cardinality(E) : SetToSeq(E)[i] = t
<1> DEFINE m == Cardinality(E)
<1>1. m \in Nat /\ ExistsBijection(1..m, E)
    BY FS_CardinalityType
<1>2. \E f \in [1..m -> E] : IsInjective(f)
    BY <1>1 DEF ExistsBijection, Bijection, Injection
<1> DEFINE e == SetToSeq(E)
<1>3. e \in [1..m -> E] /\ IsInjective(e)
    BY <1>2 DEF SetToSeq
<1> HIDE DEF e
<1>4. IsFiniteSet(1..m) /\ Cardinality(1..m) = m
    <2> HIDE DEF m
    <2> QED
        BY <1>1, FS_Interval
<1>5. e \in Injection(1..m, E)
    BY <1>3 DEF Injection
<1>6. e \in Surjection(1..m, E)
    BY <1>4, <1>5, FS_Injection
<1> QED
    BY <1>1, <1>3, <1>6 DEF IsInjective, Surjection, e

\* The ratios of E, as the score sorts them.
RatiosOf(E) == [i \in 1..Cardinality(E) |-> fits[SetToSeq(E)[i]].ratio]

\* A rank among them is a number of tickers.
LEMMA RankOfRatios ==
    ASSUME NEW E, IsFiniteSet(E), \A t \in E : fits[t].ratio \in Nat, NEW x \in Int
    PROVE  /\ RatiosOf(E) \in Seq(Nat) /\ Len(RatiosOf(E)) = Cardinality(E)
           /\ Rank(RatiosOf(E), x) = Cardinality({t \in E : fits[t].ratio <= x})
<1> DEFINE m == Cardinality(E)
           e == SetToSeq(E)
           s == RatiosOf(E)
           U == UpTo(s, x)
           T == {t \in E : fits[t].ratio <= x}
           g == [i \in U |-> e[i]]
<1>1. /\ m \in Nat /\ e \in [1..m -> E]
      /\ \A i, j \in 1..m : e[i] = e[j] => i = j
      /\ \A t \in E : \E i \in 1..m : e[i] = t
    BY Enumerated
<1>2. s = [i \in 1..m |-> fits[e[i]].ratio]
    BY DEF RatiosOf
<1> HIDE DEF m, e, s
<1>3. s \in [1..m -> Nat]
    BY <1>1, <1>2
<1>4. s \in Seq(Nat) /\ Len(s) = m /\ DOMAIN s = 1..m
    <2>1. s \in Seq(Nat)
        BY <1>1, <1>3
    <2> QED
        BY <1>1, <1>3, <2>1
<1>5. U = {i \in 1..m : fits[e[i]].ratio <= x}
    BY <1>2, <1>4 DEF UpTo
<1>6. IsFiniteSet(U)
    <2>1. x \in Int /\ x <= x
        OBVIOUS
    <2> QED
        BY <1>4, <2>1, RankRises
<1> HIDE DEF U
<1>7. g \in [U -> T]
    BY <1>1, <1>5
<1>8. g \in Bijection(U, T)
    <2>1. \A i, j \in U : g[i] = g[j] => i = j
        BY <1>1, <1>5
    <2>2. \A t \in T : \E i \in U : g[i] = t
        BY <1>1, <1>5
    <2>3. g \in Injection(U, T)
        BY <1>7, <2>1 DEF Injection, IsInjective
    <2>4. g \in Surjection(U, T)
        BY <1>7, <2>2 DEF Surjection
    <2> QED
        BY <2>3, <2>4 DEF Bijection
<1> HIDE DEF g, T
<1>9. Cardinality(T) = Cardinality(U)
    BY <1>6, <1>8, FS_Bijection DEF ExistsBijection
<1> QED
    BY <1>4, <1>9 DEF Rank, U, T, s, m

\* Taking a part out of a finite set.
LEMMA WithoutPart ==
    ASSUME NEW E, IsFiniteSet(E), NEW B \in SUBSET E
    PROVE  /\ IsFiniteSet(E \ B) /\ IsFiniteSet(B)
           /\ Cardinality(E) \in Nat /\ Cardinality(B) \in Nat
           /\ Cardinality(E \ B) = Cardinality(E) - Cardinality(B)
<1>1. E \cap B = B
    OBVIOUS
<1>2. IsFiniteSet(E \ B) /\ Cardinality(E \ B) = Cardinality(E) - Cardinality(E \cap B)
    BY FS_Difference
<1>3. IsFiniteSet(B)
    BY FS_Subset
<1> QED
    BY <1>1, <1>2, <1>3, FS_CardinalityType

\* The median of a majority's ratios and any others lies within the majority's.
LEMMA MedianOfMajority ==
    ASSUME NEW E, IsFiniteSet(E), \A t \in E : fits[t].ratio \in Nat,
           NEW B \in SUBSET E, 2 * Cardinality(B) < Cardinality(E),
           NEW lo \in Nat, NEW hi \in Nat,
           \A t \in E \ B : lo <= fits[t].ratio /\ fits[t].ratio <= hi
    PROVE  /\ StressScore(E) \in Int
           /\ 4 * lo <= StressScore(E) /\ StressScore(E) <= 4 * hi
<1> DEFINE m == Cardinality(E)
           b == Cardinality(B)
           s == RatiosOf(E)
           S == Sorted(s)
           Q == StressScore(E)
           under == lo - 1
<1>1. m \in Nat /\ b \in Nat /\ IsFiniteSet(B) /\ 2 * b < m
    BY WithoutPart
<1>2. s \in Seq(Nat) /\ Len(s) = m
    <2>1. lo \in Int
        OBVIOUS
    <2> QED
        BY <2>1, RankOfRatios, Zenon
<1>3. Q = Quartile(S, 2)
    BY DEF StressScore, RatiosOf
<1>4. under \in Int
    OBVIOUS
<1> HIDE DEF under
<1>5. Rank(s, under) \in Nat /\ Rank(s, under) <= b
    <2> DEFINE L == {t \in E : fits[t].ratio <= under}
    <2>1. L \in SUBSET B
        BY DEF under
    <2>2. Rank(s, under) = Cardinality(L)
        BY <1>4, RankOfRatios
    <2> HIDE DEF L
    <2> QED
        BY <1>1, <2>1, <2>2, FS_Subset, FS_CardinalityType
<1>6. Rank(s, hi) \in Nat /\ Rank(s, hi) >= m - b
    <2> DEFINE H == {t \in E : fits[t].ratio <= hi}
               O == E \ B
    <2>1. O \in SUBSET H /\ H \in SUBSET E
        OBVIOUS
    <2>2. Rank(s, hi) = Cardinality(H)
        BY RankOfRatios
    <2>3. IsFiniteSet(O) /\ Cardinality(O) = m - b
        BY WithoutPart
    <2> HIDE DEF H, O
    <2>4. IsFiniteSet(H)
        BY <2>1, FS_Subset
    <2>5. Cardinality(H) \in Nat /\ Cardinality(O) \in Nat /\ Cardinality(O) <= Cardinality(H)
        BY <2>1, <2>3, <2>4, FS_Subset, FS_CardinalityType
    <2> QED
        BY <2>2, <2>3, <2>5
<1> HIDE DEF m, b, s, Q
<1>7. /\ S \in Seq(Nat) /\ Len(S) = m /\ m >= 1
      /\ \A k \in 1..m : S[k] \in Nat
      /\ \A j, k \in 1..m : j <= k => S[j] <= S[k]
    <2>1. S \in Seq(Nat) /\ Len(S) = Len(s)
        BY <1>2, SortedRanks
    <2>2. \A k \in 1..Len(s) : S[k] \in Nat
        BY <1>2, SortedRanks
    <2>3. \A j, k \in 1..Len(s) : j <= k => S[j] <= S[k]
        BY <1>2, SortedRises
    <2> HIDE DEF S
    <2> QED
        BY <1>1, <1>2, <2>1, <2>2, <2>3
<1>8. \A k \in 1..m, x \in Int : S[k] <= x <=> k <= Rank(s, x)
    BY <1>2, SortedRanks
<1>9. \A k \in 1..m : (S[k] <= under <=> k <= Rank(s, under)) /\ (S[k] <= hi <=> k <= Rank(s, hi))
    BY <1>4, <1>8
<1> HIDE DEF S
<1>10. PICK i \in 1..m, r \in 0..3 : Between(S, 2, m, i, r)
    <2>1. Len(S) >= 1 /\ 2 \in 1..3
        BY <1>7
    <2>2. \E i \in 1..Len(S), r \in 0..3 : Between(S, 2, Len(S), i, r)
        BY <1>7, <2>1, QuartilePlace
    <2> QED
        BY <1>7, <2>2
<1>11. 2 * (m - 1) = 4 * (i - 1) + r
    BY <1>10 DEF Between
<1> DEFINE u == S[i]
<1>12. u \in Nat /\ u >= lo
    <2>1. u \in Nat
        BY <1>7, <1>10
    <2>2. u <= under <=> i <= Rank(s, under)
        BY <1>9, <1>10
    <2>3. ~(i <= Rank(s, under))
        BY <1>1, <1>5, <1>10, <1>11
    <2> HIDE DEF u
    <2> QED
        BY <2>1, <2>2, <2>3 DEF under
<1>13. CASE r = 0
    <2>1. u <= hi <=> i <= Rank(s, hi)
        BY <1>9, <1>10
    <2>2. i <= Rank(s, hi)
        BY <1>1, <1>6, <1>10, <1>11, <1>13
    <2>3. Q = 4 * u
        BY <1>3, <1>10, <1>13 DEF Between
    <2> HIDE DEF u
    <2>4. Q \in Int /\ 4 * lo <= Q /\ Q <= 4 * hi
        BY <1>12, <2>1, <2>2, <2>3
    <2> QED
        BY <2>4 DEF Q
<1>14. CASE r # 0
    <2> DEFINE v == S[i + 1]
    <2>1. i + 1 \in 1..m /\ Q = 4 * u + r * (v - u)
        BY <1>3, <1>10, <1>14 DEF Between
    <2>2. v \in Nat /\ u <= v
        <3>1. i <= i + 1 /\ i \in 1..m
            BY <1>10
        <3> QED
            BY <1>7, <2>1, <3>1
    <2>3. v <= hi <=> i + 1 <= Rank(s, hi)
        BY <1>9, <2>1
    <2>4. i + 1 <= Rank(s, hi)
        BY <1>1, <1>6, <1>10, <1>11, <1>14
    <2> HIDE DEF u, v
    <2>5. Q \in Int /\ 4 * u <= Q /\ Q <= 4 * v
        BY <1>10, <1>12, <1>14, <2>1, <2>2, Interpolated
    <2>6. Q \in Int /\ 4 * lo <= Q /\ Q <= 4 * hi
        BY <1>12, <2>2, <2>3, <2>4, <2>5
    <2> QED
        BY <2>6 DEF Q
<1> QED
    BY <1>13, <1>14

--------------------------------------------------------------------------------
\* What the classifier compares with.
Limits == [low : Int, center : Int, high : Int]

\* A higher score is never classified as a calmer regime, as far as the tables
\* tell regimes apart.
LEMMA RegimesRise ==
    ASSUME NEW b \in Limits, Ordered(b), NEW score \in Int, NEW then \in Int, then >= score
    PROVE  /\ RegimeOf(score, b) \in Range(Regimes) /\ RegimeOf(then, b) \in Range(Regimes)
           /\ RegimeOf(score, b) = "HIGH_STRESS" => RegimeOf(then, b) = "HIGH_STRESS"
           /\ RegimeOf(score, b) = "ELEVATED" => RegimeOf(then, b) \in {"ELEVATED", "HIGH_STRESS"}
<1>1. b.low \in Int /\ b.center \in Int /\ b.high \in Int
    BY DEF Limits
<1>2. Range(Regimes) = {"LOW_VOL", "NORMAL", "ELEVATED", "HIGH_STRESS"}
    BY DEF Range, Regimes
<1> DEFINE l == b.low
           c == b.center
           h == b.high
<1>3. l <= c /\ c <= h
    BY DEF Ordered
<1>4. RegimeOf(score, b) = IF 4 * score >= h THEN "HIGH_STRESS"
                           ELSE IF 4 * score > c THEN "ELEVATED"
                           ELSE IF 4 * score < l THEN "LOW_VOL" ELSE "NORMAL"
    BY DEF RegimeOf
<1>5. RegimeOf(then, b) = IF 4 * then >= h THEN "HIGH_STRESS"
                          ELSE IF 4 * then > c THEN "ELEVATED"
                          ELSE IF 4 * then < l THEN "LOW_VOL" ELSE "NORMAL"
    BY DEF RegimeOf
<1> HIDE DEF l, c, h
<1> DEFINE r == RegimeOf(score, b)
           q == RegimeOf(then, b)
<1>6. l \in Int /\ c \in Int /\ h \in Int
    BY <1>1 DEF l, c, h
<1> HIDE DEF r, q
<1>7. r \in Range(Regimes) /\ q \in Range(Regimes)
    BY <1>2, <1>4, <1>5, <1>6 DEF r, q
<1>8. r = "HIGH_STRESS" => q = "HIGH_STRESS"
    BY <1>3, <1>4, <1>5, <1>6 DEF r, q
<1>9. r = "ELEVATED" => q \in {"ELEVATED", "HIGH_STRESS"}
    BY <1>3, <1>4, <1>5, <1>6 DEF r, q
<1> QED
    BY <1>7, <1>8, <1>9 DEF r, q

\* The tables and the exposure look at a regime in three cases.
LEMMA FactorOf ==
    ASSUME NEW r
    PROVE  /\ r = "ELEVATED" => RegimeFactor(r) = 75
           /\ r = "HIGH_STRESS" => RegimeFactor(r) = 45
           /\ r \notin {"ELEVATED", "HIGH_STRESS"} => RegimeFactor(r) = 100
BY DEF RegimeFactor

--------------------------------------------------------------------------------
\* ExposureController and RegimeClassifier: at a higher score and a risk that is
\* not lower, the target exposure is not larger.
THEOREM ExposureFalls ==
    ASSUME NEW b \in Limits, Ordered(b), NEW score \in Int, NEW then \in Int, then >= score,
           NEW risk \in Nat, NEW more \in Nat, more >= risk
    PROVE  Exposure(RegimeOf(then, b), more) <= Exposure(RegimeOf(score, b), risk)
<1> DEFINE f == RegimeFactor(RegimeOf(score, b))
           g == RegimeFactor(RegimeOf(then, b))
           x == Max({0, 10000 - 75 * risk})
           y == Max({0, 10000 - 75 * more})
<1>1. f \in Nat /\ g \in Nat /\ g <= f
    <2> DEFINE r == RegimeOf(score, b)
               q == RegimeOf(then, b)
    <2>1. /\ r = "HIGH_STRESS" => q = "HIGH_STRESS"
          /\ r = "ELEVATED" => q \in {"ELEVATED", "HIGH_STRESS"}
        BY RegimesRise
    <2> HIDE DEF r, q
    <2>2. RegimeFactor(r) \in Nat /\ RegimeFactor(q) \in Nat /\ RegimeFactor(q) <= RegimeFactor(r)
        BY <2>1, FactorOf
    <2> QED
        BY <2>2 DEF r, q
<1>2. x \in Nat /\ y \in Nat /\ y <= x
    <2> DEFINE u == 10000 - 75 * risk
               v == 10000 - 75 * more
    <2>1. u \in Int /\ v \in Int /\ v <= u
        OBVIOUS
    <2> HIDE DEF u, v
    <2>2. Max({0, u}) \in {0, u} /\ Max({0, u}) >= 0 /\ Max({0, u}) >= u
        BY <2>1, MaxOfTwo
    <2>3. Max({0, v}) \in {0, v} /\ Max({0, v}) >= 0
        BY <2>1, MaxOfTwo
    <2>4. Max({0, u}) \in Nat /\ Max({0, v}) \in Nat /\ Max({0, v}) <= Max({0, u})
        BY <2>1, <2>2, <2>3
    <2> QED
        BY <2>4 DEF u, v
<1>3. f * x \in Nat /\ g * y \in Nat /\ g * y <= f * x
    <2> HIDE DEF f, g, x, y
    <2>1. g * y <= f * y /\ f * y <= f * x
        BY <1>1, <1>2
    <2> QED
        BY <1>1, <1>2, <2>1
<1> DEFINE lo == 200000
           hi == 1000000
<1>4. lo \in Nat /\ hi \in Nat
    OBVIOUS
<1> HIDE DEF f, g, x, y, lo, hi
<1>5. /\ Max({lo, g * y}) \in Int /\ Max({lo, f * x}) \in Int
      /\ Max({lo, g * y}) <= Max({lo, f * x})
    <2> DEFINE u == f * x
               v == g * y
    <2>1. u \in Int /\ v \in Int /\ v <= u
        BY <1>3
    <2> HIDE DEF u, v
    <2>2. Max({lo, u}) \in {lo, u} /\ Max({lo, u}) >= lo /\ Max({lo, u}) >= u
        BY <1>4, <2>1, MaxOfTwo
    <2>3. Max({lo, v}) \in {lo, v}
        BY <1>4, <2>1, MaxOfTwo
    <2>4. /\ Max({lo, v}) \in Int /\ Max({lo, u}) \in Int
          /\ Max({lo, v}) <= Max({lo, u})
        BY <1>4, <2>1, <2>2, <2>3
    <2> QED
        BY <2>4 DEF u, v
<1> DEFINE p == Max({lo, f * x})
           q == Max({lo, g * y})
<1>6. p \in Int /\ q \in Int /\ q <= p
    BY <1>5
<1>7. Min({hi, q}) <= Min({hi, p})
    <2> HIDE DEF p, q
    <2>1. Min({hi, p}) \in {hi, p}
        BY <1>4, <1>6, MinOfTwo
    <2>2. Min({hi, q}) \in {hi, q} /\ Min({hi, q}) <= hi /\ Min({hi, q}) <= q
        BY <1>4, <1>6, MinOfTwo
    <2> QED
        BY <1>4, <1>6, <2>1, <2>2
<1> QED
    BY <1>7 DEF Exposure, p, q, lo, hi, f, g, x, y

--------------------------------------------------------------------------------
\* What is left of a signal, before risk and reliability: the regulator's factor
\* times the multiplier of the regime.
Kept(r, ratio) == Attenuation(r, ratio) * RegimeMultiplier(r)

\* The regulator's factor with its floor, by how far the ratio is above 1.0.
Floored(floor, excess) == Max({floor, (100 * Unit) \div (Unit + excess)})
Excess(ratio) == Max({0, ratio - Unit})

LEMMA ExcessIsNat ==
    ASSUME Unit \in Nat \ {0}, NEW ratio \in Int
    PROVE  Excess(ratio) \in Nat
<1> DEFINE over == ratio - Unit
<1>1. over \in Int
    OBVIOUS
<1> HIDE DEF over
<1>2. Max({0, over}) \in {0, over} /\ Max({0, over}) >= 0
    BY <1>1, MaxOfTwo
<1>3. Max({0, over}) \in Nat
    BY <1>1, <1>2
<1> QED
    BY <1>3 DEF Excess, over

LEMMA FlooredIsAFraction ==
    ASSUME Unit \in Nat \ {0}, NEW excess \in Nat, NEW floor \in 0..100
    PROVE  Floored(floor, excess) \in floor..100
<1> DEFINE d == Unit + excess
           n == 100 * Unit
           quotient == n \div d
           rest == n % d
<1>1. floor \in Int /\ floor <= 100 /\ d \in Nat \ {0} /\ d >= Unit
      /\ n \in Nat /\ n = 100 * Unit
    OBVIOUS
<1> HIDE DEF d, n
<1>2. quotient \in Int /\ rest \in Nat /\ n = d * quotient + rest
    BY <1>1
<1> HIDE DEF quotient, rest
<1>3. quotient >= 101 => d * quotient >= d * 101
    BY <1>1, <1>2
<1>4. quotient <= 100
    BY <1>1, <1>2, <1>3
<1>5. Max({floor, quotient}) \in {floor, quotient} /\ Max({floor, quotient}) >= floor
    BY <1>1, <1>2, MaxOfTwo
<1>6. Max({floor, quotient}) \in floor..100
    BY <1>1, <1>2, <1>4, <1>5
<1> QED
    BY <1>6 DEF Floored, quotient, d, n

\* More than half of a signal is kept when ELEVATED, and less in HIGH_STRESS,
\* whatever the ratio is.
LEMMA KeptByRegime ==
    ASSUME Unit \in Nat \ {0}, NEW ratio \in Int, NEW r \in Range(Regimes)
    PROVE  /\ Kept(r, ratio) \in Nat
           /\ r = "HIGH_STRESS" => Kept(r, ratio) <= 5500
           /\ r = "ELEVATED" => Kept(r, ratio) \in 5600..8000
           /\ r \notin {"ELEVATED", "HIGH_STRESS"} => Kept(r, ratio) = 10000
<1> DEFINE e == Excess(ratio)
<1>e. e \in Nat
    BY ExcessIsNat
<1>1. CASE r = "ELEVATED"
    <2>1. Floored(70, e) \in 70..100
        BY <1>e, FlooredIsAFraction
    <2>2. Attenuation(r, ratio) = Floored(70, e) /\ RegimeMultiplier(r) = 80
        BY <1>1 DEF Attenuation, RegimeMultiplier, Floored, Excess
    <2> QED
        BY <1>1, <2>1, <2>2 DEF Kept
<1>2. CASE r = "HIGH_STRESS"
    <2> DEFINE twice == 2 * e
    <2>1. twice \in Nat
        BY <1>e
    <2>2. Floored(20, twice) \in 20..100
        <3> HIDE DEF twice
        <3> QED
            BY <2>1, FlooredIsAFraction
    <2>3. Attenuation(r, ratio) = Floored(20, twice) /\ RegimeMultiplier(r) = 55
        BY <1>2 DEF Attenuation, RegimeMultiplier, Floored, Excess
    <2> HIDE DEF twice
    <2> QED
        BY <1>2, <2>2, <2>3 DEF Kept
<1>3. CASE r \notin {"ELEVATED", "HIGH_STRESS"}
    <2>1. Attenuation(r, ratio) = 100 /\ RegimeMultiplier(r) = 100
        BY <1>3 DEF Attenuation, RegimeMultiplier
    <2> QED
        BY <1>3, <2>1 DEF Kept
<1> QED
    BY <1>1, <1>2, <1>3

--------------------------------------------------------------------------------
LEMMA ProductsCompare ==
    ASSUME NEW a \in Nat, NEW b \in Nat, a <= b, NEW c \in Nat
    PROVE  a * c \in Nat /\ b * c \in Nat /\ a * c <= b * c
OBVIOUS

\* A signal times a smaller factor is smaller, and of the same sign or 0.
LEMMA ScaledSignals ==
    ASSUME NEW wanted \in Int, NEW a \in Nat, NEW b \in Nat, a <= b
    PROVE  /\ wanted * a \in Int /\ wanted * b \in Int
           /\ Abs(wanted * a) <= Abs(wanted * b)
           /\ wanted * a > 0 => wanted > 0
           /\ wanted * a < 0 => wanted < 0
<1>1. CASE wanted >= 0
    <2>1. wanted * a \in Nat /\ wanted * b \in Nat /\ wanted * a <= wanted * b
        BY <1>1
    <2>2. wanted * a > 0 => wanted > 0
        BY <1>1
    <2> QED
        BY <1>1, <2>1, <2>2 DEF Abs
<1>2. CASE wanted < 0
    <2> DEFINE s == -wanted
    <2>1. s \in Nat /\ wanted * a = -(s * a) /\ wanted * b = -(s * b)
        BY <1>2
    <2> HIDE DEF s
    <2>2. s * a \in Nat /\ s * b \in Nat /\ s * a <= s * b
        BY <2>1
    <2> QED
        BY <1>2, <2>1, <2>2 DEF Abs
<1> QED
    BY <1>1, <1>2

\* The multipliers of risk and reliability.
Multiplier(risk, reliability) ==
    RiskMultiplier[RiskLevel(risk)] * ReliabilityMultiplier[ReliabilityLevel(reliability)]

LEMMA MultiplierIsNat ==
    ASSUME NEW risk, NEW reliability
    PROVE  Multiplier(risk, reliability) \in Nat
<1>1. RiskMultiplier[RiskLevel(risk)] \in Nat
    BY DEF RiskMultiplier, RiskLevel
<1>2. ReliabilityMultiplier[ReliabilityLevel(reliability)] \in Nat
    BY DEF ReliabilityMultiplier, ReliabilityLevel
<1> QED
    BY <1>1, <1>2 DEF Multiplier

LEMMA OutputIsScaled ==
    ASSUME Unit \in Nat \ {0}, NEW ratio \in Int, NEW r \in Range(Regimes),
           NEW wanted \in Int, NEW risk, NEW reliability
    PROVE  /\ Kept(r, ratio) * Multiplier(risk, reliability) \in Nat
           /\ ControlOutput(wanted, r, ratio, risk, reliability)
                  = wanted * (Kept(r, ratio) * Multiplier(risk, reliability))
<1> DEFINE a == Attenuation(r, ratio)
           m == RegimeMultiplier(r)
           x == RiskMultiplier[RiskLevel(risk)]
           y == ReliabilityMultiplier[ReliabilityLevel(reliability)]
<1>1. m \in Nat
    BY DEF RegimeMultiplier
<1>2. a \in Nat
    <2>1. /\ Floored(70, Excess(ratio)) \in Nat
          /\ Floored(20, 2 * Excess(ratio)) \in Nat
        <3> DEFINE e == Excess(ratio)
                   twice == 2 * e
        <3>1. e \in Nat /\ twice \in Nat
            BY ExcessIsNat
        <3> HIDE DEF e, twice
        <3>2. Floored(70, e) \in 70..100 /\ Floored(20, twice) \in 20..100
            BY <3>1, FlooredIsAFraction
        <3>3. Floored(70, e) \in Nat /\ Floored(20, twice) \in Nat
            BY <3>2
        <3> QED
            BY <3>3 DEF e, twice
    <2>2. a \in {100, Floored(70, Excess(ratio)), Floored(20, 2 * Excess(ratio))}
        BY DEF Attenuation, Floored, Excess
    <2> QED
        BY <2>1, <2>2
<1>3. x \in Nat
    BY DEF RiskMultiplier, RiskLevel
<1>4. y \in Nat
    BY DEF ReliabilityMultiplier, ReliabilityLevel
<1> HIDE DEF a, m, x, y
<1>5. wanted * a * m * x * y = wanted * ((a * m) * (x * y)) /\ (a * m) * (x * y) \in Nat
    BY <1>1, <1>2, <1>3, <1>4
<1> QED
    BY <1>5 DEF ControlOutput, Kept, Multiplier, a, m, x, y

\* A decision is HOLD exactly below the action threshold, in every regime.
LEMMA HoldIsSmall ==
    ASSUME NEW output \in Int, NEW r
    PROVE  DecisionState(output, r) = "HOLD" <=> Abs(output) < 10000000
<1> DEFINE magnitude == Abs(output)
<1>1. magnitude \in Nat
    BY DEF Abs
<1>2. DecisionState(output, r) =
        CASE magnitude < 10000000 -> "HOLD"
          [] magnitude >= 10000000 /\ r = "HIGH_STRESS" -> "REVIEW"
          [] magnitude >= 35000000 /\ r # "HIGH_STRESS" -> "ADAPT"
          [] OTHER -> "REVIEW"
    BY DEF DecisionState, Abs
<1> HIDE DEF magnitude
<1>3. DecisionState(output, r) = "HOLD" <=> magnitude < 10000000
    BY <1>1, <1>2
<1> QED
    BY <1>3 DEF magnitude

\* SignalRegulator and StateCoupledControl: at a higher score the output of no
\* signal is larger, none changes its direction, and what is on HOLD stays so.
THEOREM ControlFalls ==
    ASSUME Unit \in Nat \ {0}, NEW b \in Limits, Ordered(b),
           NEW score \in Int, NEW then \in Int, then >= score,
           NEW wanted \in Int, NEW ratio \in Int, NEW risk, NEW reliability
    PROVE  LET now == ControlOutput(wanted, RegimeOf(score, b), ratio, risk, reliability)
               worse == ControlOutput(wanted, RegimeOf(then, b), ratio, risk, reliability)
           IN  /\ Abs(worse) <= Abs(now)
               /\ (worse > 0 => wanted > 0) /\ (worse < 0 => wanted < 0)
               /\ DecisionState(now, RegimeOf(score, b)) = "HOLD" =>
                      DecisionState(worse, RegimeOf(then, b)) = "HOLD"
<1> DEFINE r == RegimeOf(score, b)
           q == RegimeOf(then, b)
<1>1. /\ r \in Range(Regimes) /\ q \in Range(Regimes)
      /\ r = "HIGH_STRESS" => q = "HIGH_STRESS"
      /\ r = "ELEVATED" => q \in {"ELEVATED", "HIGH_STRESS"}
    BY RegimesRise
<1> HIDE DEF r, q
<1> DEFINE k == Kept(r, ratio)
           l == Kept(q, ratio)
           c == Multiplier(risk, reliability)
           now == ControlOutput(wanted, r, ratio, risk, reliability)
           worse == ControlOutput(wanted, q, ratio, risk, reliability)
<1>2. k * c \in Nat /\ now = wanted * (k * c)
    BY <1>1, OutputIsScaled
<1>3. l * c \in Nat /\ worse = wanted * (l * c)
    BY <1>1, OutputIsScaled
<1>4. /\ k \in Nat
      /\ r = "HIGH_STRESS" => k <= 5500
      /\ r = "ELEVATED" => k \in 5600..8000
      /\ r \notin {"ELEVATED", "HIGH_STRESS"} => k = 10000
    BY <1>1, KeptByRegime
<1>5. /\ l \in Nat
      /\ q = "HIGH_STRESS" => l <= 5500
      /\ q = "ELEVATED" => l \in 5600..8000
      /\ q \notin {"ELEVATED", "HIGH_STRESS"} => l = 10000
    BY <1>1, KeptByRegime
<1>6. r = q => l = k
    OBVIOUS
<1>7. c \in Nat
    BY MultiplierIsNat
<1> HIDE DEF k, l, c, now, worse
<1>8. l <= k
    BY <1>1, <1>4, <1>5, <1>6
<1>9. l * c <= k * c
    BY <1>4, <1>5, <1>7, <1>8, ProductsCompare
<1> DEFINE high == k * c
           small == l * c
<1>10. high \in Nat /\ small \in Nat /\ small <= high
       /\ now = wanted * high /\ worse = wanted * small
    BY <1>2, <1>3, <1>9
<1> HIDE DEF high, small
<1>11. /\ now \in Int /\ worse \in Int
       /\ Abs(worse) <= Abs(now)
       /\ worse > 0 => wanted > 0
       /\ worse < 0 => wanted < 0
    BY <1>10, ScaledSignals
<1>12. /\ DecisionState(now, r) = "HOLD" <=> Abs(now) < 10000000
       /\ DecisionState(worse, q) = "HOLD" <=> Abs(worse) < 10000000
    BY <1>11, HoldIsSmall
<1> DEFINE x == Abs(now)
           y == Abs(worse)
<1>13. x \in Int /\ y \in Int
    BY <1>11 DEF Abs
<1>14. DecisionState(now, r) = "HOLD" => DecisionState(worse, q) = "HOLD"
    <2>1. y <= x /\ (DecisionState(now, r) = "HOLD" <=> x < 10000000)
          /\ (DecisionState(worse, q) = "HOLD" <=> y < 10000000)
        BY <1>11, <1>12
    <2> HIDE DEF x, y
    <2> QED
        BY <1>13, <2>1
<1> QED
    BY <1>11, <1>14 DEF now, worse, r, q


--------------------------------------------------------------------------------
\* Both strategies make boundaries that ThresholdResult accepts.
LEMMA BoundariesOrdered ==
    ASSUME NEW w \in Seq(Nat), Len(w) >= 1, NEW s \in Nat
    PROVE  Boundaries(s, w) \in Limits /\ Ordered(Boundaries(s, w))
<1> DEFINE S == Sorted(w)
           p == Quartile(S, 1)
           q == Quartile(S, 2)
           r == Quartile(S, 3)
           t == 4 * s
           b == Boundaries(s, w)
<1>1. p \in Int /\ q \in Int /\ r \in Int
    <2>1. S \in Seq(Nat) /\ Len(S) >= 1
        <3>1. S \in Seq(Nat) /\ Len(S) = Len(w)
            BY SortedRanks
        <3> HIDE DEF S
        <3> QED
            BY <3>1
    <2>2. 1 \in 1..3 /\ 2 \in 1..3 /\ 3 \in 1..3
        OBVIOUS
    <2> HIDE DEF S
    <2> QED
        BY <2>1, <2>2, QuartilePlace
<1>2. p <= q /\ q <= r
    <2>1. 1 \in 1..3 /\ 2 \in 1..3 /\ 3 \in 1..3 /\ 1 <= 2 /\ 2 <= 3
        OBVIOUS
    <2> QED
        BY <2>1, QuartilesRise
<1>3. CASE s = Rolling
    <2>1. b = [low |-> p, center |-> q, high |-> r]
        BY <1>3 DEF Boundaries, RollingBoundaries
    <2> HIDE DEF p, q, r, b
    <2> QED
        BY <1>1, <1>2, <2>1 DEF Limits, Ordered, b
<1>4. CASE s # Rolling
    <2> DEFINE low == Min({p, t})
               capped == Min({q, t})
               center == Max({low, capped})
    <2>1. b = [low |-> low, center |-> center, high |-> t]
        BY <1>4 DEF Boundaries, FixedBoundaries
    <2>2. t \in Int
        OBVIOUS
    <2> HIDE DEF p, q, r, t
    <2>3. low \in {p, t} /\ low <= t
        BY <1>1, <2>2, MinOfTwo
    <2>4. capped \in {q, t} /\ capped <= t
        BY <1>1, <2>2, MinOfTwo
    <2>5. low \in Int /\ capped \in Int
        BY <1>1, <2>2, <2>3, <2>4
    <2> HIDE DEF low, capped
    <2>6. center \in {low, capped} /\ center >= low
        BY <2>5, MaxOfTwo
    <2>7. center \in Int /\ low <= center /\ center <= t
        BY <2>2, <2>3, <2>4, <2>5, <2>6
    <2> HIDE DEF center, b
    <2> QED
        BY <2>1, <2>2, <2>5, <2>7 DEF Limits, Ordered, b
<1> QED
    BY <1>3, <1>4

\* What the classifier says of an observation, by the observations that are
\* above and below it.
LEMMA RegimeByRank ==
    ASSUME NEW w \in Seq(Nat), NEW o \in DOMAIN w
    PROVE  LET r == RegimeOf(w[o], RollingBoundaries(w))
               others == Len(w) - 1
               worse == Cardinality({i \in DOMAIN w : w[i] > w[o]})
               better == Cardinality({i \in DOMAIN w : w[i] < w[o]})
           IN  /\ r = "HIGH_STRESS" <=> 4 * worse <= others
               /\ r = "ELEVATED" <=> (4 * worse > others /\ 2 * better > others)
               /\ r = "LOW_VOL" <=> 4 * worse > 3 * others
<1> DEFINE x == w[o]
           n == Len(w)
           r == RegimeOf(x, RollingBoundaries(w))
           worse == Cardinality(Above(w, x))
           better == Cardinality(Below(w, x))
           c == Rank(w, x)
           b == Rank(w, x - 1)
           S == Sorted(w)
           p == Quartile(S, 1)
           q == Quartile(S, 2)
           t == Quartile(S, 3)
<1>1. x \in Nat /\ n \in Nat /\ n >= 1 /\ x - 1 \in Int /\ x - 1 <= x
    OBVIOUS
<1>2. worse = n - c /\ better = b
    <2>1. \A y \in Int : /\ Cardinality(Above(w, y)) = Len(w) - Rank(w, y)
                        /\ Cardinality(Below(w, y)) = Rank(w, y - 1)
        BY RanksOfOthers
    <2>2. x \in Int
        BY <1>1
    <2> HIDE DEF x
    <2> QED
        BY <2>1, <2>2
<1>3. c \in 0..n /\ b \in 0..n
    BY <1>1, RankRises
<1>i. 1 \in 1..3 /\ 2 \in 1..3 /\ 3 \in 1..3 /\ 1 <= 2 /\ 2 <= 3
    OBVIOUS
<1>4. /\ 4 * x >= p <=> 4 * (c - 1) >= 1 * (n - 1)
      /\ 4 * x > q <=> 4 * b > 2 * (n - 1)
      /\ 4 * x >= t <=> 4 * (c - 1) >= 3 * (n - 1)
    BY <1>i, QuartileOfObserved
<1>5. p \in Int /\ q \in Int /\ t \in Int
    <2>1. S \in Seq(Nat) /\ Len(S) = n
        BY SortedRanks
    <2> HIDE DEF S, n
    <2> QED
        BY <1>1, <1>i, <2>1, QuartilePlace
<1>6. p <= q /\ q <= t
    BY <1>1, <1>i, QuartilesRise
<1>7. r = IF 4 * x >= t THEN "HIGH_STRESS"
          ELSE IF 4 * x > q THEN "ELEVATED"
          ELSE IF 4 * x < p THEN "LOW_VOL" ELSE "NORMAL"
    BY DEF RegimeOf, RollingBoundaries
<1> HIDE DEF x, n, r, worse, better, c, b, p, q, t
<1>8. r = "HIGH_STRESS" <=> 4 * x >= t
    BY <1>7
<1>9. r = "ELEVATED" <=> ~(4 * x >= t) /\ 4 * x > q
    BY <1>7
<1>10. r = "LOW_VOL" <=> ~(4 * x >= t) /\ ~(4 * x > q) /\ 4 * x < p
    BY <1>7
<1>11. r = "HIGH_STRESS" <=> 4 * worse <= n - 1
    BY <1>1, <1>2, <1>3, <1>4, <1>8
<1>12. r = "ELEVATED" <=> (4 * worse > n - 1 /\ 2 * better > n - 1)
    BY <1>1, <1>2, <1>3, <1>4, <1>9
<1>13. r = "LOW_VOL" <=> 4 * x < p
    BY <1>1, <1>5, <1>6, <1>10
<1>14. r = "LOW_VOL" <=> 4 * worse > 3 * (n - 1)
    BY <1>1, <1>2, <1>3, <1>4, <1>5, <1>13
<1> QED
    BY <1>11, <1>12, <1>14 DEF x, n, r, worse, better, Above, Below

--------------------------------------------------------------------------------
\* _historical_window: what is taken is not longer than it may be, and today's
\* score is among it.
LEMMA WindowHoldsToday ==
    ASSUME NEW h \in Seq(Nat), NEW x \in Nat, NEW n \in Nat \ {0}, NEW s
    PROVE  LET w == IF s = Rolling THEN Trailing(Append(h, x), n) ELSE Append(h, x)
           IN  /\ w \in Seq(Nat) /\ Len(w) >= 1 /\ (Len(w) <= n \/ Len(w) = Len(h) + 1)
               /\ \E o \in DOMAIN w : w[o] = x
<1> DEFINE a == Append(h, x)
           m == Len(h) + 1
<1>1. a \in Seq(Nat) /\ m \in Nat /\ m >= 1 /\ Len(a) = m /\ DOMAIN a = 1..m /\ a[m] = x
    OBVIOUS
<1> HIDE DEF a, m
<1> DEFINE u == m - n + 1
           f == Max({1, u})
           w == Trailing(a, n)
<1>2. u \in Int /\ u <= m
    BY <1>1
<1>3. w = SubSeq(a, f, m)
    BY <1>1 DEF Trailing
<1> HIDE DEF u
<1>4. f \in {1, u} /\ f >= 1 /\ f >= u
    <2>1. 1 \in Int
        OBVIOUS
    <2> QED
        BY <1>2, <2>1, MaxOfTwo
<1> HIDE DEF f
<1>5. f \in 1..m /\ m - f + 1 <= n
    BY <1>1, <1>2, <1>4 DEF u
<1> DEFINE l == m - f + 1
<1>6. /\ w \in Seq(Nat) /\ Len(w) = l /\ l \in 1..n
      /\ \A i \in 1..l : w[i] = a[f + i - 1]
    <2>1. \A i \in f..m : a[i] \in Nat
        BY <1>1, <1>5
    <2>2. f \in Int /\ m \in Int /\ f <= m
        BY <1>1, <1>5
    <2>3. /\ SubSeq(a, f, m) \in Seq(Nat)
          /\ Len(SubSeq(a, f, m)) = IF f <= m THEN m - f + 1 ELSE 0
          /\ \A i \in 1..m - f + 1 : SubSeq(a, f, m)[i] = a[f + i - 1]
        BY <2>1, <2>2, SubSeqProperties
    <2>4. l \in 1..n
        BY <1>1, <1>5
    <2> HIDE DEF w
    <2> QED
        BY <1>3, <2>2, <2>3, <2>4
<1> HIDE DEF w
<1>7. w[l] = x /\ l \in DOMAIN w
    <2>1. l \in 1..l /\ f + l - 1 = m
        BY <1>1, <1>5, <1>6
    <2>2. DOMAIN w = 1..l
        BY <1>6
    <2> HIDE DEF l
    <2> QED
        BY <1>1, <1>6, <2>1, <2>2
<1>8. Len(w) >= 1 /\ Len(w) <= n
    BY <1>6
<1>9. m \in DOMAIN a
    BY <1>1
<1> DEFINE v == IF s = Rolling THEN w ELSE a
<1>10. CASE s = Rolling
    <2>1. v = w
        BY <1>10
    <2> QED
        BY <1>6, <1>7, <1>8, <2>1 DEF w, a
<1>11. CASE s # Rolling
    <2>1. v = a
        BY <1>11
    <2> QED
        BY <1>1, <1>9, <1>11 DEF a, m
<1> QED
    BY <1>10, <1>11

--------------------------------------------------------------------------------
Outcomes == {Success(r) : r \in Ratios} \cup {Fallback, Failed}
Eligible == WithStatus("SUCCESS")
Decided == {"classify", "classified", "short", "invalid"}

\* The snapshot counts the outcomes, and covers enough of them.
Summarised ==
    LET B == WithStatus("FALLBACK") IN
    /\ snapshot = [total |-> Cardinality(Tickers), eligible |-> Cardinality(Eligible),
                   fitted |-> Cardinality(Eligible), fallback |-> Cardinality(B),
                   failed |-> Cardinality(Tickers) - Cardinality(Eligible) - Cardinality(B),
                   score |-> StressScore(Eligible)]
    /\ Cardinality(Eligible) >= MinAssets

\* How long a window can be.
Lengths == {WindowLength} \cup {Len(h) + 1 : h \in Histories}

\* The boundaries are taken from observations, of which today's score is one.
Classified ==
    /\ window \in Seq(Nat) /\ Len(window) >= 1
    /\ \E o \in DOMAIN window : window[o] = snapshot.score
    /\ regime = RegimeOf(snapshot.score, Boundaries(strategy, window))

\* The inductive invariant.
StressInv ==
    /\ market \in [Tickers -> Series]
    /\ fits \in [Tickers -> Outcomes]
    /\ \A t \in Tickers : fits[t].status = "SUCCESS" => Usable(t)
    /\ pc \in {"fit", "aggregate", "uncovered"} \cup (Decided \ {"invalid"})
    /\ pc \notin Decided => snapshot = NoSnapshot
    /\ pc \in Decided => Summarised
    /\ strategy \in {Rolling} \cup FeedbackThresholds
    /\ window = <<>> \/ Len(window) \in Lengths \/ Len(window) \in 1..WindowLength
    /\ regime \in Range(Regimes) \cup {NoRegime}
    /\ pc = "classified" => Classified

LEMMA OutcomeShapes ==
    ASSUME NEW f \in Outcomes
    PROVE  /\ f.status \in {"SUCCESS", "FALLBACK", "FAILED"}
           /\ f.status = "SUCCESS" => f.ratio \in Ratios
           /\ f.status = "FALLBACK" => f.ratio = Unit
BY DEF Outcomes, Success, Fallback, Failed

\* The eligible tickers and their ratios.
LEMMA EligibleRatios ==
    ASSUME StressInv
    PROVE  /\ IsFiniteSet(Eligible) /\ Eligible \in SUBSET Tickers
           /\ \A t \in Eligible : fits[t].ratio \in Ratios /\ fits[t].ratio \in Nat /\ fits[t].ratio >= 1
<1>1. Eligible \in SUBSET Tickers
    BY DEF Eligible, WithStatus
<1>2. IsFiniteSet(Eligible)
    BY <1>1, TickersAssumption, FS_Subset
<1>3. ASSUME NEW t \in Eligible PROVE fits[t].ratio \in Ratios
    <2>1. fits[t] \in Outcomes /\ fits[t].status = "SUCCESS"
        BY <1>3 DEF StressInv, Eligible, WithStatus
    <2> QED
        BY <2>1, OutcomeShapes
<1>4. \A x \in Ratios : x \in Nat /\ x >= 1
    BY RatiosAssumption
<1> QED
    BY <1>1, <1>2, <1>3, <1>4

\* What the median of the eligible ratios can be.
LEMMA ScoreIsNat ==
    ASSUME StressInv, Cardinality(Eligible) >= MinAssets
    PROVE  StressScore(Eligible) \in Scores /\ StressScore(Eligible) \in Nat
<1> DEFINE E == Eligible
           R == Ratios \cup {Unit}
           hi == Max(R)
           one == 1
<1>1. /\ IsFiniteSet(E)
      /\ \A t \in E : fits[t].ratio \in Ratios /\ fits[t].ratio \in Nat /\ fits[t].ratio >= 1
    BY EligibleRatios
<1>2. R \in SUBSET Nat /\ R # {} /\ IsFiniteSet(R)
    BY RatiosAssumption, FS_AddElement
<1> HIDE DEF R
<1>3. hi \in R /\ \A x \in R : x <= hi
    BY <1>2, MaxOfNats
<1>4. hi \in Nat
    BY <1>2, <1>3
<1> HIDE DEF hi, E
<1>5. {} \in SUBSET E /\ one \in Nat
    OBVIOUS
<1>6. 2 * Cardinality({}) < Cardinality(E)
    <2>1. Cardinality({}) = 0 /\ Cardinality(E) \in Nat
        BY <1>1, FS_EmptySet, FS_CardinalityType
    <2>2. Cardinality(E) >= 1
        BY <2>1, RatiosAssumption DEF E
    <2> QED
        BY <2>1, <2>2
<1>7. \A t \in E \ {} : one <= fits[t].ratio /\ fits[t].ratio <= hi
    BY <1>1, <1>3 DEF R
<1>8. \A t \in E : fits[t].ratio \in Nat
    BY <1>1
<1> HIDE DEF one
<1> DEFINE none == {}
<1> HIDE DEF none
<1>9. /\ none \in SUBSET E /\ 2 * Cardinality(none) < Cardinality(E)
      /\ \A t \in E \ none : one <= fits[t].ratio /\ fits[t].ratio <= hi
    BY <1>5, <1>6, <1>7 DEF none
<1>10. /\ StressScore(E) \in Int /\ 4 * one <= StressScore(E) /\ StressScore(E) <= 4 * hi
    BY <1>1, <1>4, <1>5, <1>8, <1>9, MedianOfMajority
<1> DEFINE v == StressScore(E)
<1>11. v \in Int /\ 4 <= v /\ v <= 4 * hi
    BY <1>10 DEF one
<1> HIDE DEF v
<1>12. v \in 4..4 * hi /\ v \in Nat
    BY <1>4, <1>11
<1> QED
    BY <1>12 DEF Scores, v, E, hi, R

--------------------------------------------------------------------------------
LEMMA StressInit == Init => StressInv
<1> SUFFICES ASSUME Init PROVE StressInv
    OBVIOUS
<1>1. fits \in [Tickers -> Outcomes] /\ \A t \in Tickers : fits[t].status = "FAILED"
    BY DEF Init, Outcomes, Failed
<1> QED
    BY <1>1 DEF Init, StressInv, Decided

\* fit() of every ticker: a success comes from usable bars only.
LEMMA FitStep ==
    ASSUME StressInv, FitAll
    PROVE  StressInv'
<1>1. /\ fits' \in [Tickers -> UNION {Fits(t) : t \in Tickers}]
      /\ \A t \in Tickers : fits'[t] \in Fits(t)
    BY DEF FitAll
<1>2. ASSUME NEW t \in Tickers
      PROVE  fits'[t] \in Outcomes /\ (fits'[t].status = "SUCCESS" => Usable(t))
    <2>1. fits'[t] \in Fits(t)
        BY <1>1
    <2>2. CASE Usable(t)
        BY <2>1, <2>2 DEF Fits, Fit, Outcomes
    <2>3. CASE ~Usable(t)
        BY <2>1, <2>3 DEF Fits, Failed, Outcomes
    <2> QED
        BY <2>2, <2>3
<1>3. fits' \in [Tickers -> Outcomes]
    BY <1>1, <1>2
<1>4. \A t \in Tickers : Usable(t)' <=> Usable(t)
    BY DEF FitAll, Usable
<1>5. /\ pc = "fit" /\ pc' = "aggregate"
      /\ UNCHANGED <<market, snapshot, strategy, window, regime>>
    BY DEF FitAll
<1> QED
    BY <1>2, <1>3, <1>4, <1>5 DEF StressInv, Decided

\* What holds of the outcomes stays while they do.
LEMMA OutcomesStay ==
    ASSUME StressInv, UNCHANGED <<market, fits>>
    PROVE  /\ (market \in [Tickers -> Series])' /\ (fits \in [Tickers -> Outcomes])'
           /\ (\A t \in Tickers : fits[t].status = "SUCCESS" => Usable(t))'
           /\ Eligible' = Eligible /\ WithStatus("FALLBACK")' = WithStatus("FALLBACK")
           /\ \A E : StressScore(E)' = StressScore(E)
BY DEF StressInv, Usable, Eligible, WithStatus, StressScore

\* What an evaluation has summarised stays while its outcomes and snapshot do.
LEMMA SummaryStays ==
    ASSUME StressInv, UNCHANGED <<market, fits, snapshot>>, Summarised
    PROVE  Summarised'
BY OutcomesStay DEF Summarised

LEMMA AggregateStep ==
    ASSUME StressInv, Aggregate
    PROVE  StressInv'
<1>1. /\ pc = "aggregate" /\ pc' = "classify"
      /\ UNCHANGED <<market, fits, strategy, window, regime>>
    BY DEF Aggregate
<1>2. Summarised'
    <2>1. Covered(Eligible)
        BY DEF Aggregate, Eligible
    <2>2. LET B == WithStatus("FALLBACK") IN
          snapshot' = [total |-> Cardinality(Tickers), eligible |-> Cardinality(Eligible),
                       fitted |-> Cardinality(Eligible), fallback |-> Cardinality(B),
                       failed |-> Cardinality(Tickers) - Cardinality(Eligible) - Cardinality(B),
                       score |-> StressScore(Eligible)]
        BY DEF Aggregate, Eligible
    <2> QED
        BY <1>1, <2>1, <2>2, OutcomesStay DEF Summarised, Covered
<1> QED
    BY <1>1, <1>2, OutcomesStay DEF StressInv, Decided

--------------------------------------------------------------------------------
\* The validators accept what the aggregator and the classifier make.
LEMMA NothingRefused ==
    ASSUME Summarised, NEW b \in Limits, StressInv
    PROVE  Accepted(RegimeOf(snapshot.score, b), snapshot.score, b)
<1> DEFINE n == Cardinality(Tickers)
           e == Cardinality(Eligible)
           f == Cardinality(WithStatus("FALLBACK"))
<1>1. e \in Nat /\ n \in Nat /\ f \in Nat /\ e <= n
    <2>1. WithStatus("FALLBACK") \in SUBSET Tickers
        BY DEF WithStatus
    <2>2. IsFiniteSet(WithStatus("FALLBACK"))
        BY <2>1, TickersAssumption, FS_Subset
    <2> QED
        BY <2>2, EligibleRatios, TickersAssumption, FS_Subset, FS_CardinalityType
<1>2. /\ snapshot.total = n /\ snapshot.eligible = e /\ snapshot.fitted = e
      /\ snapshot.fallback = f /\ snapshot.failed = n - e - f
    BY DEF Summarised
<1> HIDE DEF n, e, f
<1>3. snapshot.fitted + snapshot.fallback + snapshot.failed = snapshot.total
    BY <1>1, <1>2
<1>4. RegimeOf(snapshot.score, b) = "HIGH_STRESS" <=> 4 * snapshot.score >= b.high
    BY DEF RegimeOf
<1> QED
    BY <1>1, <1>2, <1>3, <1>4 DEF Accepted

LEMMA ClassifyStep ==
    ASSUME StressInv, Classify
    PROVE  StressInv'
<1> DEFINE x == snapshot.score
<1>1. pc = "classify" /\ UNCHANGED <<market, fits, snapshot>>
    BY DEF Classify
<1>2. Summarised /\ x \in Nat
    <2>1. Summarised
        BY <1>1 DEF StressInv, Decided
    <2> QED
        BY <2>1, ScoreIsNat DEF Summarised
<1>3. PICK h \in Histories, s \in {Rolling} \cup FeedbackThresholds :
        LET available == Append(h, snapshot.score)
            b == Boundaries(s, Window(s, available))
            r == RegimeOf(snapshot.score, b)
            valid == Ordered(b) /\ Accepted(r, snapshot.score, b)
        IN  /\ strategy' = s
            /\ window' = IF LongEnough(s, available) THEN Window(s, available) ELSE window
            /\ regime' = IF LongEnough(s, available) /\ valid THEN r ELSE regime
            /\ pc' = CASE ~LongEnough(s, available) -> "short"
                       [] LongEnough(s, available) /\ valid -> "classified"
                       [] OTHER -> "invalid"
    BY DEF Classify
<1>h. h \in Histories /\ s \in {Rolling} \cup FeedbackThresholds
    BY <1>3
<1> DEFINE a == Append(h, snapshot.score)
           w == Window(s, a)
           b == Boundaries(s, w)
           r == RegimeOf(snapshot.score, b)
<1>4. h \in Seq(Nat) /\ s \in Nat /\ WindowLength \in Nat \ {0}
    BY <1>h, HistoryAssumption DEF Rolling
<1>5. /\ w \in Seq(Nat) /\ Len(w) >= 1 /\ (Len(w) <= WindowLength \/ Len(w) = Len(h) + 1)
      /\ \E o \in DOMAIN w : w[o] = snapshot.score
    <2> DEFINE v == IF s = Rolling THEN Trailing(Append(h, x), WindowLength) ELSE Append(h, x)
    <2>1. v = w
        BY DEF Window
    <2> HIDE DEF x
    <2>2. /\ v \in Seq(Nat) /\ Len(v) >= 1 /\ (Len(v) <= WindowLength \/ Len(v) = Len(h) + 1)
          /\ \E o \in DOMAIN v : v[o] = x
        BY <1>2, <1>4, WindowHoldsToday
    <2> HIDE DEF v, w
    <2> QED
        BY <2>1, <2>2 DEF x
<1> HIDE DEF w
<1>6. b \in Limits /\ Ordered(b)
    BY <1>4, <1>5, BoundariesOrdered
<1> HIDE DEF b
<1>7. Accepted(r, snapshot.score, b)
    BY <1>2, <1>6, NothingRefused
<1>8. r \in Range(Regimes)
    BY DEF RegimeOf, Range, Regimes
<1>9. Len(w) \in Lengths \/ Len(w) \in 1..WindowLength
    <2>1. CASE Len(w) = Len(h) + 1
        BY <1>h, <2>1 DEF Lengths
    <2>2. CASE Len(w) <= WindowLength
        <3>1. Len(w) \in Nat
            BY <1>5
        <3> QED
            BY <1>4, <1>5, <2>2, <3>1
    <2> QED
        BY <1>5, <2>1, <2>2
<1> HIDE DEF r
<1>10. CASE LongEnough(s, a)
    <2>1. strategy' = s /\ window' = w /\ regime' = r /\ pc' = "classified"
        BY <1>3, <1>6, <1>7, <1>10 DEF w, b, r
    <2>2. Classified'
        BY <1>1, <1>5, <2>1 DEF Classified, r, b
    <2>3. Summarised'
        BY <1>1, <1>2, SummaryStays
    <2>4. pc' # "invalid" /\ pc' \in Decided
        BY <2>1 DEF Decided
    <2> QED
        BY <1>1, <1>h, <1>8, <1>9, <2>1, <2>2, <2>3, <2>4, OutcomesStay DEF StressInv
<1>11. CASE ~LongEnough(s, a)
    <2>1. strategy' = s /\ window' = window /\ regime' = regime /\ pc' = "short"
        BY <1>3, <1>11
    <2>2. Summarised'
        BY <1>1, <1>2, SummaryStays
    <2>3. pc' # "invalid" /\ pc' \in Decided /\ pc' # "classified"
        BY <2>1 DEF Decided
    <2> QED
        BY <1>1, <1>h, <2>1, <2>2, <2>3, OutcomesStay DEF StressInv
<1> QED
    BY <1>10, <1>11

LEMMA StressNext == StressInv /\ [Next]_vars => StressInv'
<1> SUFFICES ASSUME StressInv, [Next]_vars PROVE StressInv'
    OBVIOUS
<1>1. CASE FitAll
    BY <1>1, FitStep
<1>2. CASE Aggregate
    BY <1>2, AggregateStep
<1>3. CASE RefuseCoverage
    <2>1. /\ pc = "aggregate" /\ pc' = "uncovered"
          /\ UNCHANGED <<market, fits, snapshot, strategy, window, regime>>
        BY <1>3 DEF RefuseCoverage
    <2> QED
        BY <2>1, OutcomesStay DEF StressInv, Decided
<1>4. CASE Classify
    BY <1>4, ClassifyStep
<1>5. CASE UNCHANGED vars
    <2>1. UNCHANGED <<market, fits, snapshot, strategy, window, regime, pc>>
        BY <1>5 DEF vars
    <2>2. pc \in Decided => Summarised'
        BY <2>1, SummaryStays DEF StressInv
    <2>3. pc = "classified" => Classified'
        BY <2>1 DEF StressInv, Classified
    <2> QED
        BY <2>1, <2>2, <2>3, OutcomesStay DEF StressInv
<1> QED
    BY <1>1, <1>2, <1>3, <1>4, <1>5 DEF Next

LEMMA StressAlways == Spec => []StressInv
BY StressInit, StressNext, PTL DEF Spec

--------------------------------------------------------------------------------
LEMMA MarketTypes == StressInv => TypeOK
<1> SUFFICES ASSUME StressInv PROVE TypeOK
    OBVIOUS
<1> DEFINE n == Cardinality(Tickers)
           e == Cardinality(Eligible)
           B == WithStatus("FALLBACK")
           f == Cardinality(B)
<1>1. n \in Nat /\ e \in Nat /\ f \in Nat /\ e + f <= n
    <2> DEFINE O == Tickers \ Eligible
    <2>1. B \in SUBSET O /\ Eligible \in SUBSET Tickers
        BY DEF WithStatus, Eligible
    <2>2. IsFiniteSet(O) /\ n \in Nat /\ e \in Nat /\ Cardinality(O) = n - e
        BY <2>1, TickersAssumption, WithoutPart
    <2> HIDE DEF O, B
    <2>3. IsFiniteSet(B) /\ f <= Cardinality(O)
        BY <2>1, <2>2, FS_Subset
    <2>4. f \in Nat
        BY <2>3, FS_CardinalityType
    <2> HIDE DEF n, e, f
    <2> QED
        BY <2>2, <2>3, <2>4
<1>2. /\ \A c \in {"total", "eligible", "fitted", "fallback", "failed"} : snapshot[c] \in 0..n
      /\ snapshot.score \in Scores \cup {0}
    <2>1. CASE pc \notin Decided
        <3>1. snapshot = NoSnapshot
            BY <2>1 DEF StressInv
        <3> HIDE DEF n
        <3> QED
            BY <1>1, <3>1 DEF NoSnapshot
    <2>2. CASE pc \in Decided
        <3>1. Summarised
            BY <2>2 DEF StressInv
        <3>2. /\ snapshot = [total |-> n, eligible |-> e, fitted |-> e, fallback |-> f,
                             failed |-> n - e - f, score |-> StressScore(Eligible)]
              /\ e >= MinAssets
            BY <3>1 DEF Summarised
        <3>3. StressScore(Eligible) \in Scores
            BY <3>2, ScoreIsNat
        <3> HIDE DEF n, e, f
        <3>4. n \in 0..n /\ e \in 0..n /\ f \in 0..n /\ n - e - f \in 0..n
            BY <1>1
        <3> QED
            BY <3>2, <3>3, <3>4
    <2> QED
        BY <2>1, <2>2
<1>3. Len(window) <= Max({WindowLength} \cup {Len(h) + 1 : h \in Histories})
    <2> DEFINE top == Max(Lengths)
    <2>1. Lengths \in SUBSET Nat /\ Lengths # {}
        BY HistoryAssumption DEF Lengths
    <2>2. IsFiniteSet(Lengths)
        <3> DEFINE L == {Len(h) + 1 : h \in Histories}
                   g == [h \in Histories |-> Len(h) + 1]
        <3>1. g \in Surjection(Histories, L)
            BY DEF Surjection
        <3>2. IsFiniteSet(L)
            BY <3>1, HistoryAssumption, FS_Surjection
        <3>3. Lengths = L \cup {WindowLength}
            BY DEF Lengths
        <3> HIDE DEF L
        <3> QED
            BY <3>2, <3>3, FS_AddElement
    <2>3. top \in Lengths /\ \A m \in Lengths : m <= top
        BY <2>1, <2>2, MaxOfNats
    <2> HIDE DEF top
    <2>4. WindowLength \in Lengths
        BY DEF Lengths
    <2>5. WindowLength \in Nat /\ WindowLength <= top /\ top \in Nat
        BY <2>1, <2>3, <2>4
    <2>6. CASE window = <<>>
        <3>1. Len(window) = 0
            BY <2>6
        <3>2. Len(window) <= top
            BY <2>5, <3>1
        <3> QED
            BY <3>2 DEF top, Lengths
    <2>7. CASE Len(window) \in Lengths
        <3>1. Len(window) <= top
            BY <2>3, <2>7
        <3> QED
            BY <3>1 DEF top, Lengths
    <2>8. CASE Len(window) \in 1..WindowLength
        <3>1. Len(window) <= top
            BY <2>5, <2>8
        <3> QED
            BY <3>1 DEF top, Lengths
    <2> QED
        BY <2>6, <2>7, <2>8 DEF StressInv
<1>4. fits \in [Tickers -> {Success(r) : r \in Ratios} \cup {Fallback, Failed}]
    BY DEF StressInv, Outcomes
<1>5. pc \in {"fit", "aggregate", "classify", "classified", "uncovered", "short", "invalid"}
    BY DEF StressInv, Decided
<1>6. /\ market \in [Tickers -> Series]
      /\ strategy \in {Rolling} \cup FeedbackThresholds
      /\ regime \in Range(Regimes) \cup {NoRegime}
    BY DEF StressInv
<1> HIDE DEF e, f, B
<1> QED
    BY <1>2, <1>3, <1>4, <1>5, <1>6 DEF TypeOK

LEMMA MajorityDecides == StressInv => MinorityCannotMoveStress
<1> SUFFICES ASSUME StressInv, pc \in Decided
             PROVE  LET E == {t \in Tickers : Usable(t) /\ fits[t].status = "SUCCESS"} IN
                    /\ snapshot.fitted = Cardinality(E)
                    /\ \A B \in SUBSET E : 2 * Cardinality(B) < Cardinality(E) =>
                          /\ 4 * Min({fits[t].ratio : t \in E \ B}) <= snapshot.score
                          /\ snapshot.score <= 4 * Max({fits[t].ratio : t \in E \ B})
    BY DEF MinorityCannotMoveStress, Decided
<1> DEFINE E == {t \in Tickers : Usable(t) /\ fits[t].status = "SUCCESS"}
<1>1. E = Eligible
    BY DEF StressInv, Eligible, WithStatus
<1> HIDE DEF E
<1>2. Summarised
    BY DEF StressInv
<1>3. snapshot.fitted = Cardinality(E) /\ snapshot.score = StressScore(E)
    BY <1>1, <1>2 DEF Summarised
<1>4. IsFiniteSet(E) /\ \A t \in E : fits[t].ratio \in Nat
    BY <1>1, EligibleRatios
<1>5. ASSUME NEW B \in SUBSET E, 2 * Cardinality(B) < Cardinality(E)
      PROVE  /\ 4 * Min({fits[t].ratio : t \in E \ B}) <= snapshot.score
             /\ snapshot.score <= 4 * Max({fits[t].ratio : t \in E \ B})
    <2> DEFINE O == E \ B
               V == {fits[t].ratio : t \in O}
               g == [t \in O |-> fits[t].ratio]
               lo == Min(V)
               hi == Max(V)
    <2>1. IsFiniteSet(O) /\ O # {}
        <3>1. /\ IsFiniteSet(O) /\ Cardinality(B) \in Nat /\ Cardinality(E) \in Nat
              /\ Cardinality(O) = Cardinality(E) - Cardinality(B)
            BY <1>4, WithoutPart
        <3>2. Cardinality(O) # 0
            BY <1>5, <3>1
        <3> QED
            BY <3>1, <3>2, FS_EmptySet
    <2>2. V \in SUBSET Nat /\ V # {}
        BY <1>4, <2>1
    <2>3. IsFiniteSet(V)
        <3>1. g \in Surjection(O, V)
            BY DEF Surjection
        <3> HIDE DEF O, V, g
        <3> QED
            BY <2>1, <3>1, FS_Surjection
    <2>4. \A t \in O : fits[t].ratio \in V
        OBVIOUS
    <2> HIDE DEF V
    <2>5. lo \in V /\ \A x \in V : lo <= x
        BY <2>2, MinOfNats
    <2>6. hi \in V /\ \A x \in V : x <= hi
        BY <2>2, <2>3, MaxOfNats
    <2> HIDE DEF lo, hi
    <2>7. lo \in Nat /\ hi \in Nat /\ \A t \in E \ B : lo <= fits[t].ratio /\ fits[t].ratio <= hi
        BY <2>2, <2>4, <2>5, <2>6
    <2>8. 4 * lo <= StressScore(E) /\ StressScore(E) <= 4 * hi
        BY <1>4, <1>5, <2>7, MedianOfMajority
    <2> QED
        BY <1>3, <2>8 DEF lo, hi, V, O
<1> QED
    BY <1>3, <1>5 DEF E

LEMMA RanksDecide == StressInv => RegimeMatchesRank
<1> SUFFICES ASSUME StressInv PROVE RegimeMatchesRank
    OBVIOUS
<1>1. pc # "invalid"
    BY DEF StressInv, Decided
<1>2. ASSUME pc = "classified", strategy = Rolling
      PROVE  LET others == Len(window) - 1
                 worse == Cardinality({i \in DOMAIN window : window[i] > snapshot.score})
                 better == Cardinality({i \in DOMAIN window : window[i] < snapshot.score})
             IN  /\ regime = "HIGH_STRESS" <=> 4 * worse <= others
                 /\ regime = "ELEVATED" <=> (4 * worse > others /\ 2 * better > others)
                 /\ regime = "LOW_VOL" <=> 4 * worse > 3 * others
    <2>1. Classified
        BY <1>2 DEF StressInv
    <2>2. PICK o \in DOMAIN window : window[o] = snapshot.score
        BY <2>1 DEF Classified
    <2>3. window \in Seq(Nat) /\ regime = RegimeOf(snapshot.score, RollingBoundaries(window))
        BY <1>2, <2>1 DEF Classified, Boundaries
    <2>4. LET r == RegimeOf(window[o], RollingBoundaries(window))
              others == Len(window) - 1
              worse == Cardinality({i \in DOMAIN window : window[i] > window[o]})
              better == Cardinality({i \in DOMAIN window : window[i] < window[o]})
          IN  /\ r = "HIGH_STRESS" <=> 4 * worse <= others
              /\ r = "ELEVATED" <=> (4 * worse > others /\ 2 * better > others)
              /\ r = "LOW_VOL" <=> 4 * worse > 3 * others
        BY <2>2, <2>3, RegimeByRank, Zenon
    <2> QED
        BY <2>2, <2>3, <2>4
<1> QED
    BY <1>1, <1>2 DEF RegimeMatchesRank

LEMMA StressOnlyLowers == StressInv => StressNeverRaisesExposure
<1> SUFFICES ASSUME StressInv, pc = "classified",
                    NEW then \in {RegimeOf(s, Boundaries(strategy, window)) :
                                      s \in {x \in Scores : x > snapshot.score}},
                    NEW risk \in Risks
             PROVE  /\ \A more \in {k \in Risks : k >= risk} : Exposure(then, more) <= Exposure(regime, risk)
                    /\ \A wanted \in Signals, ratio \in {fits[t].ratio : t \in {u \in Tickers : fits[u].status # "FAILED"}}, w \in {20, 50, 90} :
                        LET now == ControlOutput(wanted, regime, ratio, risk, w)
                            worse == ControlOutput(wanted, then, ratio, risk, w)
                        IN  /\ Abs(worse) <= Abs(now)
                            /\ (worse > 0 => wanted > 0) /\ (worse < 0 => wanted < 0)
                            /\ DecisionState(now, regime) = "HOLD" => DecisionState(worse, then) = "HOLD"
    BY DEF StressNeverRaisesExposure
<1> DEFINE b == Boundaries(strategy, window)
           x == snapshot.score
<1>1. Classified /\ Summarised
    BY DEF StressInv, Decided
<1>2. b \in Limits /\ Ordered(b)
    <2>1. strategy \in Nat
        BY HistoryAssumption DEF StressInv, Rolling
    <2> QED
        BY <1>1, <2>1, BoundariesOrdered DEF Classified
<1>3. x \in Nat
    BY <1>1, ScoreIsNat DEF Summarised
<1>4. regime = RegimeOf(x, b)
    BY <1>1 DEF Classified
<1>5. PICK s \in Scores : s > x /\ then = RegimeOf(s, b)
    OBVIOUS
<1>6. s \in Int /\ x \in Int /\ s >= x
    BY <1>3, <1>5 DEF Scores
<1> HIDE DEF b, x
<1>7. \A k \in Risks : k \in Nat
    BY ControlAssumption
<1>8. ASSUME NEW more \in {k \in Risks : k >= risk}
      PROVE  Exposure(then, more) <= Exposure(regime, risk)
    <2>1. risk \in Nat /\ more \in Nat /\ more >= risk
        BY <1>7
    <2>2. Exposure(RegimeOf(s, b), more) <= Exposure(RegimeOf(x, b), risk)
        BY <1>2, <1>6, <2>1, ExposureFalls
    <2> QED
        BY <1>4, <1>5, <2>2
<1>9. ASSUME NEW wanted \in Signals,
             NEW ratio \in {fits[t].ratio : t \in {u \in Tickers : fits[u].status # "FAILED"}},
             NEW w \in {20, 50, 90}
      PROVE  LET now == ControlOutput(wanted, regime, ratio, risk, w)
                 worse == ControlOutput(wanted, then, ratio, risk, w)
             IN  /\ Abs(worse) <= Abs(now)
                 /\ (worse > 0 => wanted > 0) /\ (worse < 0 => wanted < 0)
                 /\ DecisionState(now, regime) = "HOLD" => DecisionState(worse, then) = "HOLD"
    <2>1. wanted \in Int
        BY ControlAssumption
    <2>2. ratio \in Int
        <3>1. PICK t \in Tickers : fits[t].status # "FAILED" /\ ratio = fits[t].ratio
            OBVIOUS
        <3>2. fits[t] \in Outcomes
            BY DEF StressInv
        <3>3. ratio \in Ratios \/ ratio = Unit
            BY <3>1, <3>2, OutcomeShapes
        <3>4. Unit \in Int /\ \A q \in Ratios : q \in Int
            BY RatiosAssumption
        <3> QED
            BY <3>3, <3>4
    <2>3. Unit \in Nat \ {0}
        BY RatiosAssumption
    <2>4. LET now == ControlOutput(wanted, RegimeOf(x, b), ratio, risk, w)
              worse == ControlOutput(wanted, RegimeOf(s, b), ratio, risk, w)
          IN  /\ Abs(worse) <= Abs(now)
              /\ (worse > 0 => wanted > 0) /\ (worse < 0 => wanted < 0)
              /\ DecisionState(now, RegimeOf(x, b)) = "HOLD" =>
                     DecisionState(worse, RegimeOf(s, b)) = "HOLD"
        BY <1>2, <1>6, <2>1, <2>2, <2>3, ControlFalls
    <2> QED
        BY <1>4, <1>5, <2>4
<1> QED
    BY <1>8, <1>9

--------------------------------------------------------------------------------
\* A state of an evaluation has the counts, the score, the window and the
\* regime that its types allow, whatever the bars, fits and histories are.
THEOREM StressTypes == JobSpec => []TypeOK
BY MarketTypes, StressAlways, JobsAreSteps, PTL

\* VolatilityAggregator: a minority of the eligible ratios cannot take the
\* stress score out of the range of the others.
THEOREM MedianIsRobust == JobSpec => []MinorityCannotMoveStress
BY MajorityDecides, StressAlways, JobsAreSteps, PTL

\* RegimeService: the regime of the rolling strategy is a matter of ranks, and
\* no boundary or state is refused by its validator.
THEOREM RegimeIsRank == JobSpec => []RegimeMatchesRank
BY RanksDecide, StressAlways, JobsAreSteps, PTL

\* RegimeClassifier, StateCoupledControl and ExposureController: no higher score
\* would raise the exposure or the output of a signal.
THEOREM StressLowersExposure == JobSpec => []StressNeverRaisesExposure
BY StressOnlyLowers, StressAlways, JobsAreSteps, PTL

--------------------------------------------------------------------------------
\* The instances of Rebalancing compute as this module's does: they differ in
\* the grid of the weights and the threshold of the decision only.
LEMMA SameMagnitude ==
    \A n : Backtest!Magnitude(n) = Magnitude(n) /\ Paper!Magnitude(n) = Magnitude(n)
BY DEF Backtest!Magnitude, Paper!Magnitude, Magnitude

LEMMA SameValues ==
    \A h : /\ Backtest!MarketValue(h) = MarketValue(h) /\ Paper!MarketValue(h) = MarketValue(h)
          /\ Backtest!Base(h) = Base(h) /\ Paper!Base(h) = Base(h)
<1>1. \A h : Backtest!MarketValue(h) = MarketValue(h) /\ Paper!MarketValue(h) = MarketValue(h)
    BY DEF Backtest!MarketValue, Paper!MarketValue, MarketValue
<1> QED
    BY <1>1, SameTotals DEF Backtest!Base, Paper!Base, Base

LEMMA SameChanges ==
    \A W, w : /\ Backtest!TotalChange(W, w) = TotalChange(W, w)
             /\ Backtest!ChangeUnit(W) = ChangeUnit(W)
BY SameMagnitude, SameTotals
DEF Backtest!TotalChange, TotalChange, Backtest!ChangeUnit, ChangeUnit

LEMMA SameDeltas ==
    \A W, w, m, t : /\ Backtest!DeltaValue(W, w, m, t) = DeltaValue(W, w, m, t)
                   /\ Paper!DeltaValue(W, w, m, t) = DeltaValue(W, w, m, t)
BY DEF Backtest!DeltaValue, Paper!DeltaValue, DeltaValue

LEMMA SamePlans ==
    \A h, W, w, m, p : /\ Backtest!Plan(h, W, w, m, p) = Plan(h, W, w, m, p)
                      /\ Paper!Plan(h, W, w, m, p) = Plan(h, W, w, m, p)
<1>1. \A h, W, w, m, p, t : /\ Backtest!Order(h, W, w, m, p, t) = Order(h, W, w, m, p, t)
                           /\ Paper!Order(h, W, w, m, p, t) = Order(h, W, w, m, p, t)
    BY SameDeltas, SameMagnitude DEF Backtest!Order, Paper!Order, Order
<1> QED
    BY <1>1 DEF Backtest!Plan, Paper!Plan, Plan

LEMMA SameExecution ==
    \A h, o, p : /\ Backtest!Executed(h, o, p) = Executed(h, o, p)
                /\ Paper!Executed(h, o, p) = Executed(h, o, p)
BY SameExtremes DEF Backtest!Executed, Paper!Executed, Executed

--------------------------------------------------------------------------------
\* Holdings as the rows have them.
Rows(h) == IsFiniteSet(DOMAIN h) /\ \A t \in DOMAIN h : h[t].qty \in Nat /\ h[t].price \in Nat

LEMMA BaseIsNat ==
    ASSUME NEW h, Rows(h)
    PROVE  /\ Base(h) \in Nat
           /\ \A t \in DOMAIN h : /\ MarketValue(h)[t] = h[t].qty * h[t].price
                                 /\ MarketValue(h)[t] \in Nat /\ MarketValue(h)[t] <= Base(h)
<1> DEFINE v == MarketValue(h)
           S == DOMAIN h
<1>1. IsFiniteSet(S) /\ \A t \in S : v[t] = h[t].qty * h[t].price /\ h[t].qty \in Nat /\ h[t].price \in Nat
    BY DEF Rows, MarketValue
<1>2. \A t \in S : v[t] \in Nat
    BY <1>1
<1> HIDE DEF v, S
<1>3. Total(v, S) \in Nat /\ \A t \in S : v[t] <= Total(v, S)
    BY <1>1, <1>2, TotalNat, TotalAtLeast
<1> QED
    BY <1>1, <1>2, <1>3 DEF Base, v, S

LEMMA MagnitudeIsNat ==
    ASSUME NEW n \in Int
    PROVE  Magnitude(n) \in Nat
BY DEF Magnitude

\* Stored weights of the tickers S.
Stored(W, S) == W.unit \in Nat \ {0} /\ \A t \in S : W.of[t] \in Nat

\* What the allocator compares with its threshold.
LEMMA ChangeIsNat ==
    ASSUME NEW W, NEW w, Stored(W, DOMAIN w), IsFiniteSet(DOMAIN w), \A t \in DOMAIN w : w[t] \in Nat
    PROVE  TotalChange(W, w) \in Nat /\ ChangeUnit(W) \in Nat \ {0}
<1> DEFINE S == DOMAIN w
           u == W.unit
           v == W.of
           change == [t \in S |-> Magnitude(w[t] * u - Parts * v[t])]
<1>1. u \in Nat \ {0} /\ Parts \in Nat \ {0} /\ \A t \in S : v[t] \in Nat /\ w[t] \in Nat
    BY PartsAssumption DEF Stored
<1>2. TotalChange(W, w) = Total(change, S) /\ ChangeUnit(W) = Parts * u /\ IsFiniteSet(S)
    BY DEF TotalChange, ChangeUnit
<1> HIDE DEF u, v, S
<1>3. ASSUME NEW t \in S
      PROVE  change[t] \in Nat
    <2> DEFINE n == w[t] * u - Parts * v[t]
    <2>1. w[t] * u \in Int /\ Parts * v[t] \in Int
        BY <1>1
    <2>2. n \in Int
        BY <2>1
    <2> HIDE DEF n
    <2>3. Magnitude(n) \in Nat
        BY <2>2, MagnitudeIsNat
    <2> QED
        BY <2>3 DEF n
<1> HIDE DEF change
<1>4. Total(change, S) \in Nat
    BY <1>2, <1>3, TotalNat
<1>5. Parts * u \in Nat \ {0}
    BY <1>1
<1> QED
    BY <1>2, <1>4, <1>5

\* With a stored total of 0 every order has the value 0.
LEMMA NothingToTrade ==
    ASSUME NEW h, NEW W, Stored(W, DOMAIN h), NEW w, \A t \in DOMAIN h : w[t] \in Nat, NEW p
    PROVE  \A t \in DOMAIN h : Executed(h, Plan(h, W, w, 0, p), p)[t] = h[t]
<1>1. ASSUME NEW t \in DOMAIN h
      PROVE  DeltaValue(W, w, 0, t) = 0
    <2> DEFINE u == W.unit
               v == W.of[t]
               q == w[t]
    <2>1. u \in Nat \ {0} /\ v \in Nat /\ q \in Nat /\ Parts \in Nat \ {0}
        BY PartsAssumption DEF Stored
    <2>2. DeltaValue(W, w, 0, t) = (q * 0) \div Parts - (v * 0) \div u
        BY DEF DeltaValue
    <2> HIDE DEF u, v, q
    <2>3. q * 0 = 0 /\ v * 0 = 0
        BY <2>1
    <2>4. 0 \div Parts = 0 /\ 0 \div u = 0
        BY <2>1
    <2> QED
        BY <2>1, <2>2, <2>3, <2>4
<1>2. ASSUME NEW t \in DOMAIN h
      PROVE  Plan(h, W, w, 0, p)[t].side = "HOLD"
    <2>1. Magnitude(0) < Significant
        BY SignificantAssumption DEF Magnitude
    <2>2. Order(h, W, w, 0, p, t) = [side |-> "HOLD", qty |-> 0]
        BY <1>1, <2>1 DEF Order
    <2> QED
        BY <2>2 DEF Plan
<1> QED
    BY <1>2 DEF Executed

--------------------------------------------------------------------------------
\* PipelineBacktest: the costs of the records up to a date.
Costs(e) == [i \in DOMAIN e |-> e[i].cost]
Until(e, d) == {i \in DOMAIN e : e[i].date <= d}
Charged(e, d) == Total(Costs(e), Until(e, d))

Positions == Universe \cup {Cash}

\* Every position but CASH is empty, and CASH has paid the costs so far.
CostInv ==
    /\ invested \in [Positions -> Int]
    /\ \A t \in Universe : invested[t] = 0
    /\ values \in Seq(Int) /\ Len(values) <= LastDate
    /\ entries \in Seq(Backtest!Record)
    /\ invested[Cash] = Initial - Charged(entries, Len(values))
    /\ \A d \in DOMAIN values : values[d] = Initial - Charged(entries, d)

\* The records of a state, with dates up to the last value's.
LEMMA RecordShapes ==
    ASSUME RecordInv, CostInv
    PROVE  /\ Len(values) \in 0..LastDate /\ DOMAIN values = 1..Len(values)
           /\ DOMAIN entries = 1..Len(entries) /\ Len(entries) \in Nat
           /\ \A i \in DOMAIN entries : entries[i].date \in i..Len(values) /\ entries[i].cost \in Nat
<1>1. entries \in Seq(Backtest!Record) /\ values \in Seq(Int)
    BY DEF CostInv
<1>2. Len(values) \in Nat /\ DOMAIN values = 1..Len(values)
    BY <1>1
<1>3. DOMAIN entries = 1..Len(entries) /\ Len(entries) \in Nat
      /\ \A i \in DOMAIN entries : entries[i] \in Backtest!Record
    BY <1>1
<1>4. \A i \in DOMAIN entries : entries[i].cost \in Nat
    BY <1>3 DEF Backtest!Record
<1>5. Len(values) <= LastDate /\ LastDate \in Nat
    BY BacktestAssumption DEF CostInv
<1> QED
    BY <1>2, <1>3, <1>4, <1>5 DEF RecordInv, RecordsRise

\* A record of a new date adds its cost from that date on.
Recorded(e, a, m, n) ==
    /\ m \in Nat /\ n \in Nat
    /\ DOMAIN e = 1..m /\ DOMAIN a = 1..(m + 1)
    /\ \A i \in 1..m : a[i] = e[i] /\ e[i].date \in 1..n /\ e[i].cost \in Nat
    /\ a[m + 1].date = n + 1 /\ a[m + 1].cost \in Nat

LEMMA CostAdded ==
    ASSUME NEW e, NEW a, NEW m, NEW n, Recorded(e, a, m, n)
    PROVE  /\ \A d \in 1..n : Charged(a, d) = Charged(e, d)
           /\ Charged(e, n) \in Nat
           /\ Charged(a, n + 1) = Charged(e, n) + a[m + 1].cost
<1>1. /\ m \in Nat /\ n \in Nat
      /\ DOMAIN e = 1..m /\ DOMAIN a = 1..(m + 1)
      /\ \A i \in 1..m : a[i] = e[i] /\ e[i].date \in 1..n /\ e[i].cost \in Nat
      /\ a[m + 1].date = n + 1 /\ a[m + 1].cost \in Nat
    BY DEF Recorded
<1>2. \A i \in 1..m : i \in 1..(m + 1) /\ i # m + 1
    BY <1>1
<1>3. \A i \in 1..m : Costs(a)[i] = Costs(e)[i] /\ Costs(e)[i] \in Nat
    BY <1>1, <1>2 DEF Costs
<1>4. Costs(a)[m + 1] = a[m + 1].cost
    <2>1. m + 1 \in 1..(m + 1)
        BY <1>1
    <2> QED
        BY <1>1, <2>1 DEF Costs
<1>5. \A d \in 0..n : IsFiniteSet(Until(e, d)) /\ Until(e, d) \subseteq 1..m
    <2>1. \A k \in Nat : IsFiniteSet(1..k)
        BY FS_Interval
    <2>2. \A d : Until(e, d) \in SUBSET (1..m)
        BY <1>1 DEF Until
    <2> QED
        BY <1>1, <2>1, <2>2, FS_Subset
<1>6. ASSUME NEW d \in 1..n
      PROVE  Charged(a, d) = Charged(e, d)
    <2>1. Until(a, d) = Until(e, d)
        <3>1. ~(a[m + 1].date <= d)
            BY <1>1
        <3>2. \A i \in 1..(m + 1) : i \in 1..m \/ i = m + 1
            BY <1>1
        <3> QED
            BY <1>1, <1>2, <3>1, <3>2 DEF Until
    <2> DEFINE U == Until(e, d)
               f == Costs(a)
               g == Costs(e)
    <2>2. IsFiniteSet(U) /\ \A i \in U : f[i] = g[i]
        BY <1>3, <1>5
    <2> HIDE DEF U, f, g
    <2>3. Total(f, U) = Total(g, U)
        BY <2>2, TotalAgree
    <2> QED
        BY <2>1, <2>3 DEF Charged, U, f, g
<1> DEFINE U == Until(e, n)
           f == Costs(a)
           g == Costs(e)
           k == m + 1
<1>7. U = 1..m
    BY <1>1 DEF Until
<1>8. Until(a, n + 1) = U \cup {k} /\ k \notin U
    <2>1. \A i \in 1..(m + 1) : i \in 1..m \/ i = m + 1
        BY <1>1
    <2>2. \A i \in 1..m : a[i].date <= n + 1
        BY <1>1
    <2>3. a[m + 1].date <= n + 1
        BY <1>1
    <2>4. Until(a, n + 1) = 1..(m + 1)
        BY <1>1, <2>1, <2>2, <2>3 DEF Until
    <2>5. 1..(m + 1) = (1..m) \cup {m + 1} /\ m + 1 \notin 1..m
        BY <1>1
    <2> QED
        BY <1>1, <1>7, <2>4, <2>5
<1>9. IsFiniteSet(U) /\ \A i \in U : f[i] = g[i] /\ f[i] \in Nat /\ g[i] \in Nat
    <2>1. n \in 0..n
        BY <1>1
    <2> QED
        BY <1>1, <1>3, <1>5, <1>7, <2>1
<1>10. f[k] \in Nat /\ f[k] = a[m + 1].cost
    BY <1>1, <1>4
<1> HIDE DEF U, f, g, k
<1>11. \A x \in U \cup {k} : f[x] \in Int
    BY <1>9, <1>10
<1>12. Total(f, U \cup {k}) = f[k] + Total(f, U) /\ Total(f, U) = Total(g, U) /\ Total(g, U) \in Nat
    BY <1>8, <1>9, <1>11, TotalAdd, TotalAgree, TotalNat
<1>13. Charged(a, n + 1) = Charged(e, n) + a[m + 1].cost /\ Charged(e, n) \in Nat
    <2>1. Charged(a, n + 1) = Total(f, U \cup {k})
        BY <1>8 DEF Charged, f
    <2>2. Charged(e, n) = Total(g, U)
        BY DEF Charged, g, U
    <2>3. Total(f, U) \in Nat /\ f[k] \in Nat
        BY <1>10, <1>12
    <2> QED
        BY <1>10, <1>12, <2>1, <2>2, <2>3
<1> QED
    BY <1>6, <1>13

\* Without a record nothing is charged.
LEMMA NothingCharged ==
    ASSUME RecordInv, CostInv
    PROVE  Charged(entries, Len(values) + 1) = Charged(entries, Len(values))
<1>1. Until(entries, Len(values) + 1) = Until(entries, Len(values))
    BY RecordShapes DEF Until
<1> QED
    BY <1>1 DEF Charged

\* Holdings of CASH alone are worth their quantity, at any prices.
LEMMA CashIsWorth ==
    ASSUME NEW c \in [Positions -> Int], \A t \in Universe : c[t] = 0,
           NEW close \in [Universe -> Closes]
    PROVE  Backtest!Worth(c, close) = c[Cash]
<1> DEFINE f == [t \in Positions |-> c[t] * Backtest!PriceOf(close, t)]
<1>1. IsFiniteSet(Positions) /\ Cash \in Positions
    BY BacktestAssumption, FS_AddElement DEF Positions
<1>2. f[Cash] = c[Cash] /\ c[Cash] \in Int
    BY <1>1 DEF Backtest!PriceOf
<1>3. ASSUME NEW t \in Positions \ {Cash}
      PROVE  f[t] = 0
    <2>1. t \in Universe
        BY DEF Positions
    <2>2. c[t] = 0 /\ close[t] \in Closes /\ f[t] = c[t] * close[t]
        BY <2>1 DEF Backtest!PriceOf
    <2>3. close[t] \in Nat
        BY <2>2, BacktestAssumption
    <2> HIDE DEF f
    <2> QED
        BY <2>2, <2>3
<1>4. Backtest!Worth(c, close) = Total(f, Positions)
    BY SameTotals DEF Backtest!Worth, Backtest!Positions, Positions
<1> HIDE DEF f
<1>5. Total(f, Positions) = f[Cash]
    BY <1>1, <1>2, <1>3, TotalOne
<1> QED
    BY <1>2, <1>4, <1>5

\* What the optimizer answers are numbers of parts.
LEMMA BacktestWeights ==
    ASSUME NEW w \in Backtest!OptimalWeights(Positions)
    PROVE  DOMAIN w = Positions /\ \A t \in Positions : w[t] \in Nat
<1>1. CASE w \in Backtest!Feasible(Positions)
    <2>1. DOMAIN w = Positions /\ \A t \in Positions : w[t] \in BacktestGrid
        BY <1>1 DEF Backtest!Feasible
    <2>2. \A g \in BacktestGrid : g \in Nat
        BY BacktestAssumption, PartsAssumption
    <2> QED
        BY <2>1, <2>2
<1>2. CASE w = Backtest!EqualWeights(Positions)
    <2> DEFINE n == Cardinality(Positions)
    <2>1. n \in Nat /\ n # 0
        <3>1. IsFiniteSet(Positions) /\ Positions # {}
            BY BacktestAssumption, FS_AddElement DEF Positions
        <3> QED
            BY <3>1, FS_CardinalityType, FS_EmptySet
    <2>2. DOMAIN w = Positions /\ \A t \in Positions : w[t] = Parts \div n
        BY <1>2, SameCardinality DEF Backtest!EqualWeights
    <2> HIDE DEF n
    <2>3. Parts \div n \in Nat
        BY <2>1, PartsAssumption
    <2> QED
        BY <2>2, <2>3
<1> QED
    BY <1>1, <1>2 DEF Backtest!OptimalWeights

\* The rows that an evaluation reads.
LEMMA SyncedRows ==
    ASSUME CostInv, Backtest!Evaluable, NEW close \in [Universe -> Closes]
    PROVE  /\ Rows(Backtest!Synced(close)) /\ DOMAIN Backtest!Synced(close) = Positions
           /\ \A t \in Positions : Backtest!Synced(close)[t].qty = invested[t]
<1> DEFINE h == Backtest!Synced(close)
<1>1. h = [t \in Positions |-> [qty |-> invested[t], price |-> Backtest!PriceOf(close, t)]]
    BY DEF Backtest!Synced, Backtest!Positions, Positions
<1> HIDE DEF h
<1>2. ASSUME NEW t \in Positions
      PROVE  h[t].qty = invested[t] /\ h[t].qty \in Nat /\ h[t].price \in Nat
    <2>1. invested[t] \in Int /\ invested[t] >= 0
        BY DEF CostInv, Backtest!Evaluable, Backtest!Positions, Positions
    <2>2. Backtest!PriceOf(close, t) \in Nat
        <3>1. CASE t = Cash
            BY <3>1 DEF Backtest!PriceOf
        <3>2. CASE t # Cash
            <4>1. t \in Universe
                BY <3>2 DEF Positions
            <4>2. close[t] \in Closes
                BY <4>1
            <4> QED
                BY <3>2, <4>2, BacktestAssumption DEF Backtest!PriceOf
        <3> QED
            BY <3>1, <3>2
    <2> QED
        BY <1>1, <2>1, <2>2
<1>3. IsFiniteSet(Positions) /\ DOMAIN h = Positions
    BY <1>1, BacktestAssumption, FS_AddElement DEF Positions
<1> QED
    BY <1>2, <1>3 DEF Rows, h

\* The weights that are written with them.
LEMMA SyncedShares ==
    ASSUME NEW h, Rows(h)
    PROVE  Stored(Backtest!SyncedWeights(h), DOMAIN h)
<1>1. Backtest!SyncedWeights(h) = [of |-> MarketValue(h), unit |-> IF Base(h) > 0 THEN Base(h) ELSE 1]
    BY SameValues DEF Backtest!SyncedWeights
<1>2. Base(h) \in Nat /\ \A t \in DOMAIN h : MarketValue(h)[t] \in Nat
    BY BaseIsNat
<1> QED
    BY <1>1, <1>2 DEF Stored

LEMMA CostIsNat ==
    ASSUME NEW h, Rows(h), NEW w, DOMAIN w = DOMAIN h, \A t \in DOMAIN h : w[t] \in Nat
    PROVE  Backtest!CostOf(h, w) \in Nat
<1> DEFINE W == Backtest!SyncedWeights(h)
           b == Base(h)
           c == TotalChange(W, w)
           u == ChangeUnit(W)
<1>1. b \in Nat /\ CostRate \in Nat
    BY BaseIsNat, BacktestAssumption
<1>2. Backtest!CostOf(h, w) = (b * c * CostRate) \div (200 * u)
    BY SameValues, SameChanges DEF Backtest!CostOf
<1>3. c \in Nat /\ u \in Nat \ {0}
    <2>1. Stored(W, DOMAIN w) /\ IsFiniteSet(DOMAIN w)
        BY SyncedShares DEF Rows
    <2> HIDE DEF W
    <2> QED
        BY <2>1, ChangeIsNat
<1> HIDE DEF b, c, u, W
<1> DEFINE n == b * c * CostRate
           d == 200 * u
<1>4. n \in Nat /\ d \in Nat \ {0}
    <2>1. b * c \in Nat
        BY <1>1, <1>3
    <2> QED
        BY <1>1, <1>3, <2>1
<1> HIDE DEF n, d
<1>5. n \div d \in Nat
    BY <1>4
<1> QED
    BY <1>2, <1>5 DEF n, d

--------------------------------------------------------------------------------
\* A date's value is what CASH has left of the costs up to it.
LEMMA ValueAdded ==
    ASSUME RecordInv, CostInv, Len(values) < LastDate,
           NEW x \in Int, values' = Append(values, x),
           x = Initial - Charged(entries', Len(values) + 1),
           \A d \in 1..Len(values) : Charged(entries', d) = Charged(entries, d),
           entries' \in Seq(Backtest!Record),
           invested' \in [Positions -> Int], invested'[Cash] = x,
           \A t \in Universe : invested'[t] = 0
    PROVE  CostInv'
<1> DEFINE n == Len(values)
<1>1. values \in Seq(Int) /\ n \in Nat /\ n < LastDate /\ LastDate \in Nat /\ DOMAIN values = 1..n
    BY RecordShapes, BacktestAssumption DEF CostInv
<1>2. /\ values' \in Seq(Int) /\ Len(values') = n + 1 /\ DOMAIN values' = 1..(n + 1)
      /\ \A d \in 1..n : values'[d] = values[d]
      /\ values'[n + 1] = x
    BY <1>1
<1> HIDE DEF n
<1>3. n + 1 <= LastDate
    BY <1>1
<1>4. ASSUME NEW d \in 1..(n + 1)
      PROVE  values'[d] = Initial - Charged(entries', d)
    <2>1. CASE d \in 1..n
        <3>1. values[d] = Initial - Charged(entries, d)
            BY <1>1, <2>1 DEF CostInv
        <3>2. Charged(entries', d) = Charged(entries, d)
            BY <2>1 DEF n
        <3> QED
            BY <1>2, <2>1, <3>1, <3>2
    <2>2. CASE d = n + 1
        BY <1>2, <2>2 DEF n
    <2> QED
        BY <1>1, <2>1, <2>2
<1>5. invested'[Cash] = Initial - Charged(entries', n + 1)
    BY DEF n
<1> QED
    BY <1>2, <1>3, <1>4, <1>5 DEF CostInv, Charged, Costs, Until

\* The feedback that a record comes from is that of a date.
LEMMA FeedbackIsADate ==
    ASSUME RecordInv, CostInv, Len(values) < LastDate, NEW D \in SUBSET {Backtest!Date}
    PROVE  Backtest!LatestFeedback(D) \in 0..LastDate
<1> DEFINE T == {0} \cup {entries[i].date : i \in {j \in DOMAIN entries : entries[j].rebalanced}} \cup D
<1>1. Len(values) \in Nat /\ Len(values) < LastDate /\ LastDate \in Nat
    BY RecordShapes, BacktestAssumption
<1>2. \A i \in DOMAIN entries : entries[i].date \in 0..LastDate
    BY <1>1, RecordShapes
<1>3. \A d \in D : d \in 0..LastDate
    BY <1>1 DEF Backtest!Date
<1>4. T \in SUBSET (0..LastDate) /\ T # {}
    BY <1>1, <1>2, <1>3
<1>5. IsFiniteSet(0..LastDate)
    BY <1>1, FS_Interval
<1>6. Backtest!LatestFeedback(D) = Max(T)
    BY SameExtremes DEF Backtest!LatestFeedback
<1> HIDE DEF T
<1>7. IsFiniteSet(T) /\ T \in SUBSET Nat
    <2> DEFINE I == 0..LastDate
    <2>1. T \in SUBSET I /\ IsFiniteSet(I) /\ I \in SUBSET Nat
        BY <1>1, <1>4, <1>5
    <2> HIDE DEF I
    <2>2. IsFiniteSet(T)
        BY <2>1, FS_Subset
    <2> QED
        BY <2>1, <2>2
<1>8. Max(T) \in T
    BY <1>4, <1>7, MaxOfNats
<1> QED
    BY <1>4, <1>6, <1>8

LEMMA SkipStep ==
    ASSUME RecordInv, CostInv, Len(values) < LastDate,
           NEW close \in [Universe -> Closes], Backtest!SkipDate(close)
    PROVE  CostInv'
<1> DEFINE x == invested[Cash]
<1>1. invested \in [Positions -> Int] /\ (\A t \in Universe : invested[t] = 0) /\ entries \in Seq(Backtest!Record)
      /\ x = Initial - Charged(entries, Len(values))
    BY DEF CostInv
<1>2. x \in Int
    BY <1>1 DEF Positions
<1>3. values' = Append(values, x) /\ UNCHANGED <<invested, entries>>
    BY <1>1, CashIsWorth DEF Backtest!SkipDate
<1>4. x = Initial - Charged(entries', Len(values) + 1)
    BY <1>1, <1>3, NothingCharged
<1>5. \A d \in 1..Len(values) : Charged(entries', d) = Charged(entries, d)
    BY <1>3
<1>6. /\ entries' \in Seq(Backtest!Record) /\ invested' \in [Positions -> Int] /\ invested'[Cash] = x
      /\ \A t \in Universe : invested'[t] = 0
    BY <1>1, <1>3
<1> HIDE DEF x
<1> QED
    BY <1>2, <1>3, <1>4, <1>5, <1>6, ValueAdded

\* A date with a record of cost c, which is taken out of CASH.
LEMMA RecordStep ==
    ASSUME RecordInv, CostInv, Len(values) < LastDate, NEW c \in Nat, NEW close \in [Universe -> Closes],
           NEW r \in Backtest!Record, r.date = Backtest!Date, r.cost = c,
           entries' = Append(entries, r),
           invested' = [t \in Positions |-> IF t = Cash THEN invested[t] - c ELSE invested[t]],
           values' = Append(values, Backtest!Worth(invested', close))
    PROVE  CostInv'
<1> DEFINE n == Len(values)
           x == invested[Cash] - c
<1>1. /\ invested \in [Positions -> Int] /\ (\A t \in Universe : invested[t] = 0)
      /\ entries \in Seq(Backtest!Record)
      /\ invested[Cash] = Initial - Charged(entries, n)
    BY DEF CostInv
<1>2. Cash \in Positions /\ Universe \subseteq Positions /\ Cash \notin Universe
    BY BacktestAssumption DEF Positions
<1>3. /\ invested' \in [Positions -> Int] /\ invested'[Cash] = x
      /\ \A t \in Universe : invested'[t] = 0
    BY <1>1, <1>2
<1>4. values' = Append(values, x)
    <2> DEFINE i == invested'
    <2>1. i \in [Positions -> Int] /\ (\A t \in Universe : i[t] = 0) /\ i[Cash] = x
        BY <1>3
    <2>2. values' = Append(values, Backtest!Worth(i, close))
        OBVIOUS
    <2> HIDE DEF i
    <2>3. Backtest!Worth(i, close) = x
        BY <2>1, CashIsWorth
    <2> QED
        BY <2>2, <2>3
<1>5. n \in Nat /\ \A i \in DOMAIN entries : entries[i].date \in 1..n /\ entries[i].cost \in Nat
    BY RecordShapes
<1>6. r.date = n + 1 /\ r.cost \in Nat
    BY DEF Backtest!Date
<1>7. /\ \A d \in 1..n : Charged(entries', d) = Charged(entries, d)
      /\ Charged(entries, n) \in Nat
      /\ Charged(entries', n + 1) = Charged(entries, n) + c
    <2> DEFINE m == Len(entries)
               e == entries
               a == entries'
    <2>1. /\ m \in Nat /\ DOMAIN e = 1..m /\ DOMAIN a = 1..(m + 1)
          /\ \A i \in 1..m : a[i] = e[i]
          /\ a[m + 1] = r
        BY <1>1
    <2>2. \A i \in 1..m : e[i].date \in 1..n /\ e[i].cost \in Nat
        BY <1>5, <2>1
    <2>3. a[m + 1].date = n + 1 /\ a[m + 1].cost \in Nat /\ a[m + 1].cost = c
        BY <1>6, <2>1
    <2>q. Recorded(e, a, m, n)
        <3> HIDE DEF e, a, m, n
        <3> QED
            BY <1>5, <2>1, <2>2, <2>3 DEF Recorded
    <2> HIDE DEF e, a, m, n
    <2>4. /\ \A d \in 1..n : Charged(a, d) = Charged(e, d)
          /\ Charged(e, n) \in Nat
          /\ Charged(a, n + 1) = Charged(e, n) + a[m + 1].cost
        BY <2>q, CostAdded
    <2> QED
        BY <2>3, <2>4 DEF e, a
<1>8. \A d \in 1..n : Charged(entries', d) = Charged(entries, d)
    BY <1>7
<1>9. x \in Int /\ x = Initial - Charged(entries', n + 1)
    <2>1. Charged(entries', n + 1) = Charged(entries, n) + c
        BY <1>7
    <2>2. Initial \in Nat
        BY BacktestAssumption
    <2> QED
        BY <1>1, <1>7, <2>1, <2>2
<1>10. entries' \in Seq(Backtest!Record)
    BY <1>1
<1> HIDE DEF x
<1> QED
    BY <1>3, <1>4, <1>8, <1>9, <1>10, ValueAdded DEF n

LEMMA HoldStep ==
    ASSUME RecordInv, CostInv, Len(values) < LastDate,
           NEW close \in [Universe -> Closes], Backtest!HoldDate(close)
    PROVE  CostInv'
<1> DEFINE r == [date |-> Backtest!Date, cost |-> 0, rebalanced |-> FALSE,
                 source |-> Backtest!LatestFeedback({})]
           c == 0
<1>1. Backtest!LatestFeedback({}) \in 0..LastDate
    BY FeedbackIsADate
<1>2. Backtest!Date \in 1..LastDate
    BY RecordShapes, BacktestAssumption DEF Backtest!Date
<1>3. r \in Backtest!Record /\ r.date = Backtest!Date /\ r.cost = c /\ c \in Nat
    BY <1>1, <1>2 DEF Backtest!Record
<1>4. /\ entries' = Append(entries, r) /\ UNCHANGED invested
      /\ values' = Append(values, Backtest!Worth(invested, close))
    BY DEF Backtest!HoldDate
<1>5. invested' = [t \in Positions |-> IF t = Cash THEN invested[t] - c ELSE invested[t]]
    BY <1>4 DEF CostInv
<1>6. values' = Append(values, Backtest!Worth(invested', close))
    BY <1>4
<1>7. entries' = Append(entries, r)
    BY <1>4
<1> HIDE DEF r, c
<1> QED
    BY <1>3, <1>5, <1>6, <1>7, RecordStep

\* The rebalance trades nothing, whatever it decides and at whatever prices.
LEMMA RebalanceStep ==
    ASSUME RecordInv, CostInv, Len(values) < LastDate,
           NEW close \in [Universe -> Closes], Backtest!RebalanceDate(close)
    PROVE  CostInv'
<1> DEFINE h == Backtest!Synced(close)
           After(w, quote) ==
               Backtest!Executed(h, Backtest!Plan(h, Backtest!SyncedWeights(h), w,
                                                  Backtest!StoredTotal(close), quote), quote)
<1>1. PICK w \in Backtest!OptimalWeights(Backtest!Positions), quote \in [Backtest!Positions -> Closes] :
        /\ invested' = [t \in Backtest!Positions |->
                           After(w, quote)[t].qty - (IF t = Cash THEN Backtest!CostOf(h, w) ELSE 0)]
        /\ values' = Append(values, Backtest!Worth(invested', close))
        /\ entries' = Append(entries, [date |-> Backtest!Date, cost |-> Backtest!CostOf(h, w),
                                       rebalanced |-> TRUE,
                                       source |-> Backtest!LatestFeedback({Backtest!Date})])
    BY DEF Backtest!RebalanceDate
<1> DEFINE c == Backtest!CostOf(h, w)
           r == [date |-> Backtest!Date, cost |-> c, rebalanced |-> TRUE,
                 source |-> Backtest!LatestFeedback({Backtest!Date})]
<1>2. Backtest!Positions = Positions
    BY DEF Backtest!Positions, Positions
<1>3. Rows(h) /\ DOMAIN h = Positions /\ \A t \in Positions : h[t].qty = invested[t]
    BY SyncedRows DEF Backtest!RebalanceDate
<1>4. DOMAIN w = Positions /\ \A t \in Positions : w[t] \in Nat
    BY <1>1, <1>2, BacktestWeights
<1>5. \A t \in Positions : After(w, quote)[t].qty = invested[t]
    <2> DEFINE W == Backtest!SyncedWeights(h)
    <2>1. After(w, quote) = Executed(h, Plan(h, W, w, 0, quote), quote)
        BY SamePlans, SameExecution DEF Backtest!StoredTotal
    <2>2. \A t \in DOMAIN h : Executed(h, Plan(h, W, w, 0, quote), quote)[t] = h[t]
        <3>1. Stored(W, DOMAIN h)
            <4> HIDE DEF h
            <4> QED
                BY <1>3, SyncedShares
        <3> HIDE DEF h, W
        <3> QED
            BY <1>3, <1>4, <3>1, NothingToTrade
    <2> HIDE DEF W
    <2> HIDE DEF h, After
    <2> QED
        BY <1>3, <2>1, <2>2
<1>6. c \in Nat
    <2> HIDE DEF h
    <2> QED
        BY <1>3, <1>4, CostIsNat
<1>7. invested' = [t \in Positions |-> IF t = Cash THEN invested[t] - c ELSE invested[t]]
    <2>1. invested' = [t \in Positions |-> After(w, quote)[t].qty - (IF t = Cash THEN c ELSE 0)]
        BY <1>1, <1>2
    <2> HIDE DEF After, c
    <2>2. ASSUME NEW t \in Positions
          PROVE  After(w, quote)[t].qty - (IF t = Cash THEN c ELSE 0)
                     = IF t = Cash THEN invested[t] - c ELSE invested[t]
        <3>1. invested[t] \in Int
            BY DEF CostInv
        <3> QED
            BY <1>5, <1>6, <3>1
    <2> QED
        BY <2>1, <2>2
<1>8. r \in Backtest!Record /\ r.date = Backtest!Date /\ r.cost = c
    <2> HIDE DEF c
    <2>1. Backtest!LatestFeedback({Backtest!Date}) \in 0..LastDate
        BY FeedbackIsADate
    <2>2. Backtest!Date \in 1..LastDate
        BY RecordShapes, BacktestAssumption DEF Backtest!Date
    <2> QED
        BY <1>6, <2>1, <2>2 DEF Backtest!Record
<1>9. values' = Append(values, Backtest!Worth(invested', close)) /\ entries' = Append(entries, r)
    BY <1>1
<1> HIDE DEF r, c, h, After
<1> QED
    BY <1>6, <1>7, <1>8, <1>9, RecordStep

--------------------------------------------------------------------------------
LEMMA CostInit == Backtest!Init => CostInv
<1> SUFFICES ASSUME Backtest!Init PROVE CostInv
    OBVIOUS
<1>1. invested = [t \in Positions |-> IF t = Cash THEN Initial ELSE 0]
      /\ values = <<>> /\ entries = <<>>
    BY DEF Backtest!Init, Backtest!Positions, Positions
<1>2. Cash \in Positions /\ Cash \notin Universe /\ Universe \subseteq Positions
      /\ Initial \in Nat /\ LastDate \in Nat
    BY BacktestAssumption DEF Positions
<1>3. invested \in [Positions -> Int] /\ invested[Cash] = Initial /\ \A t \in Universe : invested[t] = 0
    BY <1>1, <1>2
<1>4. values \in Seq(Int) /\ Len(values) = 0 /\ DOMAIN values = {}
      /\ entries \in Seq(Backtest!Record) /\ DOMAIN entries = {}
    BY <1>1
<1>5. Charged(entries, 0) = 0
    <2>1. Until(entries, 0) = {}
        BY <1>4 DEF Until
    <2> QED
        BY <2>1, TotalEmpty DEF Charged
<1>6. invested[Cash] = Initial - Charged(entries, Len(values))
    BY <1>2, <1>3, <1>4, <1>5
<1> QED
    BY <1>2, <1>3, <1>4, <1>6 DEF CostInv

LEMMA CostNext == RecordInv /\ CostInv /\ [Backtest!Next]_(Backtest!backtestVars) => CostInv'
<1> SUFFICES ASSUME RecordInv, CostInv, [Backtest!Next]_(Backtest!backtestVars) PROVE CostInv'
    OBVIOUS
<1>1. CASE Backtest!Next /\ Len(values) < LastDate /\ \E close \in [Universe -> Closes] :
                Backtest!SkipDate(close) \/ Backtest!HoldDate(close) \/ Backtest!RebalanceDate(close)
    BY <1>1, SkipStep, HoldStep, RebalanceStep
<1>2. CASE Backtest!Finish
    <2>1. UNCHANGED <<invested, values, entries>>
        BY <1>2 DEF Backtest!Finish
    <2> QED
        BY <2>1 DEF CostInv, Charged, Costs, Until
<1>3. CASE UNCHANGED Backtest!backtestVars
    BY <1>3 DEF CostInv, Charged, Costs, Until, Backtest!backtestVars
<1> QED
    BY <1>1, <1>2, <1>3 DEF Backtest!Next

LEMMA CostAlways == Backtest!Spec => [](RecordInv /\ CostInv)
<1>1. Backtest!Init => RecordInv /\ CostInv
    BY RecordInit, CostInit
<1>2. RecordInv /\ CostInv /\ [Backtest!Next]_(Backtest!backtestVars) => RecordInv' /\ CostInv'
    BY RecordNext, CostNext
<1> QED
    BY <1>1, <1>2, PTL DEF Backtest!Spec

\* PipelineBacktester: whatever the optimizer answers and the prices are, the
\* backtest stays in CASH, and its value falls by the charged costs alone.
THEOREM CostsMoveTheValue == JobSpec => []Backtest!OnlyCostsMoveTheValue
<1>1. CostInv => Backtest!OnlyCostsMoveTheValue
    <2> SUFFICES ASSUME CostInv PROVE Backtest!OnlyCostsMoveTheValue
        OBVIOUS
    <2>1. \A d : Backtest!CostUntil(d) = Charged(entries, d)
        BY SameTotals DEF Backtest!CostUntil, Charged, Costs, Until
    <2> QED
        BY <2>1 DEF CostInv, Backtest!OnlyCostsMoveTheValue
<1> QED
    BY <1>1, CostAlways, JobsAreSteps, PTL

--------------------------------------------------------------------------------
\* What is left of PipelineBacktest's type invariant.
EndInv ==
    /\ bases \in Seq(0..LastDate)
    /\ stage \in {"running", "completed", "empty"}

\* There are at most as many records as values.
LEMMA FewRecords ==
    ASSUME RecordInv, CostInv
    PROVE  Len(entries) <= Len(values)
<1> DEFINE n == Len(entries)
           d == Len(values)
<1>1. n \in Nat /\ d \in Nat /\ DOMAIN entries = 1..n
      /\ \A i \in DOMAIN entries : entries[i].date \in i..d
    BY RecordShapes, BacktestAssumption
<1> HIDE DEF n, d
<1>2. n \in DOMAIN entries => n <= d
    <2>1. n \in DOMAIN entries => entries[n].date \in n..d
        BY <1>1
    <2> QED
        BY <1>1, <2>1
<1>3. n \in DOMAIN entries \/ n = 0
    BY <1>1
<1> QED
    BY <1>1, <1>2, <1>3 DEF n, d

LEMMA EndNext ==
    RecordInv /\ CostInv /\ EndInv /\ [Backtest!Next]_(Backtest!backtestVars) => EndInv'
<1> SUFFICES ASSUME RecordInv, CostInv, EndInv, [Backtest!Next]_(Backtest!backtestVars)
             PROVE  EndInv'
    OBVIOUS
<1>1. CASE Backtest!Next /\ Len(values) < LastDate /\ \E close \in [Universe -> Closes] :
                Backtest!SkipDate(close) \/ Backtest!HoldDate(close) \/ Backtest!RebalanceDate(close)
    <2>1. UNCHANGED <<bases, stage>>
        BY <1>1 DEF Backtest!SkipDate, Backtest!HoldDate, Backtest!RebalanceDate
    <2> QED
        BY <2>1 DEF EndInv
<1>2. CASE Backtest!Finish
    <2> DEFINE n == Len(entries)
               b == [i \in DOMAIN entries |-> Backtest!BaseIndex(i)]
    <2>1. n \in Nat /\ n <= LastDate /\ LastDate \in Nat /\ DOMAIN entries = 1..n
        BY FewRecords, RecordShapes, BacktestAssumption
    <2>2. b \in Seq(0..LastDate)
        <3> HIDE DEF n
        <3>1. \A i \in 1..n : Backtest!BaseIndex(i) \in 0..LastDate
            BY <2>1 DEF Backtest!BaseIndex
        <3>2. b \in [1..n -> 0..LastDate]
            BY <2>1, <3>1
        <3> HIDE DEF b
        <3> QED
            BY <2>1, <3>2
    <2>3. \/ stage' = "empty" /\ UNCHANGED bases
          \/ stage' = "completed" /\ bases' = b
        BY <1>2 DEF Backtest!Finish
    <2> HIDE DEF b
    <2> QED
        BY <2>2, <2>3 DEF EndInv
<1>3. CASE UNCHANGED Backtest!backtestVars
    BY <1>3 DEF EndInv, Backtest!backtestVars
<1> QED
    BY <1>1, <1>2, <1>3 DEF Backtest!Next

LEMMA BacktestTypes == Backtest!Spec => []Backtest!TypeOK
<1>1. Backtest!Init => EndInv
    BY DEF Backtest!Init, EndInv
<1>2. RecordInv /\ CostInv /\ EndInv => Backtest!TypeOK
    <2> SUFFICES ASSUME RecordInv, CostInv, EndInv PROVE Backtest!TypeOK
        OBVIOUS
    <2>1. Len(entries) <= Len(values)
        BY FewRecords
    <2> QED
        BY <2>1 DEF CostInv, EndInv, Positions, Backtest!TypeOK, Backtest!Positions
<1> QED
    BY <1>1, <1>2, EndNext, CostAlways, PTL DEF Backtest!Spec

--------------------------------------------------------------------------------
\* PaperTrading, in the integers that stand for exact amounts.
LEMMA ExactDivision ==
    ASSUME NEW n \in Int, NEW k \in Nat \ {0}
    PROVE  (n * k) \div k = n
OBVIOUS

LEMMA Quotient ==
    ASSUME NEW n \in Nat, NEW k \in Nat \ {0}, n % k = 0
    PROVE  n \div k \in Nat /\ n = (n \div k) * k
OBVIOUS

\* Holdings of a portfolio.
Held(h) == IsFiniteSet(DOMAIN h) /\ \A t \in DOMAIN h : h[t].qty \in Quantities /\ h[t].price \in Prices

LEMMA HeldRows ==
    ASSUME NEW h, Held(h)
    PROVE  Rows(h) /\ \A t \in DOMAIN h : h[t].price \in Nat \ {0}
BY PaperAssumption DEF Held, Rows

\* An amount that is a whole number of parts at every price.
WholeAmount(m) == m \in Nat /\ \A p \in Prices : \E b \in Nat : m = (b * p) * Parts

LEMMA ZeroIsWhole == WholeAmount(0)
<1>1. \A p \in Prices : 0 \in Nat /\ 0 = (0 * p) * Parts
    BY PartsAssumption, PaperAssumption
<1> QED
    BY <1>1 DEF WholeAmount

\* The value of some of the holdings is such an amount, and at most that of all.
LEMMA ValuesDivide ==
    ASSUME NEW h, Held(h), NEW R \in SUBSET DOMAIN h
    PROVE  WholeAmount(Total(MarketValue(h), R)) /\ Total(MarketValue(h), R) <= Base(h)
<1> DEFINE S == DOMAIN h
           f == MarketValue(h)
<1>1. IsFiniteSet(S) /\ IsFiniteSet(R) /\ Base(h) = Total(f, S) /\ R \subseteq S
    BY FS_Subset DEF Held, Base
<1>2. \A t \in S : f[t] \in Nat
    BY HeldRows, BaseIsNat
<1>3. ASSUME NEW p \in Prices
      PROVE  \E c \in Nat : Total(f, R) = (c * p) * Parts
    <2> DEFINE k == Parts * p
               g == [t \in S |-> (h[t].qty \div k) * h[t].price]
    <2>1. Parts \in Nat \ {0} /\ p \in Nat \ {0}
        BY PartsAssumption, PaperAssumption
    <2>2. k \in Nat \ {0}
        BY <2>1
    <2>3. ASSUME NEW t \in S
          PROVE  g[t] \in Nat /\ f[t] = g[t] * k
        <3> DEFINE q == h[t].qty
                   r == h[t].price
        <3>1. q \in Nat /\ r \in Nat /\ q % k = 0
            BY PaperAssumption, UnitsAssumption DEF Held
        <3>2. f[t] = q * r /\ g[t] = (q \div k) * r
            BY DEF MarketValue
        <3> HIDE DEF q, r, k, f, g
        <3> DEFINE n == q \div k
        <3>3. n \in Nat /\ q = n * k
            BY <2>2, <3>1, Quotient
        <3>4. g[t] = n * r
            BY <3>2
        <3> HIDE DEF n
        <3> QED
            BY <2>2, <3>1, <3>2, <3>3, <3>4
    <2> HIDE DEF f, g, k, S
    <2>4. \A t \in R : g[t] \in Nat /\ f[t] = g[t] * k
        BY <1>1, <2>3
    <2>5. Total(g, R) \in Nat /\ Total(f, R) = Total(g, R) * k
        BY <1>1, <2>2, <2>4, TotalScaled
    <2> DEFINE b == Total(g, R)
    <2>6. b \in Nat /\ Total(f, R) = b * k
        BY <2>5
    <2> HIDE DEF b
    <2>7. b * k = (b * p) * Parts
        BY <2>1, <2>6 DEF k
    <2> QED
        BY <2>6, <2>7
<1> HIDE DEF f, S
<1>4. \A t \in R : f[t] \in Nat
    BY <1>1, <1>2
<1>5. Total(f, R) \in Nat
    BY <1>1, <1>4, TotalNat
<1>6. Total(f, R) <= Total(f, S)
    BY <1>1, <1>2, TotalGrows
<1> QED
    BY <1>1, <1>3, <1>5, <1>6 DEF WholeAmount, f

--------------------------------------------------------------------------------
\* A target value, a presumed value and what separates them are whole
\* quantities at any price p.
Goal(w, m, t) == (w[t] * m) \div Parts

LEMMA GoalDivides ==
    ASSUME NEW m, WholeAmount(m), NEW w, NEW t, w[t] \in Nat, NEW p \in Prices
    PROVE  \E g \in Nat : Goal(w, m, t) = g * p /\ w[t] * m = (g * p) * Parts
<1> DEFINE a == w[t]
<1>1. p \in Nat \ {0} /\ Parts \in Nat \ {0} /\ a \in Nat
    BY PartsAssumption, PaperAssumption
<1>2. PICK c \in Nat : m = (c * p) * Parts
    BY DEF WholeAmount
<1>3. Goal(w, m, t) = (a * m) \div Parts
    BY DEF Goal
<1> HIDE DEF a
<1> DEFINE g == a * c
           n == g * p
<1>4. g \in Nat /\ n \in Int
    BY <1>1, <1>2
<1>5. a * m = n * Parts
    BY <1>1, <1>2
<1> HIDE DEF g, n
<1>6. Goal(w, m, t) = n
    BY <1>1, <1>3, <1>4, <1>5, ExactDivision
<1> QED
    BY <1>4, <1>5, <1>6 DEF n, a

\* Weights in parts, with a weight for t.
InParts(W, t) == W.unit = Parts /\ W.of[t] \in Nat

LEMMA DeltaDivides ==
    ASSUME NEW m, WholeAmount(m), NEW W, NEW w, NEW t, InParts(W, t), w[t] \in Nat, NEW p \in Prices
    PROVE  /\ \E k \in Int : DeltaValue(W, w, m, t) = k * p
           /\ DeltaValue(W, w, m, t) = Goal(w, m, t) - Goal(W.of, m, t)
           /\ Goal(w, m, t) \in Nat /\ Goal(W.of, m, t) \in Nat
<1>1. p \in Nat \ {0}
    BY PaperAssumption
<1>2. DeltaValue(W, w, m, t) = Goal(w, m, t) - Goal(W.of, m, t)
    BY DEF DeltaValue, Goal, InParts
<1>3. PICK g \in Nat : Goal(w, m, t) = g * p
    BY GoalDivides
<1>4. PICK x \in Nat : Goal(W.of, m, t) = x * p
    BY GoalDivides DEF InParts
<1>5. Goal(w, m, t) \in Nat /\ Goal(W.of, m, t) \in Nat
    BY <1>1, <1>3, <1>4
<1> DEFINE k == g - x
<1>6. k \in Int /\ k * p = g * p - x * p
    BY <1>1
<1> HIDE DEF k
<1>7. DeltaValue(W, w, m, t) = k * p
    BY <1>2, <1>3, <1>4, <1>6
<1> QED
    BY <1>2, <1>5, <1>6, <1>7

LEMMA MagnitudeDivides ==
    ASSUME NEW d \in Int, NEW k \in Int, NEW p \in Nat \ {0}, d = k * p
    PROVE  /\ Magnitude(d) \div p \in Nat
           /\ (Magnitude(d) \div p) * p = Magnitude(d)
<1>1. Magnitude(k) \in Nat /\ Magnitude(d) = Magnitude(k) * p
    <2>1. CASE k < 0
        BY <2>1 DEF Magnitude
    <2>2. CASE k >= 0
        BY <2>2 DEF Magnitude
    <2> QED
        BY <2>1, <2>2
<1> DEFINE a == Magnitude(k)
<1>2. a \in Nat /\ Magnitude(d) = a * p
    BY <1>1
<1> HIDE DEF a
<1>3. (a * p) \div p = a
    BY <1>2, ExactDivision
<1> QED
    BY <1>2, <1>3

--------------------------------------------------------------------------------
\* An order of the planner, and what the executor makes of it.
Planned(h, W, m, w, p, o, e) ==
    /\ Held(h) /\ WholeAmount(m) /\ p \in [DOMAIN h -> Prices]
    /\ o = Plan(h, W, w, m, p) /\ e = Executed(h, o, p)

LEMMA PlannedTrade ==
    ASSUME NEW h, NEW W, NEW m, NEW w, NEW p, NEW o, NEW e, Planned(h, W, m, w, p, o, e),
           NEW t \in DOMAIN h, w[t] \in Nat, InParts(W, t)
    PROVE  /\ DOMAIN o = DOMAIN h /\ DOMAIN e = DOMAIN h
           /\ o[t].side \in {"BUY", "SELL", "HOLD"} /\ o[t].qty \in Nat
           /\ o[t].side = "HOLD" => Magnitude(DeltaValue(W, w, m, t)) < Significant /\ e[t] = h[t]
           /\ o[t].side = "BUY" =>
                 /\ o[t].qty * p[t] = DeltaValue(W, w, m, t)
                 /\ e[t].qty = h[t].qty + o[t].qty /\ e[t].price = p[t]
           /\ o[t].side = "SELL" =>
                 /\ o[t].qty * p[t] = -DeltaValue(W, w, m, t)
                 /\ e[t].qty = Max({0, h[t].qty - o[t].qty}) /\ e[t].price = p[t]
<1> DEFINE d == DeltaValue(W, w, m, t)
           n == Magnitude(d) \div p[t]
<1>p. /\ Held(h) /\ WholeAmount(m) /\ p \in [DOMAIN h -> Prices]
      /\ o = Plan(h, W, w, m, p) /\ e = Executed(h, o, p)
    BY DEF Planned
<1>1. p[t] \in Prices /\ p[t] \in Nat \ {0}
    BY <1>p, PaperAssumption
<1>2. PICK k \in Int : d = k * p[t]
    BY <1>p, <1>1, DeltaDivides
<1>3. d \in Int
    BY <1>1, <1>2
<1>4. o[t] = IF Magnitude(d) < Significant THEN [side |-> "HOLD", qty |-> 0]
             ELSE [side |-> IF d > 0 THEN "BUY" ELSE "SELL", qty |-> n]
    BY <1>p DEF Plan, Order
<1>5. /\ o[t].side = "HOLD" => e[t] = h[t]
      /\ o[t].side = "BUY" => e[t] = [qty |-> h[t].qty + o[t].qty, price |-> p[t]]
      /\ o[t].side = "SELL" => e[t] = [qty |-> Max({0, h[t].qty - o[t].qty}), price |-> p[t]]
    BY <1>p DEF Executed
<1>6. DOMAIN o = DOMAIN h /\ DOMAIN e = DOMAIN h
    BY <1>p DEF Plan, Executed
<1> HIDE DEF d
<1>7. n \in Nat /\ n * p[t] = Magnitude(d)
    BY <1>1, <1>2, <1>3, MagnitudeDivides
<1> HIDE DEF n
<1>8. CASE Magnitude(d) < Significant
    BY <1>4, <1>5, <1>6, <1>8 DEF d
<1>9. CASE ~(Magnitude(d) < Significant) /\ d > 0
    <2>1. o[t].side = "BUY" /\ o[t].qty = n
        BY <1>4, <1>9
    <2>2. n * p[t] = d
        BY <1>3, <1>7, <1>9 DEF Magnitude
    <2> QED
        BY <1>5, <1>6, <1>7, <2>1, <2>2 DEF d
<1>10. CASE ~(Magnitude(d) < Significant) /\ ~(d > 0)
    <2>1. o[t].side = "SELL" /\ o[t].qty = n
        BY <1>4, <1>10
    <2>2. n * p[t] = -d
        <3>1. Magnitude(d) = -d
            BY <1>3, <1>10 DEF Magnitude
        <3> QED
            BY <1>7, <3>1
    <2> QED
        BY <1>5, <1>6, <1>7, <2>1, <2>2 DEF d
<1> QED
    BY <1>8, <1>9, <1>10

--------------------------------------------------------------------------------
LEMMA WeightsInParts ==
    /\ Paper!Weights.of = weight
    /\ \A t : weight[t] \in Nat => InParts(Paper!Weights, t)
BY DEF Paper!Weights, InParts

\* An instruction of portfolio control, and the snapshot's claim beside it.
LEMMA ControlTrade ==
    ASSUME Held(held), WholeAmount(total), NEW t \in DOMAIN held, weight[t] \in Nat,
           NEW w, w[t] \in Nat,
           NEW i, i = Paper!Instruction(w, t), NEW c, c = Paper!Claimed(w, t)
    PROVE  /\ c.qty \in Nat /\ c.price = held[t].price /\ c.qty * c.price = Goal(w, total, t)
           /\ i.side \in {"BUY", "SELL", "HOLD"} /\ i.qty \in Nat
           /\ i.side = "HOLD" => Magnitude(DeltaValue(Paper!Weights, w, total, t)) < MinNotional
           /\ i.side = "BUY" => i.qty * held[t].price = DeltaValue(Paper!Weights, w, total, t)
           /\ i.side = "SELL" => i.qty * held[t].price = -DeltaValue(Paper!Weights, w, total, t)
<1> DEFINE d == DeltaValue(Paper!Weights, w, total, t)
           r == held[t].price
           n == Magnitude(d) \div r
<1>1. r \in Prices /\ r \in Nat \ {0} /\ Parts \in Nat \ {0}
    BY HeldRows, PartsAssumption DEF Held
<1>2. PICK g \in Nat : Goal(w, total, t) = g * r /\ w[t] * total = (g * r) * Parts
    BY <1>1, GoalDivides
<1>3. PICK k \in Int : d = k * r
    BY <1>1, WeightsInParts, DeltaDivides
<1>4. d \in Int
    BY <1>1, <1>3
<1>5. c = [qty |-> (w[t] * total) \div (Parts * r), price |-> r]
    BY DEF Paper!Claimed
<1>6. i = IF Magnitude(d) < MinNotional THEN [side |-> "HOLD", qty |-> 0]
          ELSE [side |-> IF d > 0 THEN "BUY" ELSE "SELL", qty |-> n]
    BY SameDeltas, SameMagnitude DEF Paper!Instruction
<1> HIDE DEF d, r
<1>7. n \in Nat /\ n * r = Magnitude(d)
    BY <1>1, <1>3, <1>4, MagnitudeDivides
<1> HIDE DEF n
<1>8. c.qty \in Nat /\ c.price = r /\ c.qty * c.price = Goal(w, total, t)
    <2> DEFINE u == Parts * r
    <2>1. u \in Nat \ {0} /\ w[t] * total = g * u
        BY <1>1, <1>2
    <2>2. c.qty = (g * u) \div u /\ c.price = r
        BY <1>5, <2>1
    <2> HIDE DEF u
    <2>3. c.qty = g
        BY <2>1, <2>2, ExactDivision
    <2> QED
        BY <1>2, <2>2, <2>3
<1>9. CASE Magnitude(d) < MinNotional
    BY <1>6, <1>8, <1>9 DEF d, r
<1>10. CASE ~(Magnitude(d) < MinNotional) /\ d > 0
    <2>1. i.side = "BUY" /\ i.qty = n
        BY <1>6, <1>10
    <2>2. n * r = d
        BY <1>4, <1>7, <1>10 DEF Magnitude
    <2> QED
        BY <1>7, <1>8, <2>1, <2>2 DEF d, r
<1>11. CASE ~(Magnitude(d) < MinNotional) /\ ~(d > 0)
    <2>1. i.side = "SELL" /\ i.qty = n
        BY <1>6, <1>11
    <2>2. n * r = -d
        <3>1. Magnitude(d) = -d
            BY <1>4, <1>11 DEF Magnitude
        <3> QED
            BY <1>7, <3>1
    <2> QED
        BY <1>7, <1>8, <2>1, <2>2 DEF d, r
<1> QED
    BY <1>9, <1>10, <1>11

--------------------------------------------------------------------------------
\* What is known of a request of each kind: the targets are of the holdings,
\* the prices too, and the orders and the snapshot are those of its route.
PaperInv ==
    /\ held \in Paper!Holdings /\ weight \in [DOMAIN held -> 0..Parts]
    /\ WholeAmount(total) /\ total <= Base(held)
    /\ DOMAIN target \subseteq DOMAIN held /\ \A t \in DOMAIN target : target[t] \in 0..Parts
    /\ DOMAIN price \subseteq DOMAIN held /\ \A t \in DOMAIN price : price[t] \in Prices
    /\ at \in {"new", "decided", "priced", "paper", "control", "refused"}
    /\ at \in {"decided", "priced", "paper", "control"} => DOMAIN target = DOMAIN held
    /\ at \in {"priced", "paper"} => price \in [DOMAIN held -> Prices]
    /\ at = "paper" => /\ orders = Plan(held, Paper!Weights, target, total, price)
                       /\ copy = Executed(held, orders, price)
    /\ at = "control" =>
          /\ orders = [t \in DOMAIN held |-> Paper!Instruction(target, t)]
          /\ copy = [t \in DOMAIN held |-> Paper!Claimed(target, t)]
          /\ price = [t \in DOMAIN held |-> held[t].price]
    /\ at \notin {"paper", "control"} => DOMAIN orders = {} /\ DOMAIN copy = {}

LEMMA PortfoliosAreHeld ==
    ASSUME NEW h \in Paper!Holdings
    PROVE  Held(h) /\ DOMAIN h # {}
<1>1. PICK S \in (SUBSET Assets) \ {{}} : h \in [S -> [qty : Quantities, price : Prices]]
    BY DEF Paper!Holdings
<1>2. IsFiniteSet(S)
    BY PaperAssumption, FS_Subset
<1> QED
    BY <1>1, <1>2 DEF Held

LEMMA PaperWeights ==
    ASSUME NEW S, IsFiniteSet(S), S # {}, NEW w \in Paper!OptimalWeights(S)
    PROVE  DOMAIN w = S /\ \A t \in S : w[t] \in 0..Parts
<1>1. CASE w \in Paper!Feasible(S)
    <2>1. DOMAIN w = S /\ \A t \in S : w[t] \in Grid
        BY <1>1 DEF Paper!Feasible
    <2> QED
        BY <2>1, PartsAssumption
<1>2. CASE w = Paper!EqualWeights(S)
    <2> DEFINE n == Cardinality(S)
    <2>1. n \in Nat \ {0}
        BY FS_CardinalityType, FS_EmptySet
    <2>2. DOMAIN w = S /\ \A t \in S : w[t] = Parts \div n
        BY <1>2, SameCardinality DEF Paper!EqualWeights
    <2> HIDE DEF n
    <2>3. Parts \div n \in 0..Parts
        BY <2>1, PartsAssumption
    <2> QED
        BY <2>2, <2>3
<1> QED
    BY <1>1, <1>2 DEF Paper!OptimalWeights

LEMMA PaperInit == Paper!Init => PaperInv
<1> SUFFICES ASSUME Paper!Init PROVE PaperInv
    OBVIOUS
<1>1. /\ held \in Paper!Holdings /\ at = "new"
      /\ target = Paper!Empty /\ price = Paper!Empty /\ orders = Paper!Empty /\ copy = Paper!Empty
    BY DEF Paper!Init
<1>2. DOMAIN Paper!Empty = {}
    BY DEF Paper!Empty
<1>a. PICK age \in Paper!Ages : \E s \in Paper!StoredWeights(age) \X ({0} \cup Paper!Totals(age)) :
                                  weight = s[1] /\ total = s[2]
    BY DEF Paper!Init
<1>3. weight \in Paper!StoredWeights(age) /\ total \in {0} \cup Paper!Totals(age)
    BY <1>a
<1>4. weight \in [DOMAIN held -> 0..Parts]
    <2>1. weight \in Paper!StoredWeights(age)
        BY <1>3
    <2>2. 0 \in 0..Parts /\ \A t \in DOMAIN held : Paper!Shares(age)[t] \subseteq 0..Parts
        BY PartsAssumption DEF Paper!Shares
    <2> QED
        BY <2>1, <2>2 DEF Paper!StoredWeights
<1>5. WholeAmount(total) /\ total <= Base(held)
    <2>1. Held(held)
        BY <1>1, PortfoliosAreHeld
    <2>2. CASE total = 0
        <3>1. Base(held) \in Nat
            BY <2>1, HeldRows, BaseIsNat
        <3> QED
            BY <2>2, <3>1, ZeroIsWhole
    <2>3. CASE total \in Paper!Totals(age)
        <3>1. PICK n : total = Paper!Value(Paper!FirstRows(age, n))
            BY <2>3 DEF Paper!Totals
        <3>2. Paper!FirstRows(age, n) \in SUBSET DOMAIN held
            BY DEF Paper!FirstRows
        <3>3. total = Total(MarketValue(held), Paper!FirstRows(age, n))
            BY <3>1, SameTotals, SameValues DEF Paper!Value
        <3> QED
            BY <2>1, <3>2, <3>3, ValuesDivide
    <2> QED
        BY <1>3, <2>2, <2>3
<1> QED
    BY <1>1, <1>2, <1>4, <1>5 DEF PaperInv

LEMMA PaperNext == PaperInv /\ [Paper!Next]_(Paper!paperVars) => PaperInv'
<1> SUFFICES ASSUME PaperInv, [Paper!Next]_(Paper!paperVars) PROVE PaperInv'
    OBVIOUS
<1>h. Held(held) /\ DOMAIN held # {} /\ IsFiniteSet(DOMAIN held)
    BY PortfoliosAreHeld DEF PaperInv, Held
<1>1. CASE Paper!Evaluate
    <2>1. target' \in Paper!OptimalWeights(DOMAIN held) /\ at' \in {"decided", "refused"}
          /\ UNCHANGED <<held, weight, total, price, orders, copy>> /\ at = "new"
        BY <1>1 DEF Paper!Evaluate
    <2>2. DOMAIN target' = DOMAIN held /\ \A t \in DOMAIN held : target'[t] \in 0..Parts
        BY <1>h, <2>1, PaperWeights
    <2> QED
        BY <2>1, <2>2 DEF PaperInv
<1>2. CASE Paper!FetchPrices
    <2>1. price' \in [DOMAIN held -> Prices] /\ at' = "priced" /\ at = "decided"
          /\ UNCHANGED <<held, weight, total, target, orders, copy>>
        BY <1>2 DEF Paper!FetchPrices
    <2> QED
        BY <2>1 DEF PaperInv
<1>3. CASE Paper!FetchFails
    BY <1>3 DEF Paper!FetchFails, PaperInv
<1>4. CASE Paper!Rebalance
    <2>1. /\ orders' = Plan(held, Paper!Weights, target, total, price) /\ copy' = Executed(held, orders', price)
          /\ at = "priced" /\ at' = "paper" /\ UNCHANGED <<held, weight, total, target, price>>
        BY <1>4, SamePlans, SameExecution DEF Paper!Rebalance
    <2>2. Paper!Weights' = Paper!Weights
        BY <2>1 DEF Paper!Weights
    <2> QED
        BY <2>1, <2>2 DEF PaperInv
<1>5. CASE Paper!Control
    <2>1. PICK w : /\ \E gross \in GrossLimits : w \in Paper!ControlWeights(DOMAIN held, gross)
                   /\ target' = w
                   /\ orders' = [t \in DOMAIN held |-> Paper!Instruction(w, t)]
                   /\ copy' = [t \in DOMAIN held |-> Paper!Claimed(w, t)]
        BY <1>5 DEF Paper!Control
    <2>2. /\ total > 0 /\ price' = [t \in DOMAIN held |-> held[t].price]
          /\ at' = "control" /\ UNCHANGED <<held, weight, total>>
        BY <1>5 DEF Paper!Control
    <2>3. DOMAIN target' = DOMAIN held /\ \A t \in DOMAIN held : target'[t] \in 0..Parts
        <3>1. DOMAIN w = DOMAIN held /\ \A t \in DOMAIN held : w[t] \in Grid
            BY <2>1 DEF Paper!ControlWeights
        <3> QED
            BY <2>1, <3>1, PartsAssumption
    <2>4. orders' = [t \in DOMAIN held' |-> Paper!Instruction(target, t)']
          /\ copy' = [t \in DOMAIN held' |-> Paper!Claimed(target, t)']
        BY <2>1, <2>2, SameDeltas, SameMagnitude DEF Paper!Instruction, Paper!Claimed, Paper!Weights
    <2>5. \A t \in DOMAIN held : held[t].price \in Prices
        BY <1>h DEF Held
    <2> QED
        BY <2>2, <2>3, <2>4, <2>5 DEF PaperInv
<1>6. CASE Paper!ControlRefused
    BY <1>6 DEF Paper!ControlRefused, PaperInv
<1>7. CASE UNCHANGED Paper!paperVars
    <2>1. UNCHANGED <<held, weight, total, target, price, orders, copy, at>>
        BY <1>7 DEF Paper!paperVars
    <2>2. Paper!Weights' = Paper!Weights
        BY <2>1 DEF Paper!Weights
    <2>3. \A t : /\ Paper!Instruction(target, t)' = Paper!Instruction(target, t)
                 /\ Paper!Claimed(target, t)' = Paper!Claimed(target, t)
        BY <2>1, <2>2, SameDeltas DEF Paper!Instruction, Paper!Claimed
    <2> QED
        BY <2>1, <2>2, <2>3 DEF PaperInv
<1> QED
    BY <1>1, <1>2, <1>3, <1>4, <1>5, <1>6, <1>7 DEF Paper!Next

LEMMA PaperAlways == Paper!Spec => []PaperInv
BY PaperInit, PaperNext, PTL DEF Paper!Spec

--------------------------------------------------------------------------------
\* The amounts of a ticker: q held at the price r, ordered n at the price p on
\* the way from the presumed value x to goal, with d between them.
LEMMA LessAtPrice ==
    ASSUME NEW a \in Int, NEW b \in Int, NEW p \in Nat \ {0}
    PROVE  a < b <=> a * p < b * p
OBVIOUS

\* A sale of more than is held: the price has fallen or the value is presumed.
LEMMA SoldTooMuch ==
    ASSUME NEW q \in Nat, NEW n \in Nat, NEW p \in Nat \ {0}, NEW r \in Nat \ {0},
           NEW goal \in Nat, NEW x \in Nat, n * p = x - goal, q < n
    PROVE  p < r \/ x > q * r
<1>1. q * p < n * p
    BY LessAtPrice
<1>2. q * p \in Nat /\ q * r \in Nat
    OBVIOUS
<1>3. q * p < x
    BY <1>1, <1>2
<1>4. CASE x <= q * r
    <2>1. q * p < q * r
        BY <1>2, <1>3, <1>4
    <2> QED
        BY <2>1
<1> QED
    BY <1>2, <1>4

LEMMA ScaledMagnitude ==
    ASSUME NEW a \in Int, NEW r \in Nat
    PROVE  Magnitude(a) * r = Magnitude(a * r)
<1>1. CASE a < 0
    BY <1>1 DEF Magnitude
<1>2. CASE a >= 0
    BY <1>2 DEF Magnitude
<1> QED
    BY <1>1, <1>2

\* The stored weight's value of a holding, beside its stored market value.
LEMMA Presumption ==
    ASSUME PaperInv, NEW t \in DOMAIN held
    PROVE  /\ Paper!Presumed(t) = Goal(weight, total, t) /\ Paper!Presumed(t) \in Nat
           /\ Paper!Stale(t) <=> Paper!Presumed(t) > held[t].qty * held[t].price
           /\ Paper!Drift(t) = Magnitude(held[t].qty * held[t].price - Paper!Presumed(t))
<1>1. Paper!Presumed(t) = Goal(weight, total, t)
    BY DEF Paper!Presumed, Goal
<1>2. MarketValue(held)[t] = held[t].qty * held[t].price
    BY DEF MarketValue
<1>3. Goal(weight, total, t) \in Nat
    <2>1. WholeAmount(total) /\ weight[t] \in Nat /\ Held(held)
        BY PortfoliosAreHeld, PartsAssumption DEF PaperInv
    <2>2. held[t].price \in Prices /\ held[t].price \in Nat
        BY <2>1, HeldRows DEF Held
    <2>3. PICK g \in Nat : Goal(weight, total, t) = g * held[t].price
        BY <2>1, <2>2, GoalDivides
    <2> QED
        BY <2>2, <2>3
<1> QED
    BY <1>1, <1>2, <1>3, SameMagnitude, SameValues DEF Paper!Stale, Paper!Drift

LEMMA TradedOf ==
    ASSUME NEW t, orders[t].qty \in Nat, NEW traded, traded = Paper!Traded(t)
    PROVE  /\ orders[t].side = "BUY" => traded = orders[t].qty
           /\ orders[t].side = "SELL" => traded = -orders[t].qty
           /\ orders[t].side = "HOLD" => traded = 0
BY DEF Paper!Traded

\* The ticker t of a paper rebalance.
LEMMA PaperTicker ==
    ASSUME PaperInv, at = "paper", NEW t \in DOMAIN held
    PROVE  /\ held[t].qty \in Nat /\ held[t].price \in Nat \ {0} /\ price[t] \in Nat \ {0}
           /\ orders[t].side \in {"BUY", "SELL", "HOLD"} /\ orders[t].qty \in Nat
           /\ Goal(target, total, t) \in Nat /\ DeltaValue(Paper!Weights, target, total, t) \in Int
           /\ DeltaValue(Paper!Weights, target, total, t) = Goal(target, total, t) - Paper!Presumed(t)
           /\ orders[t].side = "HOLD" => /\ Magnitude(DeltaValue(Paper!Weights, target, total, t)) < Significant
                                         /\ copy[t] = held[t]
           /\ orders[t].side = "BUY" =>
                 /\ orders[t].qty * price[t] = DeltaValue(Paper!Weights, target, total, t)
                 /\ copy[t].qty = held[t].qty + orders[t].qty /\ copy[t].price = price[t]
           /\ orders[t].side = "SELL" =>
                 /\ orders[t].qty * price[t] = -DeltaValue(Paper!Weights, target, total, t)
                 /\ copy[t].qty = Max({0, held[t].qty - orders[t].qty}) /\ copy[t].price = price[t]
<1>1. /\ Held(held) /\ WholeAmount(total) /\ price \in [DOMAIN held -> Prices]
      /\ target[t] \in Nat /\ weight[t] \in Nat
      /\ orders = Plan(held, Paper!Weights, target, total, price)
      /\ copy = Executed(held, orders, price)
    BY PortfoliosAreHeld, PartsAssumption DEF PaperInv
<1>w. InParts(Paper!Weights, t) /\ Goal(Paper!Weights.of, total, t) = Paper!Presumed(t)
    BY <1>1, WeightsInParts, Presumption
<1>2. price[t] \in Prices /\ price[t] \in Nat \ {0}
    BY <1>1, PaperAssumption
<1>3. held[t].qty \in Nat /\ held[t].price \in Nat \ {0}
    BY <1>1, HeldRows DEF Rows
<1>4. PICK k \in Int : DeltaValue(Paper!Weights, target, total, t) = k * price[t]
    BY <1>1, <1>w, <1>2, DeltaDivides
<1>d. /\ DeltaValue(Paper!Weights, target, total, t)
            = Goal(target, total, t) - Goal(Paper!Weights.of, total, t)
      /\ Goal(target, total, t) \in Nat
    BY <1>1, <1>w, <1>2, DeltaDivides
<1>5. /\ DeltaValue(Paper!Weights, target, total, t) = Goal(target, total, t) - Paper!Presumed(t)
      /\ Goal(target, total, t) \in Nat
    BY <1>w, <1>d
<1>6. DeltaValue(Paper!Weights, target, total, t) \in Int
    BY <1>2, <1>4
<1>8. /\ orders[t].side \in {"BUY", "SELL", "HOLD"} /\ orders[t].qty \in Nat
      /\ orders[t].side = "HOLD" => /\ Magnitude(DeltaValue(Paper!Weights, target, total, t)) < Significant
                                    /\ copy[t] = held[t]
      /\ orders[t].side = "BUY" =>
            /\ orders[t].qty * price[t] = DeltaValue(Paper!Weights, target, total, t)
            /\ copy[t].qty = held[t].qty + orders[t].qty /\ copy[t].price = price[t]
      /\ orders[t].side = "SELL" =>
            /\ orders[t].qty * price[t] = -DeltaValue(Paper!Weights, target, total, t)
            /\ copy[t].qty = Max({0, held[t].qty - orders[t].qty}) /\ copy[t].price = price[t]
    <2> DEFINE h == held
               W == Paper!Weights
               m == total
               w == target
               p == price
               o == orders
               e == copy
    <2>1. /\ Planned(h, W, m, w, p, o, e) /\ t \in DOMAIN h /\ w[t] \in Nat /\ InParts(W, t)
          /\ h[t].qty \in Nat /\ p[t] \in Nat /\ DeltaValue(W, w, m, t) \in Int
        BY <1>1, <1>w, <1>2, <1>3, <1>6 DEF Planned
    <2> HIDE DEF h, W, m, w, p, o, e
    <2>2. /\ DOMAIN o = DOMAIN h /\ DOMAIN e = DOMAIN h
          /\ o[t].side \in {"BUY", "SELL", "HOLD"} /\ o[t].qty \in Nat
          /\ o[t].side = "HOLD" => Magnitude(DeltaValue(W, w, m, t)) < Significant /\ e[t] = h[t]
          /\ o[t].side = "BUY" =>
                /\ o[t].qty * p[t] = DeltaValue(W, w, m, t)
                /\ e[t].qty = h[t].qty + o[t].qty /\ e[t].price = p[t]
          /\ o[t].side = "SELL" =>
                /\ o[t].qty * p[t] = -DeltaValue(W, w, m, t)
                /\ e[t].qty = Max({0, h[t].qty - o[t].qty}) /\ e[t].price = p[t]
        BY <2>1, PlannedTrade
    <2> QED
        BY <2>2 DEF h, W, m, w, p, o, e
<1> QED
    BY <1>2, <1>3, <1>5, <1>6, <1>8

\* The ticker t of a portfolio control.
LEMMA ControlTicker ==
    ASSUME PaperInv, at = "control", NEW t \in DOMAIN held
    PROVE  /\ held[t].qty \in Nat /\ held[t].price \in Nat \ {0} /\ price[t] = held[t].price
           /\ orders[t].side \in {"BUY", "SELL", "HOLD"} /\ orders[t].qty \in Nat
           /\ Goal(target, total, t) \in Nat /\ DeltaValue(Paper!Weights, target, total, t) \in Int
           /\ DeltaValue(Paper!Weights, target, total, t) = Goal(target, total, t) - Paper!Presumed(t)
           /\ copy[t].qty \in Nat /\ copy[t].price = held[t].price
           /\ copy[t].qty * copy[t].price = Goal(target, total, t)
           /\ orders[t].side = "HOLD" => Magnitude(DeltaValue(Paper!Weights, target, total, t)) < MinNotional
           /\ orders[t].side = "BUY" =>
                 orders[t].qty * held[t].price = DeltaValue(Paper!Weights, target, total, t)
           /\ orders[t].side = "SELL" =>
                 orders[t].qty * held[t].price = -DeltaValue(Paper!Weights, target, total, t)
<1>1. /\ Held(held) /\ WholeAmount(total)
      /\ target[t] \in Nat /\ weight[t] \in Nat /\ price[t] = held[t].price
      /\ orders[t] = Paper!Instruction(target, t) /\ copy[t] = Paper!Claimed(target, t)
    BY PortfoliosAreHeld, PartsAssumption DEF PaperInv
<1>2. held[t].price \in Prices /\ held[t].qty \in Nat /\ held[t].price \in Nat \ {0}
    BY <1>1, HeldRows DEF Rows, Held
<1>3. InParts(Paper!Weights, t) /\ Goal(Paper!Weights.of, total, t) = Paper!Presumed(t)
    BY <1>1, WeightsInParts, Presumption
<1>4. PICK k \in Int : DeltaValue(Paper!Weights, target, total, t) = k * held[t].price
    BY <1>1, <1>2, <1>3, DeltaDivides
<1>d. /\ DeltaValue(Paper!Weights, target, total, t)
            = Goal(target, total, t) - Goal(Paper!Weights.of, total, t)
      /\ Goal(target, total, t) \in Nat
    <2> DEFINE W == Paper!Weights
               w == target
               m == total
               p == held[t].price
    <2>1. WholeAmount(m) /\ InParts(W, t) /\ w[t] \in Nat /\ p \in Prices
        BY <1>1, <1>2, <1>3
    <2> HIDE DEF W, w, m, p
    <2>2. DeltaValue(W, w, m, t) = Goal(w, m, t) - Goal(W.of, m, t) /\ Goal(w, m, t) \in Nat
        BY <2>1, DeltaDivides
    <2> QED
        BY <2>2 DEF W, w, m
<1>5. /\ DeltaValue(Paper!Weights, target, total, t) = Goal(target, total, t) - Paper!Presumed(t)
      /\ Goal(target, total, t) \in Nat
    BY <1>3, <1>d
<1>6. DeltaValue(Paper!Weights, target, total, t) \in Int
    BY <1>2, <1>4
<1> QED
    BY <1>1, <1>2, <1>5, <1>6, ControlTrade

--------------------------------------------------------------------------------
LEMMA PaperOversold == PaperInv => Paper!OversoldForCause
<1> SUFFICES ASSUME PaperInv PROVE Paper!OversoldForCause
    OBVIOUS
<1>1. ASSUME at = "paper", NEW t \in DOMAIN held
      PROVE  /\ Paper!Oversold(t) <=> /\ orders[t].side = "SELL"
                                      /\ held[t].qty * price[t] < -DeltaValue(Paper!Weights, target, total, t)
             /\ Paper!Oversold(t) => price[t] < held[t].price \/ Paper!Stale(t)
    <2> DEFINE q == held[t].qty
               r == held[t].price
               p == price[t]
               n == orders[t].qty
               d == DeltaValue(Paper!Weights, target, total, t)
               goal == Goal(target, total, t)
               x == Paper!Presumed(t)
               side == orders[t].side
               traded == Paper!Traded(t)
    <2>1. /\ q \in Nat /\ r \in Nat \ {0} /\ p \in Nat \ {0} /\ n \in Nat /\ goal \in Nat /\ d \in Int
          /\ side \in {"BUY", "SELL", "HOLD"}
          /\ d = goal - x
          /\ side = "SELL" => n * p = -d
        BY <1>1, PaperTicker
    <2>x. x \in Nat /\ (Paper!Stale(t) <=> x > q * r)
        BY Presumption
    <2>2. /\ side = "BUY" => traded = n
          /\ side = "SELL" => traded = -n
          /\ side = "HOLD" => traded = 0
        BY <2>1, TradedOf
    <2>3. Paper!Oversold(t) <=> q + traded < 0
        BY DEF Paper!Oversold
    <2> HIDE DEF q, r, p, n, d, goal, x, side, traded
    <2>4. q + traded < 0 <=> side = "SELL" /\ q < n
        BY <2>1, <2>2
    <2>5. q < n <=> q * p < n * p
        BY <2>1, LessAtPrice
    <2>6. side = "SELL" /\ q < n => p < r \/ x > q * r
        <3>1. side = "SELL" => n * p = x - goal
            BY <2>1, <2>x
        <3> QED
            BY <2>1, <2>x, <3>1, SoldTooMuch
    <2>7. /\ Paper!Oversold(t) <=> side = "SELL" /\ q * p < -d
          /\ Paper!Oversold(t) => p < r \/ Paper!Stale(t)
        BY <2>1, <2>x, <2>3, <2>4, <2>5, <2>6
    <2> QED
        BY <2>7 DEF q, r, p, n, d, side
<1>2. ASSUME at = "control", NEW t \in DOMAIN held
      PROVE  Paper!Oversold(t) => Paper!Stale(t)
    <2> DEFINE q == held[t].qty
               r == held[t].price
               n == orders[t].qty
               d == DeltaValue(Paper!Weights, target, total, t)
               goal == Goal(target, total, t)
               x == Paper!Presumed(t)
               side == orders[t].side
               traded == Paper!Traded(t)
    <2>1. /\ q \in Nat /\ r \in Nat \ {0} /\ n \in Nat /\ goal \in Nat /\ d = goal - x
          /\ side \in {"BUY", "SELL", "HOLD"}
          /\ side = "SELL" => n * r = -d
        BY <1>2, ControlTicker
    <2>x. x \in Nat /\ (Paper!Stale(t) <=> x > q * r)
        BY Presumption
    <2>2. /\ side = "BUY" => traded = n
          /\ side = "SELL" => traded = -n
          /\ side = "HOLD" => traded = 0
        BY <2>1, TradedOf
    <2>3. Paper!Oversold(t) <=> q + traded < 0
        BY DEF Paper!Oversold
    <2> HIDE DEF q, r, n, d, goal, x, side, traded
    <2>4. side = "SELL" /\ q < n => x > q * r
        <3>1. side = "SELL" => n * r = x - goal
            BY <2>1, <2>x
        <3>2. ~(r < r)
            BY <2>1
        <3> QED
            BY <2>1, <2>x, <3>1, <3>2, SoldTooMuch
    <2> QED
        BY <2>1, <2>x, <2>2, <2>3, <2>4
<1> QED
    BY <1>1, <1>2, SameDeltas DEF Paper!OversoldForCause

\* What SnapshotFollowsTrades says of the ticker t, with the least trade.
Follows(least, t) ==
    LET after == Max({0, held[t].qty + Paper!Traded(t)})
        goal == Goal(target, total, t)
        worth == copy[t].qty * copy[t].price
    IN  /\ copy[t].qty >= 0
        /\ at = "paper" => copy[t].qty = after
        /\ at = "control" =>
              Magnitude(after - copy[t].qty) * price[t] < least + Paper!Drift(t)
        /\ price[t] = held[t].price => Magnitude(worth - goal) < least + Paper!Drift(t)
        /\ (at = "paper" /\ orders[t].side # "HOLD" /\ ~Paper!Oversold(t)) =>
              worth = goal + held[t].qty * price[t] - Paper!Presumed(t)

LEMMA PaperFollows ==
    ASSUME PaperInv, at = "paper", NEW t \in DOMAIN held
    PROVE  Follows(Significant, t)
<1> DEFINE q == held[t].qty
           r == held[t].price
           p == price[t]
           n == orders[t].qty
           d == DeltaValue(Paper!Weights, target, total, t)
           goal == Goal(target, total, t)
           x == Paper!Presumed(t)
           drift == Paper!Drift(t)
           side == orders[t].side
           traded == Paper!Traded(t)
           s == copy[t].qty
           u == copy[t].price
           after == Max({0, q + traded})
<1>1. /\ q \in Nat /\ r \in Nat \ {0} /\ p \in Nat \ {0} /\ n \in Nat /\ goal \in Nat /\ d \in Int
      /\ side \in {"BUY", "SELL", "HOLD"}
      /\ d = goal - x
      /\ side = "HOLD" => Magnitude(d) < Significant /\ s = q /\ u = r
      /\ side = "BUY" => n * p = d /\ s = q + n /\ u = p
      /\ side = "SELL" => n * p = -d /\ s = Max({0, q - n}) /\ u = p
    BY PaperTicker
<1>x. x \in Nat /\ drift = Magnitude(q * r - x)
    BY Presumption
<1>2. /\ side = "BUY" => traded = n
      /\ side = "SELL" => traded = -n
      /\ side = "HOLD" => traded = 0
    BY <1>1, TradedOf
<1>3. Paper!Oversold(t) <=> q + traded < 0
    BY DEF Paper!Oversold
<1>5. Significant \in Nat \ {0}
    BY SignificantAssumption
<1>f. Follows(Significant, t) <=>
        /\ s >= 0 /\ s = after
        /\ p = r => Magnitude(s * u - goal) < Significant + drift
        /\ (side # "HOLD" /\ ~Paper!Oversold(t)) => s * u = goal + q * p - x
    BY DEF Follows
<1> HIDE DEF q, r, p, n, d, goal, x, drift, side, traded, s, u
<1> DEFINE y == q + traded
<1>6. traded \in Int /\ y \in Int /\ y = q + traded /\ after = Max({0, y})
    BY <1>1, <1>2
<1> HIDE DEF y, after
<1>7. /\ q + traded >= 0 => after = q + traded
      /\ q + traded < 0 => after = 0
    BY <1>1, <1>6, NotBelowZero
<1> DEFINE v == q * r
           z == q * p
<1>v. v \in Nat /\ z \in Nat /\ v = q * r /\ z = q * p /\ (p = r => z = v)
    BY <1>1
<1>d. drift = Magnitude(v - x)
    BY <1>x
<1> HIDE DEF v, z
<1>8. CASE side = "HOLD"
    <2>1. s = q /\ u = r /\ after = q
        BY <1>1, <1>2, <1>7, <1>8
    <2>2. s * u = v
        BY <1>v, <2>1
    <2>3. Magnitude(v - goal) < Significant + Magnitude(v - x)
        BY <1>1, <1>x, <1>v, <1>5, <1>8 DEF Magnitude
    <2> QED
        BY <1>1, <1>f, <1>d, <1>8, <2>1, <2>2, <2>3
<1>9. CASE side = "BUY"
    <2>1. s = q + n /\ u = p /\ after = s /\ s \in Nat
        BY <1>1, <1>2, <1>7, <1>9
    <2>2. s * u = z + n * p /\ n * p \in Int
        BY <1>1, <1>v, <2>1
    <2>3. s * u = goal + z - x
        BY <1>1, <1>x, <1>v, <1>9, <2>2
    <2>4. p = r => s * u - goal = v - x
        BY <1>1, <1>x, <1>v, <2>3
    <2>5. Magnitude(v - x) \in Nat
        BY <1>x, <1>v, MagnitudeIsNat
    <2> QED
        BY <1>5, <1>f, <1>v, <1>d, <1>9, <2>1, <2>3, <2>4, <2>5
<1>10. CASE side = "SELL"
    <2>1. u = p /\ s = Max({0, q - n}) /\ traded = -n
        BY <1>1, <1>2, <1>10
    <2>2. s = after /\ s \in Nat /\ (s = q - n \/ (q < n /\ s = 0))
        <3> DEFINE k == q - n
        <3>1. k \in Int /\ k = q - n /\ k = q + traded /\ s = Max({0, k})
            BY <1>1, <2>1
        <3> HIDE DEF k
        <3>2. s = (IF k < 0 THEN 0 ELSE k) /\ s \in Nat
            BY <3>1, NotBelowZero
        <3>3. after = (IF k < 0 THEN 0 ELSE k)
            BY <1>7, <3>1
        <3>4. k < 0 => q < n
            BY <1>1, <3>1
        <3> QED
            BY <3>1, <3>2, <3>3, <3>4
    <2>3. n * p = x - goal
        BY <1>1, <1>x, <1>10
    <2>4. ~(q < n) => s * u = goal + z - x
        <3>1. ~(q < n) => s * u = q * p - n * p
            BY <1>1, <2>1, <2>2
        <3> QED
            BY <1>1, <1>x, <1>v, <2>3, <3>1
    <2>5. Paper!Oversold(t) <=> q < n
        BY <1>1, <1>3, <2>1
    <2>6. Magnitude(v - x) \in Nat
        BY <1>x, <1>v, MagnitudeIsNat
    <2>7. p = r => Magnitude(s * u - goal) < Significant + Magnitude(v - x)
        <3>1. CASE p = r /\ ~(q < n)
            <4>1. s * u - goal = v - x
                BY <1>1, <1>x, <1>v, <2>4, <3>1
            <4> QED
                BY <1>5, <2>6, <4>1
        <3>2. CASE p = r /\ q < n
            <4>1. q * p < n * p
                BY <1>1, <3>2, LessAtPrice
            <4>2. v < x - goal
                BY <1>v, <2>3, <3>2, <4>1
            <4>3. s * u - goal = -goal
                BY <1>1, <2>1, <2>2, <3>2
            <4>4. Magnitude(-goal) = goal /\ Magnitude(v - x) = x - v
                BY <1>1, <1>x, <1>v, <4>2 DEF Magnitude
            <4> QED
                BY <1>1, <1>x, <1>v, <1>5, <4>2, <4>3, <4>4
        <3> QED
            BY <3>1, <3>2
    <2> QED
        BY <1>f, <1>v, <1>d, <1>10, <2>2, <2>4, <2>5, <2>7
<1> QED
    BY <1>1, <1>8, <1>9, <1>10

LEMMA ControlFollows ==
    ASSUME PaperInv, at = "control", NEW t \in DOMAIN held
    PROVE  Follows(MinNotional, t)
<1> DEFINE q == held[t].qty
           r == held[t].price
           n == orders[t].qty
           d == DeltaValue(Paper!Weights, target, total, t)
           goal == Goal(target, total, t)
           x == Paper!Presumed(t)
           drift == Paper!Drift(t)
           side == orders[t].side
           traded == Paper!Traded(t)
           s == copy[t].qty
           u == copy[t].price
           after == Max({0, q + traded})
<1>1. /\ q \in Nat /\ r \in Nat \ {0} /\ n \in Nat /\ goal \in Nat /\ d \in Int
      /\ side \in {"BUY", "SELL", "HOLD"}
      /\ d = goal - x
      /\ s \in Nat /\ u = r /\ s * u = goal /\ price[t] = r
      /\ side = "HOLD" => Magnitude(d) < MinNotional
      /\ side = "BUY" => n * r = d
      /\ side = "SELL" => n * r = -d
    BY ControlTicker
<1>x. x \in Nat /\ drift = Magnitude(q * r - x)
    BY Presumption
<1>2. /\ side = "BUY" => traded = n
      /\ side = "SELL" => traded = -n
      /\ side = "HOLD" => traded = 0
    BY <1>1, TradedOf
<1>3. MinNotional \in Nat \ {0} /\ Magnitude(0) = 0
    BY PaperAssumption DEF Magnitude
<1>f. Follows(MinNotional, t) <=>
        /\ s >= 0
        /\ Magnitude(after - s) * price[t] < MinNotional + drift
        /\ price[t] = r => Magnitude(s * u - goal) < MinNotional + drift
    BY DEF Follows
<1> HIDE DEF q, r, n, d, goal, x, drift, side, traded, s, u
<1> DEFINE y == q + traded
           v == q * r
<1>y. y \in Int /\ y = q + traded /\ after = Max({0, y})
    BY <1>1, <1>2
<1>v. v \in Nat /\ v = q * r /\ drift = Magnitude(v - x) /\ Magnitude(v - x) \in Nat
    BY <1>1, <1>x, MagnitudeIsNat
<1> HIDE DEF y, v, after
<1>m. after = (IF y < 0 THEN 0 ELSE y) /\ after \in Nat
    BY <1>y, NotBelowZero
<1>4. Magnitude(s * u - goal) < MinNotional + drift
    <2>1. s * u - goal = 0
        BY <1>1
    <2> QED
        BY <1>3, <1>v, <2>1
<1>s. Magnitude(after - s) * r = Magnitude(after * r - goal)
    <2>1. (after - s) * r = after * r - goal /\ after - s \in Int
        BY <1>1, <1>m
    <2> QED
        BY <1>1, <2>1, ScaledMagnitude
<1>5. CASE side = "HOLD"
    <2>1. after = q /\ after * r = v
        BY <1>1, <1>2, <1>y, <1>m, <1>v, <1>5
    <2>2. Magnitude(v - goal) < MinNotional + Magnitude(v - x)
        BY <1>1, <1>x, <1>v, <1>3, <1>5 DEF Magnitude
    <2> QED
        BY <1>1, <1>f, <1>v, <1>s, <1>4, <2>1, <2>2
<1>6. CASE side # "HOLD"
    <2>1. traded \in Int /\ traded * r = d
        BY <1>1, <1>2, <1>6
    <2>2. y * r = v + d
        BY <1>1, <1>y, <1>v, <2>1
    <2>3. CASE y < 0
        <3>1. y * r < 0 /\ after * r = 0
            BY <1>1, <1>y, <1>m, <2>3
        <3>2. v + goal - x < 0
            BY <1>1, <1>x, <1>v, <2>2, <3>1
        <3>3. Magnitude(0 - goal) = goal /\ Magnitude(v - x) = x - v
            BY <1>1, <1>x, <1>v, <3>2 DEF Magnitude
        <3> QED
            BY <1>1, <1>x, <1>f, <1>v, <1>3, <1>s, <1>4, <3>1, <3>2, <3>3
    <2>4. CASE ~(y < 0)
        <3>1. after * r - goal = v - x
            BY <1>1, <1>x, <1>y, <1>m, <1>v, <2>2, <2>4
        <3> QED
            BY <1>1, <1>f, <1>v, <1>3, <1>s, <1>4, <3>1
    <2> QED
        BY <2>3, <2>4
<1> QED
    BY <1>5, <1>6

LEMMA PaperSnapshot == PaperInv => Paper!SnapshotFollowsTrades
<1> SUFFICES ASSUME PaperInv, at \in {"paper", "control"}, NEW t \in DOMAIN held
             PROVE  Follows(IF at = "paper" THEN Significant ELSE MinNotional, t)
    BY SameMagnitude, SameExtremes DEF Paper!SnapshotFollowsTrades, Follows, Goal
<1>1. CASE at = "paper"
    BY <1>1, PaperFollows
<1>2. CASE at = "control"
    BY <1>2, ControlFollows
<1> QED
    BY <1>1, <1>2

LEMMA PaperTypes == PaperInv => Paper!TypeOK
<1> SUFFICES ASSUME PaperInv PROVE Paper!TypeOK
    OBVIOUS
<1>1. Held(held)
    BY PortfoliosAreHeld DEF PaperInv
<1>2. total \in 0..Paper!Base(held)
    <2>1. Base(held) \in Nat /\ total \in Nat /\ total <= Base(held)
        BY <1>1, HeldRows, BaseIsNat DEF PaperInv, WholeAmount
    <2> QED
        BY <2>1, SameValues
<1>t. ASSUME at \in {"paper", "control"}, DOMAIN orders = DOMAIN held, DOMAIN copy = DOMAIN held,
             \A t \in DOMAIN held : /\ orders[t].side \in {"BUY", "SELL", "HOLD"} /\ orders[t].qty \in Nat
                                    /\ copy[t].qty \in Nat /\ copy[t].price \in Prices
      PROVE  Paper!TypeOK
    BY <1>2, <1>t DEF PaperInv, Paper!TypeOK
<1>3. CASE at = "paper"
    <2>1. DOMAIN orders = DOMAIN held /\ DOMAIN copy = DOMAIN held /\ price \in [DOMAIN held -> Prices]
        BY <1>3 DEF PaperInv, Plan, Executed
    <2>2. ASSUME NEW t \in DOMAIN held
          PROVE  /\ orders[t].side \in {"BUY", "SELL", "HOLD"} /\ orders[t].qty \in Nat
                 /\ copy[t].qty \in Nat /\ copy[t].price \in Prices
        <3>1. held[t].price \in Prices /\ price[t] \in Prices
            BY <1>1, <2>1 DEF Held
        <3>2. /\ orders[t].side \in {"BUY", "SELL", "HOLD"} /\ orders[t].qty \in Nat /\ held[t].qty \in Nat
              /\ orders[t].side = "HOLD" => copy[t] = held[t]
              /\ orders[t].side = "BUY" =>
                    copy[t].qty = held[t].qty + orders[t].qty /\ copy[t].price = price[t]
              /\ orders[t].side = "SELL" =>
                    copy[t].qty = Max({0, held[t].qty - orders[t].qty}) /\ copy[t].price = price[t]
            BY <1>3, PaperTicker
        <3>3. Max({0, held[t].qty - orders[t].qty}) \in Nat
            <4> DEFINE x == held[t].qty - orders[t].qty
            <4>1. x \in Int
                BY <3>2
            <4> HIDE DEF x
            <4>2. Max({0, x}) \in Nat
                BY <4>1, NotBelowZero
            <4> QED
                BY <4>2 DEF x
        <3> QED
            BY <3>1, <3>2, <3>3
    <2> QED
        BY <1>t, <1>3, <2>1, <2>2
<1>4. CASE at = "control"
    <2>1. DOMAIN orders = DOMAIN held /\ DOMAIN copy = DOMAIN held
        BY <1>4 DEF PaperInv
    <2>2. ASSUME NEW t \in DOMAIN held
          PROVE  /\ orders[t].side \in {"BUY", "SELL", "HOLD"} /\ orders[t].qty \in Nat
                 /\ copy[t].qty \in Nat /\ copy[t].price \in Prices
        <3>1. held[t].price \in Prices
            BY <1>1 DEF Held
        <3> QED
            BY <1>4, <3>1, ControlTicker
    <2> QED
        BY <1>t, <1>4, <2>1, <2>2
<1>5. CASE at \notin {"paper", "control"}
    BY <1>2, <1>5 DEF PaperInv, Paper!TypeOK
<1> QED
    BY <1>3, <1>4, <1>5

\* RebalanceService and PortfolioControlService: more is sold than is held only
\* after a fallen price or by a weight and total that presume too much.
THEOREM OversoldWithCause == JobSpec => []OversoldForCause
BY PaperOversold, PaperAlways, JobsAreSteps, PTL DEF OversoldForCause

\* Both routes: the snapshot is what the trades make of the holdings.
THEOREM SnapshotsFollow == JobSpec => []SnapshotFollowsTrades
BY PaperSnapshot, PaperAlways, JobsAreSteps, PTL DEF SnapshotFollowsTrades

--------------------------------------------------------------------------------
\* WalkForward.  Sets of dates, as a request has them, and target weights.
DateSet(D) == D \subseteq Nat \ {0} /\ IsFiniteSet(D)
Framed(F) == DateSet(DOMAIN F) /\ \A s \in DOMAIN F : F[s] \in Int

LEMMA DaysAreDated ==
    ASSUME NEW D \in SUBSET (1..LastReturnDay)
    PROVE  DateSet(D)
<1> DEFINE L == 1..LastReturnDay
<1>1. IsFiniteSet(L) /\ L \subseteq Nat \ {0} /\ D \in SUBSET L
    <2>1. \A n \in Nat : IsFiniteSet(1..n)
        BY FS_Interval
    <2> QED
        BY <2>1, WalkAssumption
<1> HIDE DEF L
<1>2. IsFiniteSet(D)
    BY <1>1, FS_Subset
<1> QED
    BY <1>1, <1>2 DEF DateSet

LEMMA Extremes ==
    ASSUME NEW D, DateSet(D), D # {}
    PROVE  /\ Min(D) \in D /\ \A d \in D : Min(D) <= d
           /\ Max(D) \in D /\ \A d \in D : d <= Max(D)
<1>1. D \in SUBSET Nat /\ IsFiniteSet(D)
    BY DEF DateSet
<1> QED
    BY <1>1, MinOfNats, MaxOfNats

\* A set's maximum is the element that none exceeds.
LEMMA MaxIs ==
    ASSUME NEW D, DateSet(D), NEW d \in D, \A e \in D : e <= d
    PROVE  Max(D) = d
<1>1. Max(D) \in D /\ d <= Max(D) /\ Max(D) <= d
    BY Extremes
<1>2. d \in Nat /\ Max(D) \in Nat
    BY <1>1 DEF DateSet
<1> QED
    BY <1>1, <1>2

LEMMA PartsAreDated ==
    ASSUME NEW D, DateSet(D), NEW T, T \subseteq D
    PROVE  DateSet(T)
BY FS_Subset DEF DateSet

MonthOf(d) == (d - 1) \div DaysPerMonth + 1

LEMMA QuotientRises ==
    ASSUME NEW a \in Nat, NEW b \in Nat, a <= b, NEW k \in Nat \ {0}
    PROVE  a \div k \in Nat /\ b \div k \in Nat /\ a \div k <= b \div k
<1> DEFINE x == a \div k
           y == b \div k
<1>1. /\ x \in Nat /\ y \in Nat
      /\ k * x <= a /\ b < k * (y + 1)
    OBVIOUS
<1> HIDE DEF x, y
<1>2. x < y + 1
    <2>1. k * x < k * (y + 1)
        <3>1. k * x \in Int /\ k * (y + 1) \in Int
            BY <1>1
        <3> QED
            BY <1>1, <3>1
    <2> QED
        BY <1>1, <2>1
<1>3. x \in Nat /\ y \in Nat /\ x <= y
    BY <1>1, <1>2
<1> QED
    BY <1>3 DEF x, y

LEMMA MonthRises ==
    ASSUME NEW d \in Nat \ {0}, NEW e \in Nat \ {0}, d <= e
    PROVE  MonthOf(d) \in Nat \ {0} /\ MonthOf(e) \in Nat \ {0} /\ MonthOf(d) <= MonthOf(e)
<1> DEFINE a == d - 1
           b == e - 1
<1>1. a \in Nat /\ b \in Nat /\ a <= b /\ DaysPerMonth \in Nat \ {0}
    BY WalkAssumption
<1>2. MonthOf(d) = a \div DaysPerMonth + 1 /\ MonthOf(e) = b \div DaysPerMonth + 1
    BY DEF MonthOf
<1> HIDE DEF a, b
<1> DEFINE x == a \div DaysPerMonth
           y == b \div DaysPerMonth
<1>3. x \in Nat /\ y \in Nat /\ x <= y
    BY <1>1, QuotientRises
<1>4. MonthOf(d) = x + 1 /\ MonthOf(e) = y + 1
    BY <1>2
<1> HIDE DEF x, y
<1> QED
    BY <1>3, <1>4

--------------------------------------------------------------------------------
\* The dates that are walked, the first ones of a month among them, and those
\* up to d that had a signal to rebalance to.
Walked(D) == D \ {Min(D)}
Starts(D) == {m \in Walked(D) : \A e \in Walked(D) : e < m => MonthOf(e) # MonthOf(m)}
TurnsOf(D, F, d) == {m \in Starts(D) : m <= d /\ \E s \in DOMAIN F : s < m}
WalkedTo(D, p) == {e \in Walked(D) : e <= p}
Known(F, d) == {s \in DOMAIN F : s < d}

LEMMA TurnsAreDated ==
    ASSUME NEW D, DateSet(D), NEW F, NEW d
    PROVE  DateSet(TurnsOf(D, F, d)) /\ TurnsOf(D, F, d) \subseteq Walked(D)
<1>1. TurnsOf(D, F, d) \subseteq Walked(D) /\ TurnsOf(D, F, d) \subseteq D
    BY DEF TurnsOf, Starts, Walked
<1> QED
    BY <1>1, PartsAreDated

\* The date after p.
NextAfter(D, p, d) == DateSet(D) /\ p \in D /\ d \in D /\ p < d /\ \A e \in D : e > p => d <= e

LEMMA NextWalked ==
    ASSUME NEW D, NEW p, NEW d, NextAfter(D, p, d)
    PROVE  /\ d \in Walked(D) /\ d \in Nat \ {0} /\ p \in Nat \ {0} /\ d # Min(D)
           /\ WalkedTo(D, d) = WalkedTo(D, p) \cup {d}
           /\ \A e \in Walked(D) : e < d => e <= p
           /\ p # Min(D) => p \in Walked(D)
           /\ p = Min(D) => WalkedTo(D, p) = {}
<1>1. DateSet(D) /\ p \in D /\ d \in D /\ p < d /\ \A e \in D : e > p => d <= e
    BY DEF NextAfter
<1>2. \A e \in D : e \in Nat \ {0} /\ Min(D) \in D /\ Min(D) <= e
    BY <1>1, Extremes DEF DateSet
<1>3. d # Min(D)
    BY <1>1, <1>2
<1>4. \A e \in D : e < d <=> e <= p
    BY <1>1, <1>2
<1>5. \A e \in Walked(D) : e \in D /\ e # Min(D)
    BY DEF Walked
<1>6. d \in Walked(D) /\ (p # Min(D) => p \in Walked(D))
    BY <1>1, <1>3 DEF Walked
<1>7. \A e \in Walked(D) : e <= d <=> (e <= p \/ e = d)
    BY <1>1, <1>2, <1>4, <1>5
<1>8. WalkedTo(D, d) = WalkedTo(D, p) \cup {d}
    BY <1>6, <1>7 DEF WalkedTo
<1>9. p = Min(D) => WalkedTo(D, p) = {}
    BY <1>2, <1>5 DEF WalkedTo
<1> QED
    BY <1>1, <1>2, <1>3, <1>4, <1>5, <1>6, <1>8, <1>9

\* last_month tells the first walked date of a month from the others.
LEMMA StartsAreNoticed ==
    ASSUME NEW D, NEW p, NEW d, NextAfter(D, p, d)
    PROVE  /\ MonthOf(d) \in Nat \ {0}
           /\ d \in Starts(D) <=> (p = Min(D) \/ MonthOf(p) # MonthOf(d))
<1>1. /\ d \in Walked(D) /\ d \in Nat \ {0} /\ p \in Nat \ {0} /\ p < d
      /\ \A e \in Walked(D) : e < d => e <= p
      /\ p # Min(D) => p \in Walked(D)
      /\ p = Min(D) => WalkedTo(D, p) = {}
    BY NextWalked DEF NextAfter
<1>2. \A e \in Walked(D) : e \in Nat \ {0}
    BY DEF Walked, NextAfter, DateSet
<1>3. MonthOf(d) \in Nat \ {0}
    BY <1>1, MonthRises
<1>4. CASE p = Min(D)
    <2>1. \A e \in Walked(D) : ~(e <= p)
        BY <1>1, <1>4 DEF WalkedTo
    <2> QED
        BY <1>1, <1>3, <1>4, <2>1 DEF Starts
<1>5. CASE p # Min(D) /\ MonthOf(p) = MonthOf(d)
    BY <1>1, <1>3, <1>5 DEF Starts
<1>6. CASE p # Min(D) /\ MonthOf(p) # MonthOf(d)
    <2>1. ASSUME NEW e \in Walked(D), e < d
          PROVE  MonthOf(e) # MonthOf(d)
        <3>1. e \in Nat \ {0} /\ e <= p
            BY <1>1, <1>2, <2>1
        <3> DEFINE a == MonthOf(e)
                   b == MonthOf(p)
                   c == MonthOf(d)
        <3>2. a \in Nat /\ b \in Nat /\ c \in Nat /\ a <= b /\ b <= c /\ b # c
            BY <1>1, <1>6, <3>1, MonthRises
        <3> HIDE DEF a, b, c
        <3>3. a # c
            BY <3>2
        <3> QED
            BY <3>3 DEF a, c
    <2> QED
        BY <1>1, <1>3, <1>6, <2>1 DEF Starts
<1> QED
    BY <1>3, <1>4, <1>5, <1>6

\* The next date is a turn or adds none.
LEMMA NextTurns ==
    ASSUME NEW D, NEW F, NEW p, NEW d, NextAfter(D, p, d)
    PROVE  /\ d \in Starts(D) /\ Known(F, d) # {} =>
                 d \in TurnsOf(D, F, d) /\ Max(TurnsOf(D, F, d)) = d
           /\ ~(d \in Starts(D) /\ Known(F, d) # {}) => TurnsOf(D, F, d) = TurnsOf(D, F, p)
<1>1. /\ d \in Walked(D) /\ d \in Nat \ {0} /\ p \in Nat \ {0} /\ p < d /\ DateSet(D)
      /\ \A e \in Walked(D) : e < d => e <= p
    BY NextWalked DEF NextAfter
<1>2. \A e \in Starts(D) : e \in Walked(D) /\ e \in Nat \ {0}
    BY <1>1 DEF Starts, Walked, DateSet
<1>3. ASSUME d \in Starts(D), Known(F, d) # {}
      PROVE  d \in TurnsOf(D, F, d) /\ Max(TurnsOf(D, F, d)) = d
    <2>1. d \in TurnsOf(D, F, d)
        BY <1>1, <1>3 DEF TurnsOf, Known
    <2>2. \A e \in TurnsOf(D, F, d) : e <= d
        BY DEF TurnsOf
    <2>3. DateSet(TurnsOf(D, F, d))
        BY <1>1, TurnsAreDated
    <2> DEFINE T == TurnsOf(D, F, d)
    <2>4. Max(T) = d
        <3>1. DateSet(T) /\ d \in T /\ \A e \in T : e <= d
            BY <2>1, <2>2, <2>3
        <3> HIDE DEF T
        <3> QED
            BY <3>1, MaxIs
    <2> QED
        BY <2>1, <2>4
<1>4. ASSUME ~(d \in Starts(D) /\ Known(F, d) # {})
      PROVE  TurnsOf(D, F, d) = TurnsOf(D, F, p)
    <2>1. \A m \in Starts(D) : (\E s \in DOMAIN F : s < m) => m # d
        BY <1>4 DEF Known
    <2>2. \A m \in Starts(D) : m # d => (m <= d <=> m <= p)
        BY <1>1, <1>2
    <2> QED
        BY <2>1, <2>2 DEF TurnsOf
<1> QED
    BY <1>3, <1>4

--------------------------------------------------------------------------------
\* Rows of BacktestReturns as they should be for the dates up to p.
Returns == [signal : Nat, rebalance : Nat, date : Nat, turnover : 0..Whole]

RowRight(entry, D, F) ==
    /\ entry.rebalance = Max(TurnsOf(D, F, entry.date))
    /\ entry.signal = Max(Known(F, entry.rebalance))
    /\ entry.turnover # 0 => entry.date = entry.rebalance

RowsOf(rows, D, F, p) ==
    /\ rows \in Seq(Returns)
    /\ \A i \in DOMAIN rows : rows[i].date \in WalkedTo(D, p) /\ TurnsOf(D, F, rows[i].date) # {}
    /\ \A d \in WalkedTo(D, p) : TurnsOf(D, F, d) # {} => \E i \in DOMAIN rows : rows[i].date = d
    /\ \A i, j \in DOMAIN rows : i < j => rows[i].date < rows[j].date
    /\ \A i \in DOMAIN rows : RowRight(rows[i], D, F)

LEMMA NoRowYet ==
    ASSUME NEW D, NEW F, NEW p, NEW d, NextAfter(D, p, d), NEW rows, RowsOf(rows, D, F, p),
           TurnsOf(D, F, d) = {}
    PROVE  RowsOf(rows, D, F, d)
<1>1. WalkedTo(D, d) = WalkedTo(D, p) \cup {d}
    BY NextWalked
<1> QED
    BY <1>1 DEF RowsOf

LEMMA RowAdded ==
    ASSUME NEW D, NEW F, NEW p, NEW d, NextAfter(D, p, d), NEW rows, RowsOf(rows, D, F, p),
           TurnsOf(D, F, d) # {}, NEW entry \in Returns, entry.date = d, RowRight(entry, D, F),
           NEW a, a = Append(rows, entry)
    PROVE  RowsOf(a, D, F, d)
<1> DEFINE n == Len(rows)
<1>1. /\ rows \in Seq(Returns)
      /\ \A i \in DOMAIN rows : rows[i].date \in WalkedTo(D, p) /\ TurnsOf(D, F, rows[i].date) # {}
      /\ \A e \in WalkedTo(D, p) : TurnsOf(D, F, e) # {} => \E i \in DOMAIN rows : rows[i].date = e
      /\ \A i, j \in DOMAIN rows : i < j => rows[i].date < rows[j].date
      /\ \A i \in DOMAIN rows : RowRight(rows[i], D, F)
    BY DEF RowsOf
<1>2. /\ a \in Seq(Returns) /\ n \in Nat /\ DOMAIN rows = 1..n /\ DOMAIN a = 1..(n + 1)
      /\ \A i \in 1..n : a[i] = rows[i]
      /\ a[n + 1] = entry
    BY <1>1
<1> HIDE DEF n
<1>3. WalkedTo(D, d) = WalkedTo(D, p) \cup {d} /\ \A e \in WalkedTo(D, p) : e < d /\ e \in Nat
    <2>1. WalkedTo(D, d) = WalkedTo(D, p) \cup {d} /\ p \in Nat /\ d \in Nat /\ p < d /\ DateSet(D)
        BY NextWalked DEF NextAfter
    <2>2. \A e \in WalkedTo(D, p) : e <= p /\ e \in Nat
        BY <2>1 DEF WalkedTo, Walked, DateSet
    <2> QED
        BY <2>1, <2>2
<1>4. \A i \in 1..(n + 1) : i \in 1..n \/ i = n + 1
    BY <1>2
<1>5. ASSUME NEW i \in 1..(n + 1)
      PROVE  /\ a[i].date \in WalkedTo(D, d) /\ TurnsOf(D, F, a[i].date) # {}
             /\ RowRight(a[i], D, F)
    BY <1>1, <1>2, <1>3, <1>4
<1>6. ASSUME NEW e \in WalkedTo(D, d), TurnsOf(D, F, e) # {}
      PROVE  \E i \in 1..(n + 1) : a[i].date = e
    <2>1. CASE e \in WalkedTo(D, p)
        <3>1. PICK i \in 1..n : rows[i].date = e
            BY <1>1, <1>2, <1>6, <2>1
        <3>2. i \in 1..(n + 1) /\ a[i].date = e
            BY <1>2, <3>1
        <3> QED
            BY <3>2
    <2>2. CASE e = d
        <3>1. n + 1 \in 1..(n + 1) /\ a[n + 1].date = d
            BY <1>2
        <3> QED
            BY <2>2, <3>1
    <2> QED
        BY <1>3, <2>1, <2>2
<1>7. ASSUME NEW i \in 1..(n + 1), NEW j \in 1..(n + 1), i < j
      PROVE  a[i].date < a[j].date
    <2>1. CASE j \in 1..n
        BY <1>1, <1>2, <1>4, <1>7, <2>1
    <2>2. CASE j = n + 1
        <3>1. i \in 1..n
            BY <1>2, <1>7, <2>2
        <3>2. rows[i].date < d
            BY <1>1, <1>2, <1>3, <3>1
        <3> QED
            BY <1>2, <2>2, <3>1, <3>2
    <2> QED
        BY <1>4, <2>1, <2>2
<1> QED
    BY <1>2, <1>5, <1>6, <1>7 DEF RowsOf

--------------------------------------------------------------------------------
\* The walk over the return dates D by the weights F, at the date p.
Walking(D, F, p, m, c, s, r, rows) ==
    /\ m = (IF p = Min(D) THEN 0 ELSE MonthOf(p))
    /\ c \in 0..Whole
    /\ TurnsOf(D, F, p) = {} => r = 0 /\ s = 0
    /\ TurnsOf(D, F, p) # {} => r = Max(TurnsOf(D, F, p)) /\ s = Max(Known(F, r))
    /\ RowsOf(rows, D, F, p)

LEMMA WalkStarts ==
    ASSUME NEW D, DateSet(D), D # {}, NEW F
    PROVE  Walking(D, F, Min(D), 0, 0, 0, 0, <<>>)
<1>1. Whole \in Nat
    BY WalkAssumption
<1>2. WalkedTo(D, Min(D)) = {}
    <2>1. \A e \in D : e \in Nat /\ Min(D) \in Nat /\ Min(D) <= e
        BY Extremes DEF DateSet
    <2> QED
        BY <2>1 DEF WalkedTo, Walked
<1>3. TurnsOf(D, F, Min(D)) = {}
    <2>1. TurnsOf(D, F, Min(D)) \subseteq WalkedTo(D, Min(D))
        BY DEF TurnsOf, Starts, WalkedTo
    <2> QED
        BY <1>2, <2>1
<1>4. RowsOf(<<>>, D, F, Min(D))
    BY <1>2 DEF RowsOf
<1> QED
    BY <1>1, <1>3, <1>4 DEF Walking

\* The signal of a turn is a date before it.
LEMMA SignalBefore ==
    ASSUME NEW F, Framed(F), NEW r, Known(F, r) # {}
    PROVE  Max(Known(F, r)) \in Known(F, r) /\ Max(Known(F, r)) \in Nat \ {0}
<1>1. DateSet(Known(F, r))
    <2>1. Known(F, r) \subseteq DOMAIN F
        BY DEF Known
    <2> QED
        BY <2>1, PartsAreDated DEF Framed
<1> QED
    BY <1>1, Extremes DEF DateSet

LEMMA TurnHasSignal ==
    ASSUME NEW D, DateSet(D), NEW F, Framed(F), NEW d, TurnsOf(D, F, d) # {}
    PROVE  /\ Max(TurnsOf(D, F, d)) \in Nat \ {0} /\ Max(TurnsOf(D, F, d)) <= d
           /\ Known(F, Max(TurnsOf(D, F, d))) # {}
<1>1. DateSet(TurnsOf(D, F, d)) /\ Max(TurnsOf(D, F, d)) \in TurnsOf(D, F, d)
    BY TurnsAreDated, Extremes
<1> QED
    BY <1>1 DEF TurnsOf, Known, DateSet

\* The first date of a month after a signal is rebalanced.
Turning(F, d, m) == MonthOf(d) # m /\ Known(F, d) # {}

\* What a date does to signal, rebalance and rows, with the turnover t.
DateDoes(F, d, m, s, r, rows, t, s2, r2, rows2) ==
    /\ t \in 0..Whole /\ (~Turning(F, d, m) => t = 0)
    /\ s2 = (IF Turning(F, d, m) THEN Max(Known(F, d)) ELSE s)
    /\ r2 = (IF Turning(F, d, m) THEN d ELSE r)
    /\ rows2 = (IF s2 = 0 THEN rows
                ELSE Append(rows, [signal |-> s2, rebalance |-> r2, date |-> d, turnover |-> t]))

LEMMA WalkGoesOn ==
    ASSUME NEW D, NEW F, Framed(F), NEW p, NEW d, NextAfter(D, p, d),
           NEW m, NEW c, NEW s, NEW r, NEW rows, Walking(D, F, p, m, c, s, r, rows),
           NEW t, NEW s2, NEW r2, NEW rows2, DateDoes(F, d, m, s, r, rows, t, s2, r2, rows2),
           NEW c2 \in 0..Whole
    PROVE  Walking(D, F, d, MonthOf(d), c2, s2, r2, rows2)
<1> DEFINE B == Turning(F, d, m)
<1>d. /\ t \in 0..Whole /\ (~B => t = 0)
      /\ s2 = (IF B THEN Max(Known(F, d)) ELSE s)
      /\ r2 = (IF B THEN d ELSE r)
      /\ rows2 = (IF s2 = 0 THEN rows
                  ELSE Append(rows, [signal |-> s2, rebalance |-> r2, date |-> d, turnover |-> t]))
    BY DEF DateDoes
<1>1. /\ m = (IF p = Min(D) THEN 0 ELSE MonthOf(p))
      /\ TurnsOf(D, F, p) = {} => r = 0 /\ s = 0
      /\ TurnsOf(D, F, p) # {} => r = Max(TurnsOf(D, F, p)) /\ s = Max(Known(F, r))
      /\ RowsOf(rows, D, F, p)
    BY DEF Walking
<1>2. /\ DateSet(D) /\ d \in Nat \ {0} /\ d # Min(D)
      /\ MonthOf(d) \in Nat \ {0}
      /\ d \in Starts(D) <=> (p = Min(D) \/ MonthOf(p) # MonthOf(d))
    <2>1. DateSet(D)
        BY DEF NextAfter
    <2>2. d \in Nat \ {0} /\ d # Min(D)
        BY NextWalked
    <2>3. /\ MonthOf(d) \in Nat \ {0}
          /\ d \in Starts(D) <=> (p = Min(D) \/ MonthOf(p) # MonthOf(d))
        BY StartsAreNoticed
    <2> QED
        BY <2>1, <2>2, <2>3
<1>3. B <=> d \in Starts(D) /\ Known(F, d) # {}
    BY <1>1, <1>2 DEF Turning
<1> DEFINE T == TurnsOf(D, F, d)
<1>4. /\ T = {} => r2 = 0 /\ s2 = 0
      /\ T # {} => r2 = Max(T) /\ s2 = Max(Known(F, r2))
      /\ B => r2 = d
    <2>1. CASE B
        <3>1. d \in T /\ Max(T) = d
            BY <1>3, <2>1, NextTurns
        <3> QED
            BY <1>d, <2>1, <3>1
    <2>2. CASE ~B
        <3>1. T = TurnsOf(D, F, p)
            BY <1>3, <2>2, NextTurns
        <3> QED
            BY <1>1, <1>d, <2>2, <3>1
    <2> QED
        BY <2>1, <2>2
<1>5. T # {} => r2 \in Nat \ {0} /\ s2 \in Nat \ {0}
    <2>1. ASSUME T # {}
          PROVE  r2 \in Nat \ {0} /\ s2 \in Nat \ {0}
        <3>1. Max(T) \in Nat \ {0} /\ Known(F, Max(T)) # {}
            BY <1>2, <2>1, TurnHasSignal
        <3>2. Max(Known(F, Max(T))) \in Nat \ {0}
            BY <3>1, SignalBefore
        <3> QED
            BY <1>4, <2>1, <3>1, <3>2
    <2> QED
        BY <2>1
<1>6. t \in 0..Whole /\ (t # 0 => d = r2)
    <2>1. t \in 0..Whole /\ (~B => t = 0)
        BY DEF DateDoes
    <2>2. B => r2 = d
        BY <1>4
    <2> QED
        BY <2>1, <2>2
<1>7. RowsOf(rows2, D, F, d)
    <2>1. CASE T = {}
        <3>1. rows2 = rows
            BY <1>4, <1>d, <2>1
        <3> QED
            BY <1>1, <2>1, <3>1, NoRowYet
    <2>2. CASE T # {}
        <3> DEFINE entry == [signal |-> s2, rebalance |-> r2, date |-> d, turnover |-> t]
        <3>1. rows2 = Append(rows, entry)
            BY <1>5, <1>d, <2>2
        <3>2. entry \in Returns /\ entry.date = d /\ entry.rebalance = r2 /\ entry.signal = s2 /\ entry.turnover = t
            BY <1>2, <1>5, <1>6, <2>2 DEF Returns
        <3> HIDE DEF entry
        <3>3. entry.turnover # 0 => entry.date = entry.rebalance
            BY <1>6, <3>2
        <3>4. RowRight(entry, D, F)
            BY <1>4, <2>2, <3>2, <3>3 DEF RowRight
        <3> QED
            BY <1>1, <2>2, <3>1, <3>2, <3>4, RowAdded
    <2> QED
        BY <2>1, <2>2
<1> QED
    BY <1>2, <1>4, <1>7 DEF Walking

--------------------------------------------------------------------------------
\* The operators of WalkForward, for its state.
LEMMA SameWalk ==
    /\ Walk!Past = Walked(dates)
    /\ \A d : Walk!Month(d) = MonthOf(d)
    /\ \A d : Walk!Available(d) = Known(weights[Head(todo)], d)
    /\ \A v, d : Walk!Turns(v, d) = TurnsOf(dates, weights[v], d)
<1>1. Walk!Past = Walked(dates)
    BY SameExtremes DEF Walk!Past, Walked
<1>2. \A d : Walk!Month(d) = MonthOf(d)
    BY DEF Walk!Month, MonthOf
<1>3. \A d : Walk!Available(d) = Known(weights[Head(todo)], d)
    BY DEF Walk!Available, Walk!Frame, Known
<1>4. \A m : Walk!IsMonthStart(m) <=> m \in Starts(dates)
    BY <1>1, <1>2 DEF Walk!IsMonthStart, Starts
<1>5. \A v, d : Walk!Turns(v, d) = TurnsOf(dates, weights[v], d)
    <2>1. \A m : m \in Starts(dates) => m \in Walked(dates)
        BY DEF Starts
    <2> QED
        BY <1>1, <1>4, <2>1 DEF Walk!Turns, TurnsOf
<1> QED
    BY <1>1, <1>2, <1>3, <1>5

LEMMA SinglesAreVariants ==
    Walk!Single \in Walk!VariantSet /\ Variants \in Seq(Walk!VariantSet) /\ DOMAIN Variants # {}
<1>1. Variants \in Seq(Walk!VariantSet) /\ Variants # <<>>
    BY WalkAssumption DEF Walk!VariantSet
<1> DEFINE n == Len(Variants)
           V == Walk!VariantSet
<1>2. n \in Nat /\ n # 0 /\ DOMAIN Variants = 1..n
    BY <1>1
<1> HIDE DEF n
<1>3. n \in DOMAIN Variants
    BY <1>2
<1> QED
    BY <1>1, <1>3 DEF Walk!Single, Walk!VariantSet, n

\* The variants of a request, walked and to be walked.
Asked == DOMAIN results \cup Range(todo)

WalkInv ==
    /\ dates \in SUBSET (1..LastReturnDay)
    /\ DOMAIN weights \subseteq Walk!VariantSet /\ \A v \in DOMAIN weights : weights[v] \in Frames
    /\ todo \in Seq(Walk!VariantSet)
    /\ Asked \in {{Walk!Single}, Walk!VariantSet}
    /\ DOMAIN results \subseteq DOMAIN weights /\ flushed \subseteq DOMAIN results
    /\ \A v \in DOMAIN results :
          dates # {} /\ RowsOf(results[v], dates, weights[v], Max(dates))
    /\ seen = 0 => month = 0 /\ current = 0 /\ signal = 0 /\ rebalance = 0 /\ records = <<>>
    /\ seen # 0 =>
          /\ seen \in dates /\ todo # <<>> /\ Head(todo) \in DOMAIN weights
          /\ Walking(dates, weights[Head(todo)], seen, month, current, signal, rebalance, records)
    /\ status \in {"running", "stored", "invalid", "failed"}
    /\ status = "stored" => stored = results /\ todo = <<>>
    /\ status # "stored" => stored = Walk!NoResults

LEMMA FramesAreFramed ==
    ASSUME NEW F \in Frames
    PROVE  Framed(F)
<1>1. DOMAIN F \in SUBSET (1..LastReturnDay) /\ \A s \in DOMAIN F : F[s] \in Int
    BY WalkAssumption
<1> QED
    BY <1>1, DaysAreDated DEF Framed

LEMMA WalkInit == Walk!Init => WalkInv
<1> SUFFICES ASSUME Walk!Init PROVE WalkInv
    OBVIOUS
<1>1. /\ dates \in ReturnDates /\ seen = 0 /\ month = 0 /\ current = 0 /\ signal = 0
      /\ rebalance = 0 /\ records = <<>> /\ results = Walk!NoResults /\ flushed = {}
      /\ stored = Walk!NoResults /\ status = "running"
    BY DEF Walk!Init
<1>2. dates \in SUBSET (1..LastReturnDay)
    BY <1>1, WalkAssumption
<1>3. DOMAIN results = {}
    BY <1>1 DEF Walk!NoResults
<1>4. CASE todo = <<Walk!Single>> /\ weights \in [{Walk!Single} -> Frames]
    <2>1. DOMAIN todo = {1} /\ todo[1] = Walk!Single /\ todo \in Seq(Walk!VariantSet)
        BY <1>4, SinglesAreVariants
    <2>2. Asked = {Walk!Single}
        BY <1>3, <2>1 DEF Asked, Range
    <2> QED
        BY <1>1, <1>2, <1>3, <1>4, <2>1, <2>2, SinglesAreVariants DEF WalkInv
<1>5. CASE todo = Variants /\ \E V \in SUBSET Walk!VariantSet : weights \in [V -> Frames]
    <2>1. Asked = Walk!VariantSet
        BY <1>3, <1>5 DEF Asked, Range, Walk!VariantSet
    <2> QED
        BY <1>1, <1>2, <1>3, <1>5, <2>1, SinglesAreVariants DEF WalkInv
<1> QED
    BY <1>4, <1>5 DEF Walk!Init

\* A walk that is under way has its variant's weights.
LEMMA VariantAtHand ==
    ASSUME WalkInv, Walk!Valid, todo # <<>>
    PROVE  /\ dates # {} /\ DateSet(dates)
           /\ Head(todo) \in DOMAIN weights /\ Framed(weights[Head(todo)])
           /\ Head(todo) \in Walk!VariantSet
<1>1. todo \in Seq(Walk!VariantSet)
    BY DEF WalkInv
<1>2. 1 \in DOMAIN todo /\ Head(todo) = todo[1] /\ Head(todo) \in Walk!VariantSet
    BY <1>1
<1>3. Head(todo) \in DOMAIN weights
    BY <1>2 DEF Walk!Valid, Walk!Complete
<1>4. weights[Head(todo)] \in Frames
    BY <1>3 DEF WalkInv
<1> QED
    BY <1>2, <1>3, <1>4, FramesAreFramed, DaysAreDated DEF WalkInv, Walk!Valid, Walk!NonEmpty

LEMMA FirstStep == WalkInv /\ Walk!SkipFirst => WalkInv'
<1> SUFFICES ASSUME WalkInv, Walk!SkipFirst PROVE WalkInv'
    OBVIOUS
<1>1. /\ Walk!Valid /\ todo # <<>> /\ seen = 0 /\ seen' = Min(dates)
      /\ UNCHANGED <<dates, weights, todo, month, current, signal, rebalance,
                     records, results, flushed, stored, status>>
    BY SameExtremes DEF Walk!SkipFirst
<1>2. dates # {} /\ DateSet(dates) /\ Head(todo) \in DOMAIN weights
    BY <1>1, VariantAtHand
<1>3. Min(dates) \in dates /\ Min(dates) # 0
    BY <1>2, Extremes DEF DateSet
<1>4. Walking(dates, weights[Head(todo)], Min(dates), 0, 0, 0, 0, <<>>)
    BY <1>2, WalkStarts
<1>5. month = 0 /\ current = 0 /\ signal = 0 /\ rebalance = 0 /\ records = <<>>
    BY <1>1 DEF WalkInv
<1>6. Asked' = Asked
    BY <1>1 DEF Asked
<1> QED
    BY <1>1, <1>2, <1>3, <1>4, <1>5, <1>6 DEF WalkInv

\* A weight that is clipped and normalised is one.
LEMMA ProposedWeight ==
    ASSUME NEW d, Framed(weights[Head(todo)]), Walk!Available(d) # {}
    PROVE  Walk!Proposed(d) \in 0..Whole
<1> DEFINE F == weights[Head(todo)]
           x == F[Max(Known(F, d))]
           y == Max({0, x})
<1>1. Known(F, d) # {} /\ Walk!Available(d) = Known(F, d)
    BY SameWalk
<1>2. Max(Known(F, d)) \in DOMAIN F
    <2> HIDE DEF F
    <2> QED
        BY <1>1, SignalBefore DEF Known, F
<1>3. x \in Int /\ Whole \in Nat
    BY <1>2, WalkAssumption DEF Framed
<1>4. Walk!Proposed(d) = Min({Whole, y})
    BY <1>1, SameExtremes DEF Walk!Proposed, Walk!Frame
<1> HIDE DEF x
<1>5. y \in Nat
    BY <1>3, NotBelowZero
<1> HIDE DEF y
<1>6. Min({Whole, y}) \in 0..Whole
    <2> DEFINE z == Min({Whole, y})
    <2>0. Whole \in Int /\ y \in Int
        BY <1>3, <1>5
    <2>1. z \in {Whole, y} /\ z <= Whole /\ z <= y
        BY <2>0, MinOfTwo
    <2> HIDE DEF z
    <2>2. z \in 0..Whole
        BY <1>3, <1>5, <2>1
    <2> QED
        BY <2>2 DEF z
<1> QED
    BY <1>4, <1>6

LEMMA DateStep == WalkInv /\ Walk!WalkDate => WalkInv'
<1> SUFFICES ASSUME WalkInv, Walk!WalkDate PROVE WalkInv'
    OBVIOUS
<1> DEFINE D == dates
           F == weights[Head(todo)]
           d == Walk!NextDate
           B == Walk!Rebalances(d)
           t == IF B THEN Walk!Magnitude(Walk!Proposed(d) - current) ELSE 0
<1>1. /\ Walk!Valid /\ todo # <<>> /\ seen # 0 /\ Walk!Left
      /\ UNCHANGED <<dates, weights, todo, results, flushed, stored, status>>
    BY DEF Walk!WalkDate
<1>2. /\ seen' = d
      /\ month' = MonthOf(d)
      /\ current' = (IF B THEN Walk!Proposed(d) ELSE current)
      /\ signal' = (IF B THEN Max(Known(F, d)) ELSE signal)
      /\ rebalance' = (IF B THEN d ELSE rebalance)
      /\ records' = (IF signal' = 0 THEN records
                     ELSE Append(records, [signal |-> signal', rebalance |-> rebalance',
                                           date |-> d, turnover |-> t]))
    BY SameWalk, SameExtremes DEF Walk!WalkDate, Walk!MonthAfter, Walk!Return
<1>3. D # {} /\ DateSet(D) /\ Framed(F) /\ Head(todo) \in DOMAIN weights
    BY <1>1, VariantAtHand
<1>4. seen \in D /\ Walking(D, F, seen, month, current, signal, rebalance, records)
    BY <1>1 DEF WalkInv
<1>5. NextAfter(D, seen, d)
    <2> DEFINE L == {e \in D : e > seen}
    <2>1. L # {} /\ d = Min(L)
        BY <1>1, SameExtremes DEF Walk!Left, Walk!NextDate
    <2>2. L \subseteq D
        OBVIOUS
    <2>3. DateSet(L)
        <3> HIDE DEF L, D
        <3> QED
            BY <1>3, <2>2, PartsAreDated
    <2>4. Min(L) \in L /\ \A e \in L : Min(L) <= e
        <3> HIDE DEF L
        <3> QED
            BY <2>1, <2>3, Extremes
    <2>5. d \in L /\ \A e \in L : d <= e
        BY <2>1, <2>4
    <2>6. seen \in Nat /\ \A e \in D : e \in Nat
        BY <1>3, <1>4 DEF DateSet
    <2> QED
        BY <1>3, <1>4, <2>5, <2>6 DEF NextAfter
<1>6. B <=> MonthOf(d) # month /\ Known(F, d) # {}
    BY SameWalk DEF Walk!Rebalances
<1>7. current \in 0..Whole /\ Whole \in Nat
    BY <1>4, WalkAssumption DEF Walking
<1>8. B => Walk!Proposed(d) \in 0..Whole
    BY <1>3, ProposedWeight DEF Walk!Rebalances
<1>9. t \in 0..Whole /\ (~B => t = 0) /\ current' \in 0..Whole
    <2>1. CASE B
        <3> DEFINE x == Walk!Proposed(d)
        <3>1. x \in 0..Whole /\ t = Walk!Magnitude(x - current) /\ current' = x
            BY <1>2, <1>8, <2>1
        <3> HIDE DEF x, t
        <3> QED
            BY <1>7, <2>1, <3>1 DEF Walk!Magnitude
    <2>2. CASE ~B
        BY <1>2, <1>7, <2>2
    <2> QED
        BY <2>1, <2>2
<1>10. Walking(D, F, seen', month', current', signal', rebalance', records')
    <2> DEFINE p == seen
               m == month
               c == current
               s == signal
               r == rebalance
               rows == records
               c2 == current'
               s2 == signal'
               r2 == rebalance'
               rows2 == records'
    <2>1. /\ NextAfter(D, p, d) /\ Walking(D, F, p, m, c, s, r, rows) /\ Framed(F)
          /\ c2 \in 0..Whole
        BY <1>3, <1>4, <1>5, <1>9
    <2>2. DateDoes(F, d, m, s, r, rows, t, s2, r2, rows2)
        BY <1>2, <1>6, <1>9 DEF DateDoes, Turning
    <2> HIDE DEF p, m, c, s, r, rows, c2, s2, r2, rows2, D, F, d, B, t
    <2>3. Walking(D, F, d, MonthOf(d), c2, s2, r2, rows2)
        BY <2>1, <2>2, WalkGoesOn
    <2> QED
        BY <1>2, <2>3 DEF c2, s2, r2, rows2
<1>11. seen' \in D /\ seen' # 0
    <2>1. d \in D /\ d \in Nat \ {0}
        BY <1>3, <1>5 DEF NextAfter, DateSet
    <2> HIDE DEF d
    <2> QED
        BY <1>2, <2>1
<1>12. Asked' = Asked
    BY <1>1 DEF Asked
<1>13. F' = F
    BY <1>1
<1> HIDE DEF d, B, t
<1> QED
    BY <1>1, <1>3, <1>10, <1>11, <1>12, <1>13 DEF WalkInv

--------------------------------------------------------------------------------
\* The end of a variant's walk: all of its dates are walked.
LEMMA WalkedAll ==
    ASSUME WalkInv, seen # 0, ~Walk!Left
    PROVE  RowsOf(records, dates, weights[Head(todo)], Max(dates))
<1>1. /\ seen \in dates /\ DateSet(dates)
      /\ RowsOf(records, dates, weights[Head(todo)], seen)
    BY DaysAreDated DEF WalkInv, Walking
<1>2. \A d \in dates : d \in Nat /\ ~(d > seen) /\ d <= seen
    BY <1>1 DEF Walk!Left, DateSet
<1>3. Max(dates) = seen
    BY <1>1, <1>2, MaxIs
<1> QED
    BY <1>1, <1>3

\* Taking the first variant off the list and adding it to the results.
LEMMA HeadAndTail ==
    ASSUME NEW S, NEW s \in Seq(S), s # <<>>
    PROVE  /\ Head(s) \in S /\ Tail(s) \in Seq(S)
           /\ {Head(s)} \cup Range(Tail(s)) = Range(s)
<1> DEFINE n == Len(s)
<1>1. n \in Nat /\ n # 0 /\ DOMAIN s = 1..n
    BY EmptySeq
<1>2. /\ Head(s) = s[1] /\ Tail(s) \in Seq(S) /\ Len(Tail(s)) = n - 1
      /\ DOMAIN Tail(s) = 1..(n - 1) /\ \A i \in 1..(n - 1) : Tail(s)[i] = s[i + 1]
    BY HeadTailProperties
<1>3. \A i \in 1..n : s[i] \in S
    BY <1>1
<1> DEFINE r == Tail(s)
           h == Head(s)
<1>4. h = s[1] /\ DOMAIN r = 1..(n - 1) /\ \A i \in 1..(n - 1) : r[i] = s[i + 1]
    BY <1>2
<1> HIDE DEF n, r, h
<1>5. {h} \cup Range(r) = Range(s)
    <2>1. \A i \in 1..n : i = 1 \/ (i - 1 \in 1..(n - 1) /\ (i - 1) + 1 = i)
        BY <1>1
    <2>2. \A i \in 1..(n - 1) : i + 1 \in 1..n
        BY <1>1
    <2>3. 1 \in 1..n
        BY <1>1
    <2>4. \A i \in 1..n : s[i] \in {h} \cup Range(r)
        <3> TAKE i \in 1..n
        <3>1. CASE i = 1
            BY <1>4, <3>1
        <3>2. CASE i # 1
            <4>1. i - 1 \in DOMAIN r /\ r[i - 1] = s[i]
                BY <1>4, <2>1, <3>2
            <4> QED
                BY <4>1 DEF Range
        <3> QED
            BY <3>1, <3>2
    <2>5. \A i \in DOMAIN r : r[i] \in Range(s)
        BY <1>1, <1>4, <2>2 DEF Range
    <2>6. h \in Range(s)
        BY <1>1, <1>4, <2>3 DEF Range
    <2>7. Range(s) \subseteq {h} \cup Range(r)
        BY <1>1, <2>4 DEF Range
    <2>8. Range(r) \subseteq Range(s)
        BY <2>5 DEF Range
    <2> QED
        BY <2>6, <2>7, <2>8
<1> QED
    BY <1>1, <1>2, <1>3, <1>5 DEF h, r, n

LEMMA EndStep == WalkInv /\ Walk!EndVariant => WalkInv'
<1> SUFFICES ASSUME WalkInv, Walk!EndVariant PROVE WalkInv'
    OBVIOUS
<1>1. /\ Walk!Valid /\ todo # <<>> /\ seen # 0 /\ ~Walk!Left
      /\ seen' = 0 /\ month' = 0 /\ current' = 0 /\ signal' = 0 /\ rebalance' = 0 /\ records' = <<>>
      /\ UNCHANGED <<dates, weights, flushed, stored>>
    BY DEF Walk!EndVariant
<1> DEFINE v == Head(todo)
<1>2. /\ dates # {} /\ v \in DOMAIN weights
      /\ RowsOf(records, dates, weights[v], Max(dates))
    BY <1>1, VariantAtHand, WalkedAll
<1>3. CASE records = <<>>
    <2>1. status' = "invalid" /\ UNCHANGED <<todo, results>> /\ status # "stored"
        BY <1>1, <1>3 DEF Walk!EndVariant, WalkInv
    <2>2. Asked' = Asked
        BY <2>1 DEF Asked
    <2> QED
        BY <1>1, <2>1, <2>2 DEF WalkInv
<1>4. CASE records # <<>>
    <2>1. /\ results' = [u \in DOMAIN results \cup {v} |-> IF u = v THEN records ELSE results[u]]
          /\ todo' = Tail(todo) /\ UNCHANGED status
        BY <1>4 DEF Walk!EndVariant
    <2>2. status # "stored"
        BY <1>1 DEF WalkInv
    <2>3. todo' \in Seq(Walk!VariantSet) /\ {v} \cup Range(todo') = Range(todo)
        BY <1>1, <2>1, HeadAndTail DEF WalkInv
    <2>4. DOMAIN results' = DOMAIN results \cup {v}
        BY <2>1
    <2>5. Asked' = Asked
        BY <2>3, <2>4 DEF Asked
    <2>6. \A u \in DOMAIN results' : dates # {} /\ RowsOf(results'[u], dates, weights[u], Max(dates))
        BY <1>2, <2>1, <2>4 DEF WalkInv
    <2>7. DOMAIN results' \subseteq DOMAIN weights /\ flushed \subseteq DOMAIN results'
        BY <1>2, <2>4 DEF WalkInv
    <2> QED
        BY <1>1, <2>1, <2>2, <2>3, <2>5, <2>6, <2>7 DEF WalkInv
<1> QED
    BY <1>3, <1>4

\* The variant that Create flushes is one of the results.
LEMMA CreateStep == WalkInv /\ Walk!Create => WalkInv'
<1> SUFFICES ASSUME WalkInv, Walk!Create PROVE WalkInv'
    OBVIOUS
<1> DEFINE P == {i \in DOMAIN Variants : Variants[i] \in DOMAIN results \ flushed}
           v == Variants[Min(P)]
<1>1. /\ todo = <<>> /\ flushed # DOMAIN results /\ flushed' = flushed \cup {v}
      /\ UNCHANGED <<dates, weights, todo, seen, month, current, signal, rebalance,
                     records, results, stored, status>>
    BY SameExtremes DEF Walk!Create, Walk!walked
<1>2. v \in DOMAIN results
    <2>1. DOMAIN results \subseteq Walk!VariantSet /\ flushed \subseteq DOMAIN results
        BY DEF WalkInv
    <2>2. P # {}
        BY <1>1, <2>1 DEF Walk!VariantSet
    <2>3. P \in SUBSET Nat
        BY SinglesAreVariants
    <2>4. Min(P) \in P
        <3> HIDE DEF P
        <3> QED
            BY <2>2, <2>3, MinOfNats
    <2> QED
        BY <2>4
<1>3. flushed' \subseteq DOMAIN results
    <2>1. flushed \subseteq DOMAIN results
        BY DEF WalkInv
    <2> HIDE DEF v
    <2> QED
        BY <1>1, <1>2, <2>1
<1>4. Asked' = Asked
    BY <1>1 DEF Asked
<1> HIDE DEF v
<1> QED
    BY <1>1, <1>3, <1>4 DEF WalkInv

LEMMA WalkNext == WalkInv /\ [Walk!Next]_(Walk!walkVars) => WalkInv'
<1> SUFFICES ASSUME WalkInv, [Walk!Next]_(Walk!walkVars) PROVE WalkInv'
    OBVIOUS
<1>1. CASE Walk!Next
    <2>r. status = "running"
        BY <1>1 DEF Walk!Next
    <2>1. CASE Walk!Refuse
        <3>1. status' = "invalid"
              /\ UNCHANGED <<dates, weights, todo, seen, month, current, signal, rebalance,
                             records, results, flushed, stored>>
            BY <2>1 DEF Walk!Refuse
        <3>2. Asked' = Asked
            BY <3>1 DEF Asked
        <3> QED
            BY <2>r, <3>1, <3>2 DEF WalkInv
    <2>2. CASE Walk!Commit
        <3>1. /\ todo = <<>> /\ stored' = results /\ status' = "stored"
              /\ UNCHANGED <<dates, weights, todo, seen, month, current, signal, rebalance,
                             records, results, flushed>>
            BY <2>2 DEF Walk!Commit, Walk!walked
        <3>2. Asked' = Asked
            BY <3>1 DEF Asked
        <3> QED
            BY <3>1, <3>2 DEF WalkInv
    <2>3. CASE Walk!Rollback
        <3>1. /\ flushed' = {} /\ status' = "failed"
              /\ UNCHANGED <<dates, weights, todo, seen, month, current, signal, rebalance,
                             records, results, stored>>
            BY <2>3 DEF Walk!Rollback, Walk!walked
        <3>2. Asked' = Asked
            BY <3>1 DEF Asked
        <3> QED
            BY <2>r, <3>1, <3>2 DEF WalkInv
    <2> QED
        BY <1>1, <2>1, <2>2, <2>3, FirstStep, DateStep, EndStep, CreateStep DEF Walk!Next
<1>2. CASE UNCHANGED Walk!walkVars
    <2>1. UNCHANGED <<dates, weights, todo, seen, month, current, signal, rebalance,
                      records, results, flushed, stored, status>>
        BY <1>2 DEF Walk!walkVars
    <2>2. Asked' = Asked
        BY <2>1 DEF Asked
    <2> QED
        BY <2>1, <2>2 DEF WalkInv
<1> QED
    BY <1>1, <1>2

LEMMA WalkAlways == Walk!Spec => []WalkInv
BY WalkInit, WalkNext, PTL DEF Walk!Spec

--------------------------------------------------------------------------------
\* The stored rows are complete.
LEMMA WalkComplete == WalkInv => Walk!RecordsAreComplete
<1> SUFFICES ASSUME WalkInv PROVE Walk!RecordsAreComplete
    OBVIOUS
<1>1. CASE status # "stored"
    BY <1>1 DEF WalkInv, Walk!RecordsAreComplete
<1>2. CASE status = "stored"
    <2>1. stored = results /\ todo = <<>>
        BY <1>2 DEF WalkInv
    <2>2. DOMAIN stored \in {{Walk!Single}, Walk!VariantSet}
        <3>1. Range(todo) = {}
            BY <2>1 DEF Range
        <3> QED
            BY <2>1, <3>1 DEF WalkInv, Asked
    <2>3. ASSUME NEW v \in DOMAIN stored
          PROVE  LET rows == stored[v] IN
                 /\ {rows[i].date : i \in DOMAIN rows} = {d \in Walk!Past : Walk!Turns(v, d) # {}}
                 /\ \A i, j \in DOMAIN rows : i < j => rows[i].date < rows[j].date
                 /\ \A i \in DOMAIN rows :
                     /\ rows[i].rebalance = Walk!Max(Walk!Turns(v, rows[i].date))
                     /\ rows[i].signal
                            = Walk!Max({s \in DOMAIN weights[v] : s < rows[i].rebalance})
                     /\ rows[i].turnover # 0 => rows[i].date = rows[i].rebalance
        <3> DEFINE rows == stored[v]
                   D == dates
                   F == weights[v]
        <3>1. D # {} /\ DateSet(D) /\ RowsOf(rows, D, F, Max(D))
            BY <2>1, DaysAreDated DEF WalkInv
        <3>2. Walk!Past = Walked(D) /\ \A d : Walk!Turns(v, d) = TurnsOf(D, F, d)
            BY SameWalk
        <3> HIDE DEF rows, D, F
        <3>3. WalkedTo(D, Max(D)) = Walked(D)
            <4>1. \A d \in D : d <= Max(D)
                BY <3>1, Extremes
            <4> QED
                BY <4>1 DEF WalkedTo, Walked
        <3>4. {rows[i].date : i \in DOMAIN rows} = {d \in Walk!Past : Walk!Turns(v, d) # {}}
            BY <3>1, <3>2, <3>3 DEF RowsOf
        <3>5. \A i \in DOMAIN rows :
                     /\ rows[i].rebalance = Walk!Max(Walk!Turns(v, rows[i].date))
                     /\ rows[i].signal = Walk!Max(Known(F, rows[i].rebalance))
                     /\ rows[i].turnover # 0 => rows[i].date = rows[i].rebalance
            BY <3>1, <3>2, SameExtremes DEF RowsOf, RowRight
        <3>6. \A i, j \in DOMAIN rows : i < j => rows[i].date < rows[j].date
            BY <3>1 DEF RowsOf
        <3> QED
            BY <3>4, <3>5, <3>6 DEF rows, F, Known
    <2> QED
        BY <1>2, <2>2, <2>3 DEF Walk!RecordsAreComplete
<1> QED
    BY <1>1, <1>2

LEMMA WalkTypes == WalkInv => Walk!TypeOK
<1> SUFFICES ASSUME WalkInv PROVE Walk!TypeOK
    OBVIOUS
<1>1. LastReturnDay \in Nat \ {0} /\ Whole \in Nat /\ MonthOf(LastReturnDay) \in Nat
    BY WalkAssumption, MonthRises
<1>2. CASE seen = 0
    <2>1. month = 0 /\ current = 0 /\ signal = 0 /\ rebalance = 0 /\ records = <<>>
        BY <1>2 DEF WalkInv
    <2> QED
        BY <1>1, <1>2, <2>1, SameWalk DEF WalkInv, Walk!TypeOK, Walk!Days
<1>3. CASE seen # 0
    <2> DEFINE D == dates
               F == weights[Head(todo)]
               T == TurnsOf(D, F, seen)
    <2>1. /\ seen \in D /\ DateSet(D) /\ D \subseteq 1..LastReturnDay
          /\ F \in Frames /\ Framed(F)
          /\ Walking(D, F, seen, month, current, signal, rebalance, records)
        BY <1>3, DaysAreDated, FramesAreFramed DEF WalkInv
    <2>2. DOMAIN F \subseteq 1..LastReturnDay
        BY <2>1, WalkAssumption
    <2> HIDE DEF D, F
    <2>3. seen \in Nat \ {0} /\ seen <= LastReturnDay
        BY <1>1, <2>1
    <2>4. month \in 0..MonthOf(LastReturnDay)
        <3>1. MonthOf(seen) \in Nat \ {0} /\ MonthOf(seen) <= MonthOf(LastReturnDay)
            BY <1>1, <2>3, MonthRises
        <3> QED
            BY <1>1, <2>1, <3>1 DEF Walking
    <2>5. signal \in 0..LastReturnDay /\ rebalance \in 0..LastReturnDay
        <3>1. CASE T = {}
            <4>1. rebalance = 0 /\ signal = 0
                BY <2>1, <3>1 DEF Walking
            <4> QED
                BY <1>1, <4>1
        <3>2. CASE T # {}
            <4>1. rebalance = Max(T) /\ signal = Max(Known(F, rebalance))
                BY <2>1, <3>2 DEF Walking
            <4>2. Max(T) \in Nat \ {0} /\ Max(T) <= seen /\ Known(F, Max(T)) # {}
                BY <2>1, <3>2, TurnHasSignal
            <4>3. signal \in Known(F, rebalance)
                BY <2>1, <4>1, <4>2, SignalBefore
            <4>4. signal \in DOMAIN F
                BY <4>3 DEF Known
            <4> QED
                BY <1>1, <2>2, <2>3, <4>1, <4>2, <4>4
        <3> QED
            BY <3>1, <3>2
    <2>6. current \in 0..Whole /\ \A i \in DOMAIN records : records[i].turnover \in 0..Whole
        <3>1. current \in 0..Whole /\ records \in Seq(Returns)
            BY <2>1 DEF Walking, RowsOf
        <3>2. \A i \in DOMAIN records : records[i] \in Returns
            BY <3>1
        <3> QED
            BY <3>1, <3>2 DEF Returns
    <2> QED
        BY <2>1, <2>4, <2>5, <2>6, SameWalk DEF WalkInv, Walk!TypeOK, Walk!Days, D
<1> QED
    BY <1>2, <1>3

\* BacktestEngine, AblationRunner and BacktestService: a stored result has the
\* record of every return date it should have, by signals of earlier dates, and
\* a request leaves all of its variants or none.
THEOREM StoredRowsAreComplete == JobSpec => []RecordsAreComplete
BY WalkComplete, WalkAlways, JobsAreSteps, PTL DEF RecordsAreComplete

--------------------------------------------------------------------------------
\* Every variable of a computation keeps its type.
THEOREM AllTypes == JobSpec => []WellTyped
<1>1. Paper!Spec => []Paper!TypeOK
    BY PaperTypes, PaperAlways, PTL
<1>2. Walk!Spec => []Walk!TypeOK
    BY WalkTypes, WalkAlways, PTL
<1> QED
    BY <1>1, <1>2, StressTypes, BacktestTypes, SchedulerTypes, JobsAreSteps, PTL DEF WellTyped

================================================================================
