-------------------------------- MODULE Scheduler --------------------------------
(***************************************************************************)
(* SchedulerService in every API worker, over the run ledger that the      *)
(* workers share.  A job is a kind of run; its cron triggers it in some of *)
(* the slots of a day.  A batch takes the date on which it begins and      *)
(* lists the portfolios once; it runs them one after the other, each in a  *)
(* session of its own, and an exception is logged and ends that run only.  *)
(*                                                                         *)
(* APScheduler (external) coalesces the triggers it has missed, lets one   *)
(* instance of a job run in a worker and drops a trigger that comes while  *)
(* it does, or that it cannot start within misfire_grace_time.  A slot is  *)
(* longer than that time, and the slots of a day end with the day.         *)
(*                                                                         *)
(* What a run does is in ScheduledPipeline; claim() is one step here, as   *)
(* RunLease allows for calls that end within the lock timeout.             *)
(***************************************************************************)
EXTENDS Integers, FiniteSets

CONSTANTS
    Workers,     \* processes that serve the API
    Jobs,        \* portfolio-full-evaluation and portfolio-volatility-refresh
    Portfolios,  \* portfolios that may come to exist
    SlotsPerDay,
    Cron,        \* per job: the slots of a day it is triggered in
    LastDay      \* bound: days 1..LastDay pass

VARIABLES
    slot,     \* the current slot, counted from 0
    listed,   \* portfolios that exist
    running,  \* workers whose scheduler runs
    due,      \* per worker: jobs that are triggered and have not begun
    batch,    \* per worker and job: the batch that runs, if any
    row       \* per job, portfolio and date: status of its row in the ledger

schedulerVars == <<slot, listed, running, due, batch, row>>

Keys == Jobs \X Portfolios \X (1..LastDay)
Today == slot \div SlotsPerDay + 1
Triggered(s) == {j \in Jobs : s % SlotsPerDay \in Cron[j]}

\* A batch: its date, the portfolios listed and those not reached, the run it
\* is in, and the portfolios whose exception it has logged.
NoBatch == [date |-> 0, portfolios |-> {}, todo |-> {}, run |-> {}, failed |-> {}]
Busy(w, j) == batch[w][j] # NoBatch

TypeOK ==
    /\ slot \in 0..SlotsPerDay * LastDay - 1
    /\ listed \subseteq Portfolios /\ running \subseteq Workers
    /\ due \in [Workers -> SUBSET Jobs]
    /\ \A w \in Workers, j \in Jobs : LET b == batch[w][j] IN
          /\ b.date \in 0..LastDay /\ b.portfolios \subseteq listed
          /\ b.todo \subseteq b.portfolios
          /\ b.run \subseteq b.portfolios \ b.todo /\ Cardinality(b.run) <= 1
          /\ b.failed \subseteq b.portfolios \ (b.todo \cup b.run)
    /\ row \in [Keys -> {"NONE", "RUNNING", "COMPLETED", "FAILED"}]

Init ==
    /\ slot = 0
    /\ listed \in SUBSET Portfolios
    /\ running = {}
    /\ due = [w \in Workers |-> {}]
    /\ batch = [w \in Workers |-> [j \in Jobs |-> NoBatch]]
    /\ row = [k \in Keys |-> "NONE"]

--------------------------------------------------------------------------------
\* start(): a worker starts its scheduler once.
Start(w) ==
    /\ w \notin running /\ \A j \in Jobs : ~Busy(w, j)
    /\ running' = running \cup {w}
    /\ UNCHANGED <<slot, listed, due, batch, row>>

\* stop(): shutdown(wait=False) leaves the batches to their threads.
Stop(w) ==
    /\ w \in running
    /\ running' = running \ {w}
    /\ due' = [due EXCEPT ![w] = {}]
    /\ UNCHANGED <<slot, listed, batch, row>>

\* The process ends; its rows stay RUNNING.
Die(w) ==
    /\ running' = running \ {w}
    /\ due' = [due EXCEPT ![w] = {}]
    /\ batch' = [batch EXCEPT ![w] = [j \in Jobs |-> NoBatch]]
    /\ UNCHANGED <<slot, listed, row>>

\* The next slot triggers its jobs; a trigger of the last one that has not
\* begun is a misfire.
Tick ==
    /\ slot + 1 < SlotsPerDay * LastDay
    /\ slot' = slot + 1
    /\ due' = [w \in Workers |-> IF w \in running THEN Triggered(slot + 1) ELSE {}]
    /\ UNCHANGED <<listed, running, batch, row>>

AddPortfolio(p) ==
    /\ p \notin listed
    /\ listed' = listed \cup {p}
    /\ UNCHANGED <<slot, running, due, batch, row>>

--------------------------------------------------------------------------------
Taken(w, j) == due' = [due EXCEPT ![w] = @ \ {j}]

\* max_instances = 1: the job still runs and the trigger is dropped.
Overrun(w, j) ==
    /\ j \in due[w] /\ Busy(w, j)
    /\ Taken(w, j)
    /\ UNCHANGED <<slot, listed, running, batch, row>>

\* run_full_batch, run_volatility_batch: the date of today, the portfolios of now.
BeginBatch(w, j) ==
    /\ j \in due[w] /\ ~Busy(w, j)
    /\ Taken(w, j)
    /\ batch' = [batch EXCEPT ![w][j] =
                    [NoBatch EXCEPT !.date = Today, !.portfolios = listed, !.todo = listed]]
    /\ UNCHANGED <<slot, listed, running, row>>

\* The listing or a provider raises: the batch ends before its first run.
BatchRaises(w, j) ==
    /\ j \in due[w] /\ ~Busy(w, j)
    /\ Taken(w, j)
    /\ UNCHANGED <<slot, listed, running, batch, row>>

--------------------------------------------------------------------------------
Key(w, j, p) == <<j, p, batch[w][j].date>>
Reaches(w, j, p) == batch[w][j].run = {} /\ p \in batch[w][j].todo

\* The workers that execute the run of a key.
Executors(k) == {w \in Workers : k[2] \in batch[w][k[1]].run /\ batch[w][k[1]].date = k[3]}

\* claim(): no row, or a failed one, or a RUNNING one that a process left
\* behind and that has expired.
Claimable(k) == row[k] \in {"NONE", "FAILED"} \/ (row[k] = "RUNNING" /\ Executors(k) = {})

Claim(w, j, p) ==
    /\ Reaches(w, j, p) /\ Claimable(Key(w, j, p))
    /\ row' = [row EXCEPT ![Key(w, j, p)] = "RUNNING"]
    /\ batch' = [batch EXCEPT ![w][j].todo = @ \ {p}, ![w][j].run = {p}]
    /\ UNCHANGED <<slot, listed, running, due>>

\* claimed=False: completed, or RUNNING and not expired.
Skip(w, j, p) ==
    /\ Reaches(w, j, p) /\ row[Key(w, j, p)] \in {"COMPLETED", "RUNNING"}
    /\ batch' = [batch EXCEPT ![w][j].todo = @ \ {p}]
    /\ UNCHANGED <<slot, listed, running, due, row>>

\* claim() itself raises.
ClaimRaises(w, j, p) ==
    /\ Reaches(w, j, p)
    /\ batch' = [batch EXCEPT ![w][j].todo = @ \ {p}, ![w][j].failed = @ \cup {p}]
    /\ UNCHANGED <<slot, listed, running, due, row>>

RunCompletes(w, j, p) ==
    /\ p \in batch[w][j].run
    /\ row' = [row EXCEPT ![Key(w, j, p)] = "COMPLETED"]
    /\ batch' = [batch EXCEPT ![w][j].run = {}]
    /\ UNCHANGED <<slot, listed, running, due>>

\* Mutated form of RunRaises: the exception leaves the loop.
RunRaisesOut(w, j, p) ==
    /\ p \in batch[w][j].run
    /\ row' = [row EXCEPT ![Key(w, j, p)] = "FAILED"]
    /\ batch' = [batch EXCEPT ![w][j].run = {}, ![w][j].failed = @ \cup {p}, ![w][j].todo = {}]
    /\ UNCHANGED <<slot, listed, running, due>>

\* The run raises; fail() marks its row, unless that fails as well.
RunRaises(w, j, p) ==
    /\ p \in batch[w][j].run
    /\ \/ row' = [row EXCEPT ![Key(w, j, p)] = "FAILED"]
       \/ UNCHANGED row
    /\ batch' = [batch EXCEPT ![w][j].run = {}, ![w][j].failed = @ \cup {p}]
    /\ UNCHANGED <<slot, listed, running, due>>

EndBatch(w, j) ==
    /\ Busy(w, j) /\ batch[w][j].todo = {} /\ batch[w][j].run = {}
    /\ batch' = [batch EXCEPT ![w][j] = NoBatch]
    /\ UNCHANGED <<slot, listed, running, due, row>>

Next ==
    \/ Tick
    \/ \E p \in Portfolios : AddPortfolio(p)
    \/ \E w \in Workers :
          \/ Start(w) \/ Stop(w) \/ Die(w)
          \/ \E j \in Jobs :
                \/ Overrun(w, j) \/ BeginBatch(w, j) \/ BatchRaises(w, j) \/ EndBatch(w, j)
                \/ \E p \in Portfolios :
                      \/ Claim(w, j, p) \/ Skip(w, j, p) \/ ClaimRaises(w, j, p)
                      \/ RunCompletes(w, j, p) \/ RunRaises(w, j, p)

Spec == Init /\ [][Next]_schedulerVars

--------------------------------------------------------------------------------
\* _run_batch catches what one portfolio's run raises: a portfolio that the
\* batch has behind it was started, by this batch or by another worker's, for
\* the batch's own date, or its exception is logged, whatever has happened to
\* the portfolios before it, to the other workers and to the clock.
NoPortfolioPassedOver ==
    \A w \in Workers, j \in Jobs : LET b == batch[w][j] IN
        \A p \in b.portfolios \ (b.todo \cup b.failed) : row[<<j, p, b.date>>] # "NONE"

================================================================================
