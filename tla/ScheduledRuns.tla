----------------------------- MODULE ScheduledRuns -----------------------------
(***************************************************************************)
(* The scheduled-run ledger: the one scheduled_runs row that the unique    *)
(* key (run_type, portfolio_id, evaluation_date) admits, and the calls of  *)
(* ScheduledEvaluationPipeline._execute that compete for it.               *)
(*                                                                         *)
(* A "call" is one invocation of _execute for that key, made by the        *)
(* scheduler thread of some API process.  Every database round trip of a   *)
(* call is one action, so calls interleave exactly between the statements  *)
(* of ScheduledRunRepository.  The row is never deleted: nothing in the    *)
(* program deletes a portfolio.                                            *)
(*                                                                         *)
(* updated_at is only ever compared for equality, so it is modelled by a   *)
(* write counter: two writes of the row never carry the same microsecond.  *)
(***************************************************************************)
EXTENDS Integers, FiniteSets

CONSTANTS
    Calls,        \* the calls of _execute for this key
    NoCall,       \* claimant of the row that does not exist yet
    LockTimeout,  \* scheduler_run_lock_timeout_minutes, in clock ticks
    PromptCalls,  \* TRUE: no call outlives the lock timeout
    LostAcks,     \* TRUE: the COMMIT of complete() may be durable and raise
    MaxClock      \* bound on the clock

ASSUME NoCallAssumption == NoCall \notin Calls
ASSUME LockTimeoutAssumption == LockTimeout \in Nat
ASSUME FlagsAssumption == PromptCalls \in BOOLEAN /\ LostAcks \in BOOLEAN
ASSUME MaxClockAssumption == MaxClock \in Nat

VARIABLES
    row,    \* the scheduled_runs row
    clock,  \* datetime.utcnow()
    pc,     \* where each call is
    now,    \* `now`, captured when claim() starts
    seen    \* `existing`, the row as claim() read it

vars == <<row, clock, pc, now, seen>>

\* RunStatus, and NONE while the key has no row yet.
Statuses == {"NONE", "RUNNING", "COMPLETED", "FAILED"}

\* claimant is a history field: the call whose claim the row records.
Row == [status: Statuses, started_at: Nat, updated_at: Nat,
        claimant: Calls \cup {NoCall}]

NoRow == [status |-> "NONE", started_at |-> 0, updated_at |-> 0,
          claimant |-> NoCall]

\* Stages of a call that owns a claim and is executing the pipeline.
Executing == {"claimed", "attached"}

\* Outcomes: a call never leaves these.
Ended == {"completed", "failed", "skipped", "crashed"}

\* Stages in which a call has begun and has not ended.
InFlight == {"insert", "read", "swap", "committed"} \cup Executing

TypeOK ==
    /\ row \in Row
    /\ clock \in Nat
    /\ pc \in [Calls -> {"new"} \cup InFlight \cup Ended]
    /\ now \in [Calls -> Nat]
    /\ seen \in [Calls -> Row]

Init ==
    /\ row = NoRow
    /\ clock = 0
    /\ pc = [c \in Calls |-> "new"]
    /\ now = [c \in Calls |-> 0]
    /\ seen = [c \in Calls |-> NoRow]

--------------------------------------------------------------------------------
(***************************************************************************)
(* claim()                                                                 *)
(***************************************************************************)

\* The values a successful claim writes, by INSERT or by UPDATE.
ClaimedRow(c) == [status |-> "RUNNING", started_at |-> now[c],
                  updated_at |-> row.updated_at + 1, claimant |-> c]

\* Mutated forms of Retryable: the timeout is ignored; only a fresh claim is
\* left alone; FAILED runs are not retried.
RetryableAnyRunning(r, t) ==
    r.status = "FAILED" \/ (r.status = "RUNNING" /\ r.started_at < t)
RetryableUnlessLive(r, t) ==
    ~(r.status = "RUNNING" /\ r.started_at >= t - LockTimeout)
RetryableExpiredOnly(r, t) ==
    r.status = "RUNNING" /\ r.started_at < t - LockTimeout

\* FAILED, or RUNNING since before the cutoff.
Retryable(r, t) ==
    \/ r.status = "FAILED"
    \/ r.status = "RUNNING" /\ r.started_at < t - LockTimeout

\* A batch reaches the portfolio: `now` is read before any statement is sent.
Begin(c) ==
    /\ pc[c] = "new"
    /\ pc' = [pc EXCEPT ![c] = "insert"]
    /\ now' = [now EXCEPT ![c] = clock]
    /\ UNCHANGED <<row, clock, seen>>

\* The INSERT finds no row with this key and commits.
InsertRow(c) ==
    /\ pc[c] = "insert"
    /\ row.status = "NONE"
    /\ row' = ClaimedRow(c)
    /\ pc' = [pc EXCEPT ![c] = "claimed"]
    /\ UNCHANGED <<clock, now, seen>>

\* The INSERT violates the unique key; the savepoint is rolled back.
InsertConflict(c) ==
    /\ pc[c] = "insert"
    /\ row.status # "NONE"
    /\ pc' = [pc EXCEPT ![c] = "read"]
    /\ UNCHANGED <<row, clock, now, seen>>

\* get_for_schedule, and the decision taken on what it returned.
ReadRow(c) ==
    /\ pc[c] = "read"
    /\ \/ /\ Retryable(row, now[c])
          /\ seen' = [seen EXCEPT ![c] = row]
          /\ pc' = [pc EXCEPT ![c] = "swap"]
       \/ /\ ~Retryable(row, now[c])
          /\ pc' = [pc EXCEPT ![c] = "skipped"]
          /\ UNCHANGED seen
    /\ UNCHANGED <<row, clock, now>>

\* Mutated form of Reclaim: the UPDATE is keyed by run_id only.
ReclaimBlind(c) ==
    /\ pc[c] = "swap"
    /\ row' = ClaimedRow(c)
    /\ pc' = [pc EXCEPT ![c] = "claimed"]
    /\ UNCHANGED <<clock, now, seen>>

\* UPDATE ... WHERE updated_at = existing.updated_at matches the row.
Reclaim(c) ==
    /\ pc[c] = "swap"
    /\ row.updated_at = seen[c].updated_at
    /\ row' = ClaimedRow(c)
    /\ pc' = [pc EXCEPT ![c] = "claimed"]
    /\ UNCHANGED <<clock, now, seen>>

\* The UPDATE matches no row: someone wrote it since it was read.
LoseReclaim(c) ==
    /\ pc[c] = "swap"
    /\ row.updated_at # seen[c].updated_at
    /\ pc' = [pc EXCEPT ![c] = "skipped"]
    /\ UNCHANGED <<row, clock, now, seen>>

--------------------------------------------------------------------------------
(***************************************************************************)
(* The rest of the call.  attach_evaluation, complete and fail address the *)
(* row by run_id alone: whoever calls them writes it.                      *)
(***************************************************************************)

\* The row after a write that leaves the claim itself alone.
Written(status) == [status |-> status, started_at |-> row.started_at,
                    updated_at |-> row.updated_at + 1,
                    claimant |-> row.claimant]

\* attach_evaluation: the status is not touched, updated_at is.
AttachEvaluation(c) ==
    /\ pc[c] = "claimed"
    /\ row' = Written(row.status)
    /\ pc' = [pc EXCEPT ![c] = "attached"]
    /\ UNCHANGED <<clock, now, seen>>

\* complete(): the COMMIT is durable, its acknowledgement still to come.
Complete(c) ==
    /\ pc[c] = "attached"
    /\ row' = Written("COMPLETED")
    /\ pc' = [pc EXCEPT ![c] = "committed"]
    /\ UNCHANGED <<clock, now, seen>>

\* The COMMIT is acknowledged, the row refreshed, and the call returns.
Return(c) ==
    /\ pc[c] = "committed"
    /\ pc' = [pc EXCEPT ![c] = "completed"]
    /\ UNCHANGED <<row, clock, now, seen>>

\* Mutated form of Fail: a status the check constraint does not admit.
FailUnknownStatus(c) ==
    /\ pc[c] \in Executing
    /\ row' = Written("ERROR")
    /\ pc' = [pc EXCEPT ![c] = "failed"]
    /\ UNCHANGED <<clock, now, seen>>

\* A stage raised, or the acknowledgement of complete()'s COMMIT was lost and
\* commit() raised, leaving the session inactive: the except clause of
\* _execute calls fail(), which rolls back, reads the row and overwrites it.
Fail(c) ==
    /\ pc[c] \in Executing \/ (LostAcks /\ pc[c] = "committed")
    /\ row' = Written("FAILED")
    /\ pc' = [pc EXCEPT ![c] = "failed"]
    /\ UNCHANGED <<clock, now, seen>>

\* The process dies, claim() raises on the way, or fail() itself cannot reach
\* the database: the row keeps what the last commit put there.
Crash(c) ==
    /\ pc[c] \in InFlight
    /\ pc' = [pc EXCEPT ![c] = "crashed"]
    /\ UNCHANGED <<row, clock, now, seen>>

\* Time passes.  With PromptCalls the clock waits for every call in flight
\* before it moves past that call's own lock timeout.
Tick ==
    /\ clock < MaxClock
    /\ PromptCalls => \A c \in Calls :
                          pc[c] \in InFlight => clock < now[c] + LockTimeout
    /\ clock' = clock + 1
    /\ UNCHANGED <<row, pc, now, seen>>

\* The steps a call takes by itself, in program order.
Step(c) ==
    \/ InsertRow(c) \/ InsertConflict(c) \/ ReadRow(c)
    \/ Reclaim(c) \/ LoseReclaim(c)
    \/ AttachEvaluation(c) \/ Complete(c) \/ Return(c)

Next ==
    \/ \E c \in Calls : Begin(c) \/ Step(c) \/ Fail(c) \/ Crash(c)
    \/ Tick

Spec == Init /\ [][Next]_vars

\* A call that has begun keeps running: its thread is scheduled and its
\* statements end.  No fairness for triggers, failures, crashes or time.
FairSpec == Spec /\ \A c \in Calls : WF_vars(Step(c))

--------------------------------------------------------------------------------
(***************************************************************************)
(* Properties                                                              *)
(***************************************************************************)

\* The call whose step this is has just won the claim.
Claims(c) == pc[c] \notin Executing /\ pc'[c] = "claimed"

\* What may be claimed now: an absent or failed run, or an expired claim.
Claimable ==
    \/ row.status \in {"NONE", "FAILED"}
    \/ row.status = "RUNNING" /\ clock > row.started_at + LockTimeout

\* A claim is only ever taken from a run that is absent, FAILED, or RUNNING
\* for longer than the lock timeout at the moment of the UPDATE, however long
\* ago the claiming call read the row: the compare-and-set on updated_at in
\* claim() closes the gap between its SELECT and its UPDATE.
LiveClaimNeverStolen == [][\A c \in Calls : Claims(c) => Claimable]_vars

\* At most one call executes the pipeline for a key at any time.
AtMostOneExecutor ==
    \A c, d \in Calls : pc[c] \in Executing /\ pc[d] \in Executing => c = d

\* The row always describes the call that is executing: its claim is RUNNING
\* and it is that call's, so complete() and fail() record their own outcome.
ExecutorOwnsRow ==
    \A c \in Calls : pc[c] \in Executing =>
        row.status = "RUNNING" /\ row.claimant = c

\* "completed runs are never repeated": a COMPLETED row is never written again.
CompletedIsFinal == [][row.status = "COMPLETED" => UNCHANGED row]_vars

\* "multiple API workers cannot complete the same portfolio/date job".
CompletedOnce ==
    \A c, d \in Calls :
        pc[c] \in {"committed", "completed"} /\ pc[d] \in {"committed", "completed"}
            => c = d

\* A call that read a retryable row and lost the compare-and-set lost it to
\* another claim, never to a late write of the claimant it meant to replace:
\* a skipped retry is always covered by a newer attempt.
LostOnlyToAClaim ==
    [][\A c \in Calls : pc[c] = "swap" /\ pc'[c] = "skipped"
          => row.claimant # seen[c].claimant]_vars

\* A FAILED run, or one whose claimant died and whose timeout has passed, is
\* taken over once a trigger fires for its date: the call that finds it
\* retryable, or a rival, becomes its claimant, unless that call dies too.
RetryTakesOver ==
    \A c, old \in Calls :
        (/\ pc[c] = "insert"
         /\ row.claimant = old
         /\ \/ row.status = "FAILED"
            \/ row.status = "RUNNING" /\ row.started_at + LockTimeout < now[c])
        ~> (row.claimant # old \/ pc[c] = "crashed")

--------------------------------------------------------------------------------
(***************************************************************************)
(* Inductive invariants behind the theorems of ScheduledRunsProofs.        *)
(***************************************************************************)

\* `now` was read in the past.  A call about to reclaim read a retryable row,
\* and the row it read is still there unless it was written since.
ClaimInv ==
    /\ TypeOK
    /\ \A c \in Calls : now[c] <= clock
    /\ \A c \in Calls : pc[c] = "swap" =>
          /\ Retryable(seen[c], now[c])
          /\ seen[c].updated_at <= row.updated_at
          /\ seen[c].updated_at = row.updated_at => seen[c] = row

\* With prompt calls, a claim cannot expire while its call is in flight, so
\* the row keeps naming the call that is executing.
LeaseInv ==
    /\ ClaimInv
    /\ \A c \in Calls : pc[c] \in InFlight => clock <= now[c] + LockTimeout
    /\ \A c \in Calls : pc[c] \in Executing =>
          /\ row.status = "RUNNING"
          /\ row.claimant = c
          /\ row.started_at = now[c]
    /\ \A c \in Calls : pc[c] = "committed" =>
          row.status = "COMPLETED" /\ row.claimant = c

\* With prompt calls, a row that can be reclaimed names a call that has ended,
\* so only a new claim can change it after it was read.
SuccessionInv ==
    /\ LeaseInv
    /\ row.status # "NONE" =>
          /\ row.claimant \in Calls
          /\ pc[row.claimant] \in Executing \cup {"committed"} \cup Ended
    /\ row.status = "FAILED" => pc[row.claimant] \in Ended
    /\ \A c \in Calls : pc[c] = "swap" =>
          /\ seen[c].claimant \in Calls
          /\ pc[seen[c].claimant] \in Ended
          /\ row.claimant = seen[c].claimant => row = seen[c]

--------------------------------------------------------------------------------
(***************************************************************************)
(* Refinement.  The ledger implements RunLease when no call outlives the   *)
(* lock timeout and complete() is acknowledged: the holders are the calls  *)
(* executing the pipeline, the status is the row's.                        *)
(***************************************************************************)
Lease == INSTANCE RunLease WITH
             status  <- row.status,
             holders <- {c \in Calls : pc[c] \in Executing}

\* Every behaviour of the ledger is one of the lease the docs promise.
ImplementsLease == Lease!Spec

================================================================================
