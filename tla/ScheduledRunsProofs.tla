------------------------- MODULE ScheduledRunsProofs -------------------------
(***************************************************************************)
(* Theorems about the scheduled-run ledger, for every set of calls, every  *)
(* lock timeout and every clock bound.                                     *)
(***************************************************************************)
EXTENDS ScheduledRuns, TLAPS

\* Every step keeps each variable in its type.
LEMMA TypeStep == TypeOK /\ [Next]_vars => TypeOK'
<1> SUFFICES ASSUME TypeOK, [Next]_vars PROVE TypeOK'
  OBVIOUS
<1> USE DEF TypeOK, Row, Statuses, InFlight, Executing, Ended
<1>1. ASSUME NEW c \in Calls, Begin(c) PROVE TypeOK'
  BY <1>1 DEF Begin
<1>2. ASSUME NEW c \in Calls, InsertRow(c) PROVE TypeOK'
  BY <1>2 DEF InsertRow, ClaimedRow
<1>3. ASSUME NEW c \in Calls, InsertConflict(c) PROVE TypeOK'
  BY <1>3 DEF InsertConflict
<1>4. ASSUME NEW c \in Calls, ReadRow(c) PROVE TypeOK'
  BY <1>4 DEF ReadRow
<1>5. ASSUME NEW c \in Calls, Reclaim(c) PROVE TypeOK'
  BY <1>5 DEF Reclaim, ClaimedRow
<1>6. ASSUME NEW c \in Calls, LoseReclaim(c) PROVE TypeOK'
  BY <1>6 DEF LoseReclaim
<1>7. ASSUME NEW c \in Calls, AttachEvaluation(c) PROVE TypeOK'
  BY <1>7 DEF AttachEvaluation, Written
<1>8. ASSUME NEW c \in Calls, Complete(c) PROVE TypeOK'
  BY <1>8 DEF Complete, Written
<1>9. ASSUME NEW c \in Calls, Return(c) PROVE TypeOK'
  BY <1>9 DEF Return
<1>10. ASSUME NEW c \in Calls, Fail(c) PROVE TypeOK'
  BY <1>10 DEF Fail, Written
<1>11. ASSUME NEW c \in Calls, Crash(c) PROVE TypeOK'
  BY <1>11 DEF Crash
<1>12. CASE Tick
  BY <1>12 DEF Tick
<1>13. CASE UNCHANGED vars
  BY <1>13 DEF vars
<1> QED
  BY <1>1, <1>2, <1>3, <1>4, <1>5, <1>6, <1>7, <1>8, <1>9, <1>10, <1>11,
     <1>12, <1>13 DEF Next, Step

LEMMA TypeInit == Init => TypeOK
BY DEF Init, TypeOK, Row, Statuses, NoRow

\* The variables always have their types.
THEOREM TypeCorrect == Spec => []TypeOK
BY TypeInit, TypeStep, PTL DEF Spec

--------------------------------------------------------------------------------
(***************************************************************************)
(* The compare-and-set of claim(), without any assumption on the calls.    *)
(***************************************************************************)

LEMMA ClaimInvInit == Init => ClaimInv
BY TypeInit DEF Init, ClaimInv

\* A write always changes updated_at, so an unchanged updated_at means an
\* unchanged row.
LEMMA ClaimInvStep == ClaimInv /\ [Next]_vars => ClaimInv'
<1> SUFFICES ASSUME ClaimInv, [Next]_vars PROVE ClaimInv'
  OBVIOUS
<1>t. TypeOK /\ TypeOK'
  BY TypeStep DEF ClaimInv
<1> USE <1>t DEF ClaimInv, TypeOK, Row
<1>1. ASSUME NEW c \in Calls, Begin(c) PROVE ClaimInv'
  BY <1>1 DEF Begin
<1>2. ASSUME NEW c \in Calls, InsertRow(c) PROVE ClaimInv'
  BY <1>2 DEF InsertRow, ClaimedRow
<1>3. ASSUME NEW c \in Calls, InsertConflict(c) PROVE ClaimInv'
  BY <1>3 DEF InsertConflict
<1>4. ASSUME NEW c \in Calls, ReadRow(c) PROVE ClaimInv'
  BY <1>4 DEF ReadRow
<1>5. ASSUME NEW c \in Calls, Reclaim(c) PROVE ClaimInv'
  BY <1>5 DEF Reclaim, ClaimedRow
<1>6. ASSUME NEW c \in Calls, LoseReclaim(c) PROVE ClaimInv'
  BY <1>6 DEF LoseReclaim
<1>7. ASSUME NEW c \in Calls, AttachEvaluation(c) PROVE ClaimInv'
  BY <1>7 DEF AttachEvaluation, Written
<1>8. ASSUME NEW c \in Calls, Complete(c) PROVE ClaimInv'
  BY <1>8 DEF Complete, Written
<1>9. ASSUME NEW c \in Calls, Return(c) PROVE ClaimInv'
  BY <1>9 DEF Return
<1>10. ASSUME NEW c \in Calls, Fail(c) PROVE ClaimInv'
  BY <1>10 DEF Fail, Written
<1>11. ASSUME NEW c \in Calls, Crash(c) PROVE ClaimInv'
  BY <1>11 DEF Crash
<1>12. CASE Tick
  BY <1>12 DEF Tick
<1>13. CASE UNCHANGED vars
  BY <1>13 DEF vars, Retryable
<1> QED
  BY <1>1, <1>2, <1>3, <1>4, <1>5, <1>6, <1>7, <1>8, <1>9, <1>10, <1>11,
     <1>12, <1>13 DEF Next, Step

THEOREM ClaimInvariant == Spec => []ClaimInv
BY ClaimInvInit, ClaimInvStep, PTL DEF Spec

\* claim() never takes a live claim, whatever the calls do: however late the
\* UPDATE comes, the row it matches is absent, FAILED or expired.
THEOREM ClaimIsSafe == Spec => LiveClaimNeverStolen
<1>1. ASSUME ClaimInv, [Next]_vars, NEW c \in Calls, Claims(c) PROVE Claimable
  <2>1. InsertRow(c) \/ Reclaim(c)
    BY <1>1 DEF Claims, ClaimInv, TypeOK, Next, Step, vars, Executing, Begin,
       InsertRow, InsertConflict, ReadRow, Reclaim, LoseReclaim,
       AttachEvaluation, Complete, Return, Fail, Crash, Tick
  <2>2. CASE InsertRow(c)
    BY <2>2 DEF InsertRow, Claimable
  <2>3. CASE Reclaim(c)
    BY <1>1, <2>3, LockTimeoutAssumption
       DEF Reclaim, ClaimInv, TypeOK, Row, Retryable, Claimable
  <2> QED
    BY <2>1, <2>2, <2>3
<1>2. ClaimInv /\ [Next]_vars
        => [\A c \in Calls : Claims(c) => Claimable]_vars
  BY <1>1
<1> QED
  BY <1>2, ClaimInvariant, PTL DEF Spec, LiveClaimNeverStolen

--------------------------------------------------------------------------------
(***************************************************************************)
(* The lease, when no call outlives the lock timeout.                      *)
(***************************************************************************)

LEMMA LeaseInvInit == Init => LeaseInv
BY ClaimInvInit DEF Init, LeaseInv, InFlight, Executing

\* A call in flight began at most LockTimeout ago, so no rival can find its
\* claim expired, and the row stays its own until it writes the outcome.
LEMMA LeaseInvStep ==
  ASSUME PromptCalls
  PROVE  LeaseInv /\ [Next]_vars => LeaseInv'
<1> SUFFICES ASSUME LeaseInv, [Next]_vars PROVE LeaseInv'
  OBVIOUS
<1>t. ClaimInv /\ ClaimInv' /\ TypeOK /\ TypeOK'
  BY ClaimInvStep, TypeStep DEF LeaseInv, ClaimInv
<1> USE <1>t, LockTimeoutAssumption
    DEF LeaseInv, ClaimInv, TypeOK, Row, InFlight, Executing
<1>1. ASSUME NEW c \in Calls, Begin(c) PROVE LeaseInv'
  BY <1>1 DEF Begin
<1>2. ASSUME NEW c \in Calls, InsertRow(c) PROVE LeaseInv'
  BY <1>2 DEF InsertRow, ClaimedRow
<1>3. ASSUME NEW c \in Calls, InsertConflict(c) PROVE LeaseInv'
  BY <1>3 DEF InsertConflict
<1>4. ASSUME NEW c \in Calls, ReadRow(c) PROVE LeaseInv'
  BY <1>4 DEF ReadRow, Retryable
<1>5. ASSUME NEW c \in Calls, Reclaim(c) PROVE LeaseInv'
  BY <1>5 DEF Reclaim, ClaimedRow, Retryable
<1>6. ASSUME NEW c \in Calls, LoseReclaim(c) PROVE LeaseInv'
  BY <1>6 DEF LoseReclaim
<1>7. ASSUME NEW c \in Calls, AttachEvaluation(c) PROVE LeaseInv'
  BY <1>7 DEF AttachEvaluation, Written
<1>8. ASSUME NEW c \in Calls, Complete(c) PROVE LeaseInv'
  BY <1>8 DEF Complete, Written
<1>9. ASSUME NEW c \in Calls, Return(c) PROVE LeaseInv'
  BY <1>9 DEF Return
<1>10. ASSUME NEW c \in Calls, Fail(c) PROVE LeaseInv'
  BY <1>10 DEF Fail, Written
<1>11. ASSUME NEW c \in Calls, Crash(c) PROVE LeaseInv'
  BY <1>11 DEF Crash
<1>12. CASE Tick
  BY <1>12 DEF Tick
<1>13. CASE UNCHANGED vars
  BY <1>13 DEF vars
<1> QED
  BY <1>1, <1>2, <1>3, <1>4, <1>5, <1>6, <1>7, <1>8, <1>9, <1>10, <1>11,
     <1>12, <1>13 DEF Next, Step

THEOREM LeaseInvariant ==
  ASSUME PromptCalls
  PROVE  Spec => []LeaseInv
BY LeaseInvInit, LeaseInvStep, PTL DEF Spec

\* At most one call executes the pipeline of a key, and the row names it.
THEOREM MutualExclusion ==
  ASSUME PromptCalls
  PROVE  Spec => [](AtMostOneExecutor /\ ExecutorOwnsRow)
<1>1. LeaseInv => AtMostOneExecutor /\ ExecutorOwnsRow
  BY DEF LeaseInv, AtMostOneExecutor, ExecutorOwnsRow
<1> QED
  BY <1>1, LeaseInvariant, PTL

LEMMA SuccessionInvInit == Init => SuccessionInv
BY LeaseInvInit DEF Init, SuccessionInv, NoRow

LEMMA SuccessionInvStep ==
  ASSUME PromptCalls
  PROVE  SuccessionInv /\ [Next]_vars => SuccessionInv'
<1> SUFFICES ASSUME SuccessionInv, [Next]_vars PROVE SuccessionInv'
  OBVIOUS
<1>t. LeaseInv /\ LeaseInv' /\ TypeOK /\ TypeOK'
  BY LeaseInvStep, TypeStep DEF SuccessionInv, LeaseInv, ClaimInv
<1> USE <1>t, LockTimeoutAssumption
    DEF SuccessionInv, LeaseInv, ClaimInv, TypeOK, Row, InFlight, Executing,
        Ended
<1>1. ASSUME NEW c \in Calls, Begin(c) PROVE SuccessionInv'
  BY <1>1 DEF Begin
<1>2. ASSUME NEW c \in Calls, InsertRow(c) PROVE SuccessionInv'
  BY <1>2 DEF InsertRow, ClaimedRow
<1>3. ASSUME NEW c \in Calls, InsertConflict(c) PROVE SuccessionInv'
  BY <1>3 DEF InsertConflict
<1>4. ASSUME NEW c \in Calls, ReadRow(c) PROVE SuccessionInv'
  BY <1>4 DEF ReadRow, Retryable
<1>5. ASSUME NEW c \in Calls, Reclaim(c) PROVE SuccessionInv'
  BY <1>5 DEF Reclaim, ClaimedRow, Retryable
<1>6. ASSUME NEW c \in Calls, LoseReclaim(c) PROVE SuccessionInv'
  BY <1>6 DEF LoseReclaim
<1>7. ASSUME NEW c \in Calls, AttachEvaluation(c) PROVE SuccessionInv'
  BY <1>7 DEF AttachEvaluation, Written
<1>8. ASSUME NEW c \in Calls, Complete(c) PROVE SuccessionInv'
  BY <1>8 DEF Complete, Written
<1>9. ASSUME NEW c \in Calls, Return(c) PROVE SuccessionInv'
  BY <1>9 DEF Return
<1>10. ASSUME NEW c \in Calls, Fail(c) PROVE SuccessionInv'
  BY <1>10 DEF Fail, Written
<1>11. ASSUME NEW c \in Calls, Crash(c) PROVE SuccessionInv'
  BY <1>11 DEF Crash
<1>12. CASE Tick
  BY <1>12 DEF Tick
<1>13. CASE UNCHANGED vars
  BY <1>13 DEF vars
<1> QED
  BY <1>1, <1>2, <1>3, <1>4, <1>5, <1>6, <1>7, <1>8, <1>9, <1>10, <1>11,
     <1>12, <1>13 DEF Next, Step

THEOREM SuccessionInvariant ==
  ASSUME PromptCalls
  PROVE  Spec => []SuccessionInv
BY SuccessionInvInit, SuccessionInvStep, PTL DEF Spec

\* A call that loses the compare-and-set lost it to a newer claim.
THEOREM SkippedRetryIsCovered ==
  ASSUME PromptCalls
  PROVE  Spec => LostOnlyToAClaim
<1>1. ASSUME SuccessionInv, [Next]_vars, NEW c \in Calls,
             pc[c] = "swap", pc'[c] = "skipped"
      PROVE  row.claimant # seen[c].claimant
  <2>1. LoseReclaim(c)
    BY <1>1 DEF SuccessionInv, LeaseInv, ClaimInv, TypeOK, Next, Step, vars,
       Executing, Begin, InsertRow, InsertConflict, ReadRow, Reclaim,
       LoseReclaim, AttachEvaluation, Complete, Return, Fail, Crash, Tick
  <2> QED
    BY <1>1, <2>1 DEF LoseReclaim, SuccessionInv
<1>2. SuccessionInv /\ [Next]_vars
        => [\A c \in Calls : pc[c] = "swap" /\ pc'[c] = "skipped"
              => row.claimant # seen[c].claimant]_vars
  BY <1>1
<1> QED
  BY <1>2, SuccessionInvariant, PTL DEF Spec, LostOnlyToAClaim

--------------------------------------------------------------------------------
(***************************************************************************)
(* Completion, with prompt calls; commits may go unacknowledged.           *)
(***************************************************************************)

\* A call that has completed the run still owns the COMPLETED row.
CompletionInv ==
    /\ LeaseInv
    /\ \A c \in Calls : pc[c] = "completed" =>
          row.status = "COMPLETED" /\ row.claimant = c

LEMMA CompletionStep ==
  ASSUME PromptCalls
  PROVE  CompletionInv /\ [Next]_vars => CompletionInv'
<1> SUFFICES ASSUME CompletionInv, [Next]_vars PROVE CompletionInv'
  OBVIOUS
<1>t. LeaseInv /\ LeaseInv'
  BY LeaseInvStep DEF CompletionInv
<1> USE <1>t DEF CompletionInv
<1>1. ASSUME NEW c \in Calls, Begin(c) \/ Step(c) \/ Fail(c) \/ Crash(c),
             NEW d \in Calls, pc'[d] = "completed"
      PROVE  row'.status = "COMPLETED" /\ row'.claimant = d
  <2>t. pc \in [Calls -> {"new"} \cup InFlight \cup Ended]
    BY DEF LeaseInv, ClaimInv, TypeOK
  <2>1. CASE pc[d] # "completed"
    <3>1. Return(c) /\ c = d
      BY <1>1, <2>t, <2>1 DEF Step, Begin, InsertRow, InsertConflict, ReadRow, Reclaim,
         LoseReclaim, AttachEvaluation, Complete, Return, Fail, Crash
    <3> QED
      BY <3>1 DEF Return, LeaseInv
  <2>2. CASE pc[d] = "completed"
    <3> USE <1>1 DEF LeaseInv, ClaimInv, TypeOK, Executing, InFlight
    <3>1. row.status = "COMPLETED" /\ row.claimant = d
      BY <2>2
    <3>2. c # d
      BY <2>2 DEF Step, Begin, InsertRow, InsertConflict, ReadRow, Reclaim,
         LoseReclaim, AttachEvaluation, Complete, Return, Fail, Crash
    <3>3. pc[c] \notin Executing /\ pc[c] # "committed"
      BY <3>1, <3>2
    <3>4. ~Reclaim(c)
      BY <3>1 DEF Reclaim, Retryable
    <3>5. UNCHANGED row
      BY <3>1, <3>3, <3>4 DEF Step, Begin, InsertRow, InsertConflict, ReadRow,
         LoseReclaim, AttachEvaluation, Complete, Return, Fail, Crash
    <3> QED
      BY <3>1, <3>5
  <2> QED
    BY <2>1, <2>2
<1>2. CASE Tick \/ UNCHANGED vars
  BY <1>2 DEF Tick, vars
<1> QED
  BY <1>1, <1>2 DEF Next

\* With prompt calls a run is completed by one call at most.
THEOREM CompletedByOne ==
  ASSUME PromptCalls
  PROVE  Spec => []CompletedOnce
<1>1. Init => CompletionInv
  BY LeaseInvInit DEF Init, CompletionInv
<1>2. CompletionInv => CompletedOnce
  BY DEF CompletionInv, LeaseInv, CompletedOnce
<1> QED
  BY <1>1, <1>2, CompletionStep, PTL DEF Spec

--------------------------------------------------------------------------------
(***************************************************************************)
(* Completed runs, and the refinement of RunLease, when in addition the    *)
(* COMMIT of complete() is always acknowledged.                            *)
(***************************************************************************)

\* A completed run is never written again.
THEOREM CompletedRunsAreFinal ==
  ASSUME PromptCalls, ~LostAcks
  PROVE  Spec => CompletedIsFinal
<1>1. ASSUME LeaseInv, [Next]_vars, row.status = "COMPLETED"
      PROVE  UNCHANGED row
  <2> USE <1>1 DEF LeaseInv, ClaimInv
  <2>1. ASSUME NEW c \in Calls, Begin(c) \/ Step(c) \/ Fail(c) \/ Crash(c)
        PROVE  UNCHANGED row
    <3>1. pc[c] \notin Executing
      OBVIOUS
    <3>2. ~Reclaim(c)
      BY DEF Reclaim, Retryable
    <3> QED
      BY <2>1, <3>1, <3>2 DEF Step, Executing, Begin, InsertRow, InsertConflict,
         ReadRow, LoseReclaim, AttachEvaluation, Complete, Return, Fail, Crash
  <2>2. CASE Tick
    BY <2>2 DEF Tick
  <2>3. CASE UNCHANGED vars
    BY <2>3 DEF vars
  <2> QED
    BY <2>1, <2>2, <2>3 DEF Next
<1>2. LeaseInv /\ [Next]_vars
        => [row.status = "COMPLETED" => UNCHANGED row]_vars
  BY <1>1
<1> QED
  BY <1>2, LeaseInvariant, PTL DEF Spec, CompletedIsFinal

\* The set the refinement maps to the holders of the lease.
Executors == {c \in Calls : pc[c] \in Executing}

\* A call that claims the row finds nobody executing: nobody's claim is live.
LEMMA NobodyExecutingWhenReclaimed ==
  ASSUME LeaseInv, NEW c \in Calls, Reclaim(c)
  PROVE  /\ row.status \in {"FAILED", "RUNNING"}
         /\ Executors = {}
<1> USE DEF LeaseInv, ClaimInv, TypeOK, Row, InFlight
<1>1. Retryable(row, now[c]) /\ now[c] <= clock
  BY DEF Reclaim
<1>2. ASSUME NEW d \in Calls, pc[d] \in Executing PROVE FALSE
  <2>1. /\ row.status = "RUNNING" /\ row.started_at = now[d]
        /\ clock <= now[d] + LockTimeout
    BY <1>2
  <2> QED
    BY <1>1, <2>1, LockTimeoutAssumption DEF Retryable
<1> QED
  BY <1>1, <1>2 DEF Retryable, Executors

\* Every step of the ledger is a step of the lease or leaves it unchanged.
LEMMA LeaseStep ==
  ASSUME PromptCalls, ~LostAcks, LeaseInv, [Next]_vars
  PROVE  [Lease!Next]_Lease!vars
<1> USE DEF LeaseInv, ClaimInv, TypeOK, Executing
<1>a. Executors = {c \in Calls : pc[c] \in Executing}
  BY DEF Executors
<1>b. ASSUME row'.status = row.status, Executors' = Executors
      PROVE  UNCHANGED Lease!vars
  BY <1>b DEF Lease!vars, Executors
<1>c. ASSUME NEW c \in Calls, pc[c] \in Executing PROVE Executors = {c}
  BY <1>c DEF Executors
<1>1. ASSUME NEW c \in Calls, InsertRow(c) PROVE Lease!Acquire(c)
  <2>1. Executors = {} /\ Executors' = {c}
    BY <1>1 DEF InsertRow, Executors
  <2> QED
    BY <1>1, <2>1 DEF InsertRow, ClaimedRow, Lease!Acquire, Executors
<1>2. ASSUME NEW c \in Calls, Reclaim(c) PROVE Lease!Acquire(c)
  <2>1. row.status \in {"FAILED", "RUNNING"} /\ Executors = {}
    BY <1>2, NobodyExecutingWhenReclaimed
  <2>2. Executors' = {c}
    BY <1>2, <2>1 DEF Reclaim, Executors
  <2> QED
    BY <1>2, <2>1, <2>2 DEF Reclaim, ClaimedRow, Lease!Acquire, Executors
<1>3. ASSUME NEW c \in Calls, AttachEvaluation(c)
      PROVE  UNCHANGED Lease!vars
  BY <1>3, <1>b DEF AttachEvaluation, Written, Executors
<1>4. ASSUME NEW c \in Calls, Complete(c) \/ Fail(c) PROVE Lease!Finish(c)
  <2>1. pc[c] \in Executing
    BY <1>4 DEF Complete, Fail
  <2>2. Executors = {c} /\ Executors' = {}
    BY <1>4, <1>c, <2>1 DEF Complete, Fail, Executors
  <2> QED
    BY <1>4, <2>1, <2>2 DEF Complete, Fail, Written, Lease!Finish, Executors
<1>5. ASSUME NEW c \in Calls, Crash(c)
      PROVE  [Lease!Abandon(c)]_Lease!vars
  <2>1. CASE pc[c] \in Executing
    <3>1. Executors = {c} /\ Executors' = {}
      BY <1>5, <1>c, <2>1 DEF Crash, Executors
    <3> QED
      BY <1>5, <3>1 DEF Crash, Lease!Abandon, Executors
  <2>2. CASE pc[c] \notin Executing
    <3>1. Executors' = Executors
      BY <1>5, <2>2 DEF Crash, Executors
    <3> QED
      BY <1>5, <1>b, <3>1 DEF Crash
  <2> QED
    BY <2>1, <2>2
<1>6. ASSUME NEW c \in Calls,
             \/ Begin(c) \/ InsertConflict(c) \/ ReadRow(c)
             \/ LoseReclaim(c) \/ Return(c)
      PROVE  UNCHANGED Lease!vars
  <2>1. Executors' = Executors /\ row' = row
    BY <1>6 DEF Begin, InsertConflict, ReadRow, LoseReclaim, Return, Executors
  <2> QED
    BY <1>b, <2>1
<1>7. CASE Tick
  BY <1>7, <1>b DEF Tick, Executors
<1>8. CASE UNCHANGED vars
  BY <1>8, <1>b DEF vars, Executors
<1> QED
  BY <1>1, <1>2, <1>3, <1>4, <1>5, <1>6, <1>7, <1>8
     DEF Next, Step, Lease!Next

\* The ledger implements the lease promised by docs/phase6_operations.md.
THEOREM LedgerImplementsLease ==
  ASSUME PromptCalls, ~LostAcks
  PROVE  Spec => ImplementsLease
<1>1. Init => Lease!Init
  BY DEF Init, NoRow, Executing, Lease!Init
<1>2. LeaseInv /\ [Next]_vars => [Lease!Next]_Lease!vars
  BY LeaseStep
<1> QED
  BY <1>1, <1>2, LeaseInvariant, PTL DEF Spec, ImplementsLease, Lease!Spec
==============================================================================
