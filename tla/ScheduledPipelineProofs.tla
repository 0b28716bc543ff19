------------------------ MODULE ScheduledPipelineProofs ------------------------
(***************************************************************************)
(* Theorems about the scheduled evaluation pipeline, for any calls of any  *)
(* length, any tickers and any clock.                                      *)
(***************************************************************************)
EXTENDS ScheduledPipeline, TLAPS

--------------------------------------------------------------------------------
(***************************************************************************)
(* What the steps have in common.                                          *)
(***************************************************************************)

\* The stages of a call.
StageStep(c) ==
    EnsureStage(c) \/ VolatilityStage(c) \/ SignalsStage(c) \/ ControlStage(c)
    \/ TransientFailure(c)

\* The ledger's part of a call.
LedgerStep(c) ==
    Claim(c) \/ Attach(c) \/ Complete(c) \/ FailRun(c) \/ Return(c) \/ Crash(c)

LEMMA StepCases ==
  ASSUME [Next]_vars
  PROVE  \/ \E c \in Calls : LedgerStep(c)
         \/ \E c \in Calls : StageStep(c)
         \/ Tick \/ Request \/ UNCHANGED vars
BY DEF Next, StageStep, LedgerStep

\* What the stages have in common.
StageMove(c) ==
    /\ pc[c] \in Ledger!Executing
    /\ UNCHANGED <<ledger, book>>
    /\ \E s \in Stages : Goto(c, s)
    /\ \E tickers \in {{}, holdings} : Hold(c, tickers) \/ UNCHANGED held
    /\ disturbed \subseteq disturbed' /\ disturbed' \subseteq disturbed \cup {"fit", "ack"}

\* A stage that raises: nothing is written but a failed evaluation's status.
StageRaise(c) ==
    /\ \E reason \in Reasons : Raise(c, reason)
    /\ UNCHANGED <<volRows, signals, targets, event, snapshot>>
    /\ \/ UNCHANGED evaluation
       \/ (Stands(c, "computing") \/ Stands(c, "marking")) /\ evaluation' = "FAILED"

\* Every failure is a StageRaise.
LEMMA Raising ==
  ASSUME NEW c \in Calls,
         \/ EnsureConflict(c) \/ VolatilityEmpty(c) \/ VolatilityFails(c)
         \/ HistoryRefused(c) \/ SignalsMissing(c) \/ SignalsTwice(c)
         \/ ControlMissing(c) \/ ControlUnloadable(c) \/ ControlTwice(c)
         \/ ControlRefused(c) \/ ControlConflict(c) \/ TransientFailure(c)
  PROVE  StageRaise(c) /\ pc[c] \in Ledger!Executing
<1> USE DEF StageRaise, Stands, Reasons, rows
<1>1. CASE \/ EnsureConflict(c) \/ VolatilityEmpty(c) \/ VolatilityFails(c)
           \/ HistoryRefused(c) \/ TransientFailure(c)
  BY <1>1 DEF EnsureConflict, VolatilityEmpty, VolatilityFails, HistoryRefused, MarkFailed,
     TransientFailure
<1>2. CASE SignalsMissing(c) \/ SignalsTwice(c)
  BY <1>2 DEF SignalsMissing, SignalsTwice
<1>3. CASE \/ ControlMissing(c) \/ ControlUnloadable(c) \/ ControlTwice(c)
           \/ ControlRefused(c) \/ ControlConflict(c)
  BY <1>3 DEF ControlMissing, ControlUnloadable, ControlTwice, ControlRefused,
     ControlConflict
<1> QED
  BY <1>1, <1>2, <1>3

\* The steps of a stage: it raises, moves on, or writes its bundle.
LEMMA StageCases ==
  ASSUME NEW c \in Calls, StageStep(c)
  PROVE  \/ StageRaise(c)
         \/ EnsureRead(c) \/ VolatilityRead(c) \/ VolatilityConflict(c)
         \/ SignalsRead(c) \/ SignalsConflict(c) \/ ControlRead(c)
         \/ EnsureCreate(c) \/ VolatilityPersist(c) \/ VolatilityPersistLost(c)
         \/ SignalsPersist(c) \/ ControlPersist(c)
BY Raising DEF StageStep, EnsureStage, VolatilityStage, SignalsStage, ControlStage

\* Stages run under a claim, move their own call and leave the ledger alone.
LEMMA StagesMove ==
  ASSUME NEW c \in Calls, StageStep(c)
  PROVE  StageMove(c)
<1> USE DEF StageMove, Stages, Stands, notes
<1>1. CASE StageRaise(c)
  <2>1. pc[c] \in Ledger!Executing
    BY Raising DEF StageStep, EnsureStage, VolatilityStage, SignalsStage, ControlStage,
       EnsureRead, EnsureCreate, VolatilityRead, VolatilityConflict, VolatilityPersist,
       VolatilityPersistLost, SignalsRead, SignalsPersist, SignalsConflict, ControlRead,
       ControlPersist
  <2>2. PICK reason \in Reasons : Raise(c, reason)
    BY <1>1 DEF StageRaise
  <2> QED
    BY <2>1, <2>2 DEF Raise
<1>2. CASE EnsureRead(c) \/ EnsureCreate(c)
  BY <1>2 DEF EnsureRead, EnsureCreate
<1>3. CASE VolatilityRead(c) \/ VolatilityConflict(c)
  BY <1>3 DEF VolatilityRead, VolatilityConflict
<1>4. CASE VolatilityPersist(c) \/ VolatilityPersistLost(c)
  BY <1>4 DEF VolatilityPersist, VolatilityPersistLost
<1>5. CASE SignalsRead(c) \/ SignalsPersist(c) \/ SignalsConflict(c)
  BY <1>5 DEF SignalsRead, SignalsPersist, SignalsConflict
<1>6. CASE ControlRead(c) \/ ControlPersist(c)
  BY <1>6 DEF ControlRead, ControlPersist
<1> QED
  BY <1>1, <1>2, <1>3, <1>4, <1>5, <1>6, StageCases

\* A step of a call leaves the stage and the holdings of the others alone.
LEMMA OthersStand ==
  ASSUME TypeOK, NEW c \in Calls, StageStep(c) \/ LedgerStep(c), NEW d \in Calls \ {c}
  PROVE  at'[d] = at[d] /\ held'[d] = held[d]
<1> USE DEF TypeOK, Goto, Hold
<1>1. CASE LedgerStep(c)
  BY <1>1 DEF LedgerStep, Claim, Attach, Complete, FailRun, Return, Crash
<1>2. CASE StageStep(c)
  BY <1>2, StagesMove DEF StageMove
<1> QED
  BY <1>1, <1>2

\* Stages leave the ledger alone.
LEMMA StagesLeaveLedger ==
  ASSUME NEW c \in Calls, StageStep(c)
  PROVE  UNCHANGED <<ledger, book>>
BY StagesMove DEF StageMove

\* Requests leave the calls alone.
LEMMA RequestsBeside ==
  ASSUME Request
  PROVE  UNCHANGED <<ledger, at, held, why>>
BY DEF Request, AddHolding, RequestCreates, RequestPersists, RequestFails, Optimize,
   OptimizeAcross, PaperRebalance, PaperSnapshot, Beside

--------------------------------------------------------------------------------
(***************************************************************************)
(* Types.                                                                  *)
(***************************************************************************)

LEMMA TypeInit == Init => TypeOK
<1>1. Init => Ledger!TypeOK
  BY DEF Init, Ledger!Init, Ledger!TypeOK, Ledger!Row, Ledger!Statuses, Ledger!NoRow
<1> QED
  BY <1>1 DEF Init, TypeOK, Stages, EventWriters, SnapshotWriters

LEMMA LedgerTypeStep ==
  ASSUME Ledger!TypeOK,
         \/ \E c \in Calls : LedgerStep(c)
         \/ Tick
         \/ UNCHANGED ledger
  PROVE  Ledger!TypeOK'
<1> USE DEF Ledger!TypeOK, Ledger!Row, Ledger!Statuses, Ledger!InFlight,
            Ledger!Executing, Ledger!Ended
<1>1. ASSUME NEW c \in Calls, Claim(c) PROVE Ledger!TypeOK'
  <2>1. CASE Ledger!Begin(c) \/ Ledger!InsertConflict(c) \/ Ledger!LoseReclaim(c)
    BY <2>1 DEF Ledger!Begin, Ledger!InsertConflict, Ledger!LoseReclaim
  <2>2. CASE Ledger!InsertRow(c) \/ Ledger!Reclaim(c)
    BY <2>2 DEF Ledger!InsertRow, Ledger!Reclaim, Ledger!ClaimedRow
  <2>3. CASE Ledger!ReadRow(c)
    BY <2>3 DEF Ledger!ReadRow
  <2> QED
    BY <1>1, <2>1, <2>2, <2>3 DEF Claim
<1>2. ASSUME NEW c \in Calls, Attach(c) \/ Complete(c) \/ FailRun(c) PROVE Ledger!TypeOK'
  BY <1>2 DEF Attach, Complete, FailRun, Ledger!AttachEvaluation, Ledger!Complete,
     Ledger!Fail, Ledger!Written
<1>3. ASSUME NEW c \in Calls, Return(c) \/ Crash(c) PROVE Ledger!TypeOK'
  BY <1>3 DEF Return, Crash, Ledger!Return, Ledger!Crash
<1>4. CASE Tick
  BY <1>4 DEF Tick, Ledger!Tick
<1>5. CASE UNCHANGED ledger
  BY <1>5 DEF ledger
<1> QED
  BY <1>1, <1>2, <1>3, <1>4, <1>5 DEF LedgerStep

\* What a stage writes is of its type.
LEMMA StageTypeStep ==
  ASSUME TypeOK, Ledger!TypeOK', NEW c \in Calls, StageStep(c)
  PROVE  TypeOK'
<1>m. StageMove(c)
  BY StagesMove
<1>a. at' \in [Calls -> Stages]
  BY <1>m DEF StageMove, TypeOK, Goto
<1>h. held' \in [Calls -> SUBSET Tickers]
  <2>1. PICK tickers \in {{}, holdings} : Hold(c, tickers) \/ UNCHANGED held
    BY <1>m DEF StageMove
  <2>2. tickers \in SUBSET Tickers /\ held \in [Calls -> SUBSET Tickers]
    BY DEF TypeOK
  <2> QED
    BY <2>1, <2>2 DEF Hold
<1>d. UNCHANGED book /\ disturbed' \subseteq Disturbances
  BY <1>m DEF StageMove, TypeOK, Disturbances
<1> USE <1>a, <1>h, <1>d DEF TypeOK, rows, notes, book
<1>2. CASE StageRaise(c)
  BY <1>2 DEF StageRaise, Raise
<1>3. CASE \/ EnsureRead(c) \/ VolatilityRead(c) \/ VolatilityConflict(c)
           \/ SignalsRead(c) \/ SignalsConflict(c) \/ ControlRead(c) \/ EnsureCreate(c)
  BY <1>3 DEF EnsureRead, VolatilityRead, VolatilityConflict, SignalsRead,
     SignalsConflict, ControlRead, EnsureCreate
<1>4. CASE VolatilityPersist(c) \/ VolatilityPersistLost(c)
  BY <1>4 DEF VolatilityPersist, VolatilityPersistLost, Estimates, CreateStates
<1>5. CASE SignalsPersist(c)
  BY <1>5 DEF SignalsPersist, CreateBundle
<1>6. CASE ControlPersist(c)
  BY <1>6 DEF ControlPersist, CreateTargets, CreateRebalance, CreateSnapshot,
     EventWriters, SnapshotWriters
<1> QED
  BY <1>2, <1>3, <1>4, <1>5, <1>6, StageCases

LEMMA RequestTypeStep ==
  ASSUME TypeOK, Ledger!TypeOK', Request
  PROVE  TypeOK'
<1> USE DEF TypeOK, book, Beside, Disturbances
<1>1. CASE AddHolding
  BY <1>1 DEF AddHolding, rows
<1>2. CASE RequestCreates \/ RequestFails
  BY <1>2 DEF RequestCreates, RequestFails
<1>3. CASE RequestPersists
  BY <1>3 DEF RequestPersists, Estimates, CreateStates
<1>4. CASE Optimize
  BY <1>4 DEF Optimize, CreateTargets, CreateRebalance, CreateSnapshot, EventWriters,
     SnapshotWriters
<1>5. CASE OptimizeAcross \/ PaperRebalance \/ PaperSnapshot
  BY <1>5 DEF OptimizeAcross, PaperRebalance, PaperSnapshot, CreateSnapshot, EventWriters,
     SnapshotWriters
<1> QED
  BY <1>1, <1>2, <1>3, <1>4, <1>5 DEF Request

\* Every step keeps each variable in its type.
LEMMA TypeStep == TypeOK /\ [Next]_vars => TypeOK'
<1> SUFFICES ASSUME TypeOK, [Next]_vars PROVE TypeOK'
  OBVIOUS
<1>l. Ledger!TypeOK'
  <2>1. CASE (\E c \in Calls : LedgerStep(c)) \/ Tick \/ UNCHANGED ledger
    BY <2>1, LedgerTypeStep DEF TypeOK
  <2>2. CASE (\E c \in Calls : StageStep(c)) \/ Request \/ UNCHANGED vars
    <3>1. UNCHANGED ledger
      BY <2>2, StagesLeaveLedger, RequestsBeside DEF vars
    <3> QED
      BY <2>1, <3>1
  <2> QED
    BY <2>1, <2>2, StepCases
<1>1. ASSUME NEW c \in Calls, LedgerStep(c) PROVE TypeOK'
  BY <1>1, <1>l DEF LedgerStep, Claim, Attach, Complete, FailRun, Return, Crash, TypeOK,
     Stages, Disturbances, Goto, rows, notes, book
<1>2. CASE Tick \/ UNCHANGED vars
  BY <1>2, <1>l DEF Tick, vars, TypeOK, rows, notes, book
<1> QED
  BY <1>1, <1>2, <1>l, StageTypeStep, RequestTypeStep, StepCases

\* The variables always have their types.
THEOREM TypeCorrect == Spec => []TypeOK
BY TypeInit, TypeStep, PTL DEF Spec

--------------------------------------------------------------------------------
(***************************************************************************)
(* What the tables hold only grows, bundle by bundle, and a call past a    *)
(* stage may rely on what that stage left.                                 *)
(***************************************************************************)

\* What is committed stays as it was committed.
Kept ==
    /\ holdings \subseteq holdings' /\ (doubled => doubled')
    /\ evaluation # "NONE" => evaluation' # "NONE"
    /\ volRows # {} => volRows' = volRows
    /\ signals # {} => signals' = signals
    /\ targets # {} => targets' = targets
    /\ event # "none" => event' = event
    /\ snapshot # "none" => snapshot' # "none"

\* Each bundle rests on the one before it.
Layered ==
    /\ volRows # {} => evaluation # "NONE"
    /\ signals # {} => volRows # {}
    /\ targets # {} => signals # {} /\ event \in {"control", "optimize", "foreign"}
    /\ event \notin {"none", "foreign"} => snapshot # "none"
    /\ CoherentBundles

\* What a call at each stage has seen to.
Progress(c) ==
    /\ at[c] \in {"ensured", "volatility", "computing", "marking"} \cup LaterStages =>
          evaluation # "NONE"
    /\ at[c] \in {"computing"} \cup LaterStages => holdings # {}
    /\ at[c] = "computing" => held[c] # {}
    /\ at[c] \in {"marking"} \cup LaterStages => volRows # {}
    /\ at[c] = "signalling" => held[c] # {} /\ held[c] \subseteq volRows
    /\ at[c] = "doubled" => doubled
    /\ at[c] \in {"control", "controlling", "done"} => signals # {}
    /\ at[c] = "controlling" => held[c] # {} /\ held[c] \subseteq signals
    /\ at[c] = "done" => targets # {}

WholeInv ==
    /\ TypeOK
    /\ Layered
    /\ \A c \in Calls : Progress(c)
    /\ CompletedRunIsWhole

LEMMA WholeInit == Init => WholeInv
<1>1. Init => Layered
  BY DEF Init, Layered, CoherentBundles
<1>2. Init => \A c \in Calls : Progress(c)
  BY DEF Init, Progress, LaterStages
<1>3. Init => CompletedRunIsWhole
  BY DEF Init, CompletedRunIsWhole, Ledger!Init, Ledger!NoRow
<1> QED
  BY TypeInit, <1>1, <1>2, <1>3 DEF WholeInv

\* No step takes back or rewrites a bundle: retries, rivals, requests and
\* calls that outlived their claim included.
LEMMA KeptStep ==
  ASSUME WholeInv, [Next]_vars
  PROVE  Kept
<1> USE DEF Kept, rows, book
<1>1. ASSUME NEW c \in Calls, LedgerStep(c) PROVE Kept
  BY <1>1 DEF LedgerStep, Claim, Attach, Complete, FailRun, Return, Crash
<1>2. ASSUME NEW c \in Calls, StageStep(c) PROVE Kept
  <2> UNCHANGED book
    BY <1>2, StagesLeaveLedger
  <2>1. CASE StageRaise(c)
    BY <2>1 DEF StageRaise
  <2>2. CASE \/ EnsureRead(c) \/ VolatilityRead(c) \/ VolatilityConflict(c)
             \/ SignalsRead(c) \/ SignalsConflict(c) \/ ControlRead(c) \/ EnsureCreate(c)
    BY <2>2 DEF EnsureRead, VolatilityRead, VolatilityConflict, SignalsRead,
       SignalsConflict, ControlRead, EnsureCreate
  <2>3. CASE VolatilityPersist(c) \/ VolatilityPersistLost(c)
    BY <2>3 DEF VolatilityPersist, VolatilityPersistLost, CreateStates, HasRegime
  <2>4. CASE SignalsPersist(c)
    BY <2>4 DEF SignalsPersist, CreateBundle, HasSignals
  <2>5. CASE ControlPersist(c)
    <3>1. targets = {}
      BY <2>5 DEF ControlPersist, CreateRebalance, HasEvent, WholeInv, Layered
    <3> QED
      BY <2>5, <3>1 DEF ControlPersist, CreateTargets, CreateRebalance, CreateSnapshot,
         HasEvent
  <2> QED
    BY <1>2, <2>1, <2>2, <2>3, <2>4, <2>5, StageCases
<1>3. CASE Tick \/ UNCHANGED vars
  BY <1>3 DEF Tick, vars
<1>4. CASE Request
  <2> USE DEF Beside
  <2>1. CASE AddHolding
    <3>1. PICK t \in Tickers :
             /\ holdings' = holdings \cup {t}
             /\ doubled' = (doubled \/ t \in holdings)
      BY <2>1 DEF AddHolding
    <3>2. doubled => doubled'
      BY <3>1, Zenon
    <3>3. holdings \subseteq holdings'
      BY <3>1
    <3> QED
      BY <2>1, <3>2, <3>3 DEF AddHolding
  <2>5. CASE RequestCreates \/ RequestFails
    BY <2>5 DEF RequestCreates, RequestFails
  <2>2. CASE RequestPersists
    BY <2>2 DEF RequestPersists, CreateStates, HasRegime
  <2>3. CASE Optimize
    <3>1. event = "none"
      BY <2>3 DEF Optimize, CreateRebalance, HasEvent
    <3>2. targets = {}
      BY <3>1 DEF WholeInv, Layered
    <3> QED
      BY <2>3, <3>1, <3>2 DEF Optimize, CreateSnapshot
  <2>4. CASE OptimizeAcross \/ PaperRebalance \/ PaperSnapshot
    BY <2>4 DEF OptimizeAcross, PaperRebalance, PaperSnapshot, CreateSnapshot, HasEvent
  <2> QED
    BY <1>4, <2>1, <2>2, <2>3, <2>4, <2>5 DEF Request
<1> QED
  BY <1>1, <1>2, <1>3, <1>4, StepCases

\* A bundle is written only on top of the one before it.
LEMMA LayeredStep ==
  ASSUME WholeInv, [Next]_vars
  PROVE  Layered'
<1> USE DEF Layered, CoherentBundles, WholeInv, rows
<1>1. ASSUME NEW c \in Calls, LedgerStep(c) PROVE Layered'
  BY <1>1 DEF LedgerStep, Claim, Attach, Complete, FailRun, Return, Crash
<1>2. ASSUME NEW c \in Calls, StageStep(c) PROVE Layered'
  <2>1. CASE StageRaise(c)
    BY <2>1 DEF StageRaise
  <2>2. CASE \/ EnsureRead(c) \/ VolatilityRead(c) \/ VolatilityConflict(c)
             \/ SignalsRead(c) \/ SignalsConflict(c) \/ ControlRead(c) \/ EnsureCreate(c)
    BY <2>2 DEF EnsureRead, VolatilityRead, VolatilityConflict, SignalsRead,
       SignalsConflict, ControlRead, EnsureCreate
  <2>3. CASE VolatilityPersist(c) \/ VolatilityPersistLost(c)
    BY <2>3 DEF VolatilityPersist, VolatilityPersistLost, CreateStates, HasRegime
  <2>4. CASE SignalsPersist(c)
    BY <2>4 DEF SignalsPersist, CreateBundle, HasSignals, Stands, Progress, LaterStages
  <2>5. CASE ControlPersist(c)
    BY <2>5 DEF ControlPersist, CreateTargets, CreateRebalance, CreateSnapshot, HasEvent,
       Stands, Progress
  <2> QED
    BY <1>2, <2>1, <2>2, <2>3, <2>4, <2>5, StageCases
<1>3. CASE Tick \/ UNCHANGED vars
  BY <1>3 DEF Tick, vars
<1>4. CASE Request
  <2> USE DEF Beside
  <2>1. CASE AddHolding \/ RequestCreates \/ RequestFails
    BY <2>1 DEF AddHolding, RequestCreates, RequestFails
  <2>2. CASE RequestPersists
    BY <2>2 DEF RequestPersists, CreateStates, HasRegime
  <2>3. CASE Optimize
    <3>1. PICK assets \in (SUBSET (signals \cap volRows)) \ {{}} : targets' = assets
      BY <2>3 DEF Optimize, CreateTargets
    <3>2. targets' \subseteq signals /\ signals # {}
      BY <3>1
    <3>3. \/ event' = "optimize" /\ snapshot' = "control"
          \/ event' = "foreign"
      BY <2>3 DEF Optimize, CreateRebalance, CreateSnapshot
    <3> QED
      BY <2>3, <3>2, <3>3 DEF Optimize
  <2>4. CASE OptimizeAcross \/ PaperRebalance \/ PaperSnapshot
    BY <2>4 DEF OptimizeAcross, PaperRebalance, PaperSnapshot, CreateSnapshot, HasEvent
  <2> QED
    BY <1>4, <2>1, <2>2, <2>3, <2>4 DEF Request
<1> QED
  BY <1>1, <1>2, <1>3, <1>4, StepCases

\* A call that did not move keeps what it relied on.
LEMMA RelianceStands ==
  ASSUME TypeOK, Kept, NEW c \in Calls, Progress(c), at'[c] = at[c], held'[c] = held[c]
  PROVE  Progress(c)'
BY DEF TypeOK, Kept, Progress

\* A call that moves on has seen to what the next stage relies on.
LEMMA ProgressStep ==
  ASSUME WholeInv, [Next]_vars
  PROVE  \A d \in Calls : Progress(d)'
<1>k. Kept
  BY KeptStep
<1>1. ASSUME NEW c \in Calls, LedgerStep(c) PROVE Progress(c)'
  BY <1>1, <1>k DEF LedgerStep, Claim, Attach, Complete, FailRun, Return, Crash, rows,
     Progress, WholeInv, TypeOK, Goto, Stands, LaterStages, Kept
<1>2. ASSUME NEW c \in Calls, StageStep(c) PROVE Progress(c)'
  <2> USE <1>k DEF Progress, WholeInv, TypeOK, Goto, Hold, Stands, LaterStages, Kept, rows
  <2>h. UNCHANGED book
    BY <1>2, StagesLeaveLedger
  <2>1. CASE StageRaise(c)
    BY <2>1 DEF StageRaise, Raise
  <2>2. CASE EnsureRead(c) \/ EnsureCreate(c)
    BY <2>2 DEF EnsureRead, EnsureCreate
  <2>3. CASE VolatilityRead(c) \/ VolatilityConflict(c)
    BY <2>3 DEF VolatilityRead, VolatilityConflict, HasRegime
  <2>4. CASE VolatilityPersist(c) \/ VolatilityPersistLost(c)
    <3>1. PICK fitted \in Estimates(held[c]) : volRows' = fitted
      BY <2>4 DEF VolatilityPersist, VolatilityPersistLost, CreateStates
    <3>2. volRows' # {}
      BY <3>1 DEF Estimates
    <3>3. evaluation' # "NONE" /\ at'[c] \in {"signals", "marking"} /\ holdings # {}
      BY <2>4 DEF VolatilityPersist, VolatilityPersistLost
    <3> QED
      BY <3>2, <3>3
  <2>5. CASE SignalsRead(c) \/ SignalsPersist(c) \/ SignalsConflict(c)
    BY <2>5 DEF SignalsRead, SignalsPersist, SignalsConflict, CreateBundle, HasSignals, book
  <2>6. CASE ControlRead(c)
    BY <2>6 DEF ControlRead, Loadable, AssetStateComplete, HasEvent
  <2>7. CASE ControlPersist(c)
    <3>1. targets' # {}
      BY <2>7 DEF ControlPersist, CreateTargets
    <3> QED
      BY <2>7, <3>1 DEF ControlPersist
  <2> QED
    BY <1>2, <2>1, <2>2, <2>3, <2>4, <2>5, <2>6, <2>7, StageCases
<1>3. ASSUME NEW c \in Calls, StageStep(c) \/ LedgerStep(c), NEW d \in Calls \ {c}
      PROVE  Progress(d)'
  <2>1. at'[d] = at[d] /\ held'[d] = held[d]
    BY <1>3, OthersStand DEF WholeInv
  <2> QED
    BY <1>k, <2>1, RelianceStands DEF WholeInv
<1>4. CASE Tick \/ Request \/ UNCHANGED vars
  <2>1. at' = at /\ held' = held
    BY <1>4, RequestsBeside DEF Tick, vars
  <2> QED
    BY <1>k, <2>1, RelianceStands DEF WholeInv
<1>5. CASE \E c \in Calls : StageStep(c) \/ LedgerStep(c)
  <2> PICK c \in Calls : StageStep(c) \/ LedgerStep(c)
    BY <1>5
  <2>1. Progress(c)'
    BY <1>1, <1>2
  <2> QED
    BY <1>3, <2>1
<1> QED
  BY <1>4, <1>5, StepCases

\* The ledger says COMPLETED only by the call that has come to the end.
LEMMA WholeStep ==
  ASSUME WholeInv, [Next]_vars
  PROVE  CompletedRunIsWhole'
<1>k. Kept
  BY KeptStep
<1>1. ASSUME NEW c \in Calls, Complete(c) PROVE CompletedRunIsWhole'
  <2>1. at[c] = "done"
    BY <1>1 DEF Complete, Stands
  <2>2. evaluation # "NONE" /\ volRows # {} /\ signals # {} /\ targets # {}
    BY <2>1 DEF WholeInv, Progress, LaterStages
  <2>3. /\ event \in {"control", "optimize", "foreign"}
        /\ event # "foreign" => snapshot # "none"
    BY <2>2 DEF WholeInv, Layered
  <2> QED
    BY <1>k, <2>2, <2>3 DEF Kept, CompletedRunIsWhole
<1>2. ASSUME row'.status = "COMPLETED", ~ \E c \in Calls : Complete(c)
      PROVE  row.status = "COMPLETED"
  <2>1. ASSUME NEW c \in Calls, Claim(c) PROVE row' = row \/ row'.status = "RUNNING"
    BY <2>1 DEF Claim, Ledger!Begin, Ledger!InsertRow, Ledger!InsertConflict,
       Ledger!ReadRow, Ledger!Reclaim, Ledger!LoseReclaim, Ledger!ClaimedRow
  <2>2. ASSUME NEW c \in Calls, Attach(c) \/ FailRun(c)
        PROVE  row'.status = row.status \/ row'.status = "FAILED"
    BY <2>2 DEF Attach, FailRun, Ledger!AttachEvaluation, Ledger!Fail, Ledger!Written
  <2>3. ASSUME NEW c \in Calls, Return(c) \/ Crash(c) PROVE row' = row
    BY <2>3 DEF Return, Crash, Ledger!Return, Ledger!Crash
  <2>4. ASSUME NEW c \in Calls, StageStep(c) PROVE row' = row
    BY <2>4, StagesLeaveLedger DEF ledger
  <2>5. CASE Tick \/ Request \/ UNCHANGED vars
    BY <1>2, <2>5, RequestsBeside DEF Tick, Ledger!Tick, vars, ledger
  <2> QED
    BY <1>2, <2>1, <2>2, <2>3, <2>4, <2>5, StepCases DEF LedgerStep
<1>3. CASE row'.status = "COMPLETED" /\ ~ \E c \in Calls : Complete(c)
  <2>1. row.status = "COMPLETED"
    BY <1>2, <1>3
  <2> QED
    BY <1>k, <2>1 DEF WholeInv, CompletedRunIsWhole, Kept
<1>4. CASE row'.status # "COMPLETED"
  BY <1>4 DEF CompletedRunIsWhole
<1> QED
  BY <1>1, <1>3, <1>4

LEMMA WholeInductive == WholeInv /\ [Next]_vars => WholeInv'
BY TypeStep, LayeredStep, ProgressStep, WholeStep DEF WholeInv

LEMMA WholeAlways == Spec => []WholeInv
BY WholeInit, WholeInductive, PTL DEF Spec

\* The ledger says COMPLETED only of an evaluation with all its bundles.
THEOREM CompletedMeansWhole == Spec => []CompletedRunIsWhole
BY WholeAlways, PTL DEF WholeInv

\* No target without a signal, no signal without a volatility state.
THEOREM BundlesFit == Spec => []CoherentBundles
<1>1. WholeInv => CoherentBundles
  BY DEF WholeInv, Layered
<1> QED
  BY <1>1, WholeAlways, PTL

\* A committed bundle is never written again.
THEOREM NeverRewritten == Spec => BundlesWrittenOnce
<1>1. WholeInv /\ [Next]_vars =>
        [/\ volRows # {} => volRows' = volRows
         /\ signals # {} => signals' = signals
         /\ targets # {} => targets' = targets
         /\ event # "none" => event' = event]_vars
  BY KeptStep DEF Kept
<1> QED
  BY <1>1, WholeAlways, PTL DEF Spec, BundlesWrittenOnce

--------------------------------------------------------------------------------
(***************************************************************************)
(* The status of the evaluation, as long as one evaluation of the id runs  *)
(* at a time.                                                              *)
(***************************************************************************)

Alone == "overlap" \notin disturbed

\* Neither a rival call nor a request has evaluated, and no commit has kept its
\* outcome to itself.
Undenied == disturbed \cap {"overlap", "request", "ack"} = {}

\* A call that holds no claim yet has not entered a stage.
Unclaimed == \A c \in Calls :
    pc[c] \in {"new", "insert", "read", "swap"} => at[c] = "begun"

\* Without an overlap one call executes; without a request either, it computes
\* what is not there.
StatusInv ==
    /\ WholeInv
    /\ Unclaimed
    /\ Alone => \A c, d \in Calls :
                   pc[c] \in Ledger!Executing /\ pc[d] \in Ledger!Executing => c = d
    /\ Undenied => \A c \in Calls : Stands(c, "computing") => volRows = {}
    /\ \A c \in Calls : at[c] = "marking" => "ack" \in disturbed
    /\ StatusTellsVolatility

LEMMA StatusInit == Init => StatusInv
BY WholeInit DEF Init, StatusInv, Unclaimed, Alone, Undenied, Stands,
   StatusTellsVolatility, Ledger!Init, Ledger!Executing

\* Stages run under a claim and leave every call's place in the ledger alone.
LEMMA StagesExecute ==
  ASSUME NEW c \in Calls, StageStep(c)
  PROVE  pc[c] \in Ledger!Executing /\ pc' = pc
BY StagesMove DEF StageMove, ledger

\* The ledger moves one call, and forward.
LEMMA LedgerMoves ==
  ASSUME TypeOK, NEW c \in Calls, LedgerStep(c)
  PROVE  /\ \A d \in Calls \ {c} : pc'[d] = pc[d]
         /\ pc'[c] \in {"new", "insert", "read", "swap"} =>
               pc[c] \in {"new", "insert", "read", "swap"}
         /\ pc'[c] # "new"
         /\ pc'[c] \in Ledger!Executing =>
               \/ pc[c] \in Ledger!Executing
               \/ Claim(c) /\ pc'[c] = "claimed" /\ pc[c] \in {"insert", "swap"}
         /\ UNCHANGED <<book, rows, held, why>>
         /\ disturbed \subseteq disturbed'
         /\ disturbed' \subseteq disturbed \cup {"overlap"}
<1> USE DEF TypeOK, Ledger!TypeOK, Ledger!Executing, Ledger!InFlight, Ledger!Ended
<1>1. CASE Claim(c)
  BY <1>1 DEF Claim, Ledger!Begin, Ledger!InsertRow, Ledger!InsertConflict,
     Ledger!ReadRow, Ledger!Reclaim, Ledger!LoseReclaim
<1>2. CASE Attach(c) \/ Complete(c) \/ FailRun(c)
  BY <1>2 DEF Attach, Complete, FailRun, Stands, Ledger!AttachEvaluation, Ledger!Complete,
     Ledger!Fail, notes
<1>3. CASE Return(c) \/ Crash(c)
  BY <1>3 DEF Return, Crash, Ledger!Return, Ledger!Crash, notes
<1> QED
  BY <1>1, <1>2, <1>3 DEF LedgerStep

\* No step but Attach and the stages moves a call from its stage.
LEMMA LedgerStands ==
  ASSUME TypeOK, NEW c \in Calls, LedgerStep(c), NEW d \in Calls, at'[d] # at[d]
  PROVE  d = c /\ at'[c] = "volatility" /\ pc'[c] = "attached"
BY DEF TypeOK, Ledger!TypeOK, LedgerStep, Claim, Attach, Complete, FailRun, Return, Crash,
   Goto, Ledger!AttachEvaluation

\* A request adds to what happened to the inputs.
LEMMA RequestsDisturb ==
  ASSUME Request
  PROVE  disturbed \subseteq disturbed' /\ (Alone => Alone')
BY DEF Request, AddHolding, RequestCreates, RequestPersists, RequestFails, Optimize,
   OptimizeAcross, PaperRebalance, PaperSnapshot, Alone

\* What happened to the inputs is never forgotten.
LEMMA DisturbedGrows ==
  ASSUME TypeOK, [Next]_vars
  PROVE  disturbed \subseteq disturbed'
<1>1. ASSUME NEW c \in Calls, StageStep(c) PROVE disturbed \subseteq disturbed'
  BY <1>1, StagesMove DEF StageMove
<1>2. CASE Tick \/ UNCHANGED vars
  BY <1>2 DEF Tick, vars, notes
<1> QED
  BY <1>1, <1>2, LedgerMoves, RequestsDisturb, StepCases

LEMMA UnclaimedStep ==
  ASSUME TypeOK, Unclaimed, [Next]_vars
  PROVE  Unclaimed'
<1> USE DEF Unclaimed
<1>1. ASSUME NEW c \in Calls, LedgerStep(c) PROVE Unclaimed'
  BY <1>1, LedgerMoves, LedgerStands
<1>2. ASSUME NEW c \in Calls, StageStep(c) PROVE Unclaimed'
  BY <1>2, StagesExecute, OthersStand DEF Ledger!Executing
<1>3. CASE Tick \/ Request \/ UNCHANGED vars
  BY <1>3, RequestsBeside DEF Tick, Ledger!Tick, vars, ledger
<1> QED
  BY <1>1, <1>2, <1>3, StepCases

\* A second executing call is an overlap.
LEMMA AloneStep ==
  ASSUME StatusInv, [Next]_vars, Alone'
  PROVE  \A c, d \in Calls :
            pc'[c] \in Ledger!Executing /\ pc'[d] \in Ledger!Executing => c = d
<1>a. Alone
  BY DisturbedGrows DEF Alone, StatusInv, WholeInv
<1> USE <1>a DEF StatusInv, WholeInv, Alone
<1>1. ASSUME NEW c \in Calls, LedgerStep(c),
             NEW d \in Calls, NEW e \in Calls, d # e,
             pc'[d] \in Ledger!Executing, pc'[e] \in Ledger!Executing
      PROVE  FALSE
  <2>1. CASE pc[c] \in Ledger!Executing \/ pc'[c] \notin Ledger!Executing
    BY <1>1, <2>1, LedgerMoves
  <2>2. CASE pc[c] \notin Ledger!Executing /\ pc'[c] \in Ledger!Executing
    <3>1. Claim(c) /\ pc'[c] = "claimed"
      BY <1>1, <2>2, LedgerMoves
    <3>2. \E f \in Calls : pc[f] \in Ledger!Executing
      BY <1>1, LedgerMoves
    <3> QED
      BY <3>1, <3>2 DEF Claim
  <2> QED
    BY <2>1, <2>2
<1>2. ASSUME NEW c \in Calls, StageStep(c) PROVE pc' = pc
  BY <1>2, StagesExecute
<1>3. CASE Tick \/ Request \/ UNCHANGED vars
  BY <1>3, RequestsBeside DEF Tick, Ledger!Tick, vars, ledger
<1> QED
  BY <1>1, <1>2, <1>3, StepCases

\* A status is COMPLETED in the commit of the bundle it tells of.
LEMMA ClaimStands ==
  ASSUME StatusInv, [Next]_vars
  PROVE  evaluation' = "COMPLETED" => volRows' # {}
<1>k. Kept
  BY KeptStep DEF StatusInv
<1>1. CASE evaluation' = evaluation
  BY <1>1, <1>k DEF StatusInv, StatusTellsVolatility, Kept
<1>2. ASSUME NEW c \in Calls, LedgerStep(c) PROVE evaluation' = evaluation
  BY <1>2, LedgerMoves DEF StatusInv, WholeInv, rows
<1>3. ASSUME NEW c \in Calls, StageStep(c), evaluation' # evaluation
      PROVE  evaluation' # "COMPLETED" \/ volRows' # {}
  <2>1. CASE VolatilityPersist(c) \/ VolatilityPersistLost(c)
    <3>1. PICK fitted \in Estimates(held[c]) : volRows' = fitted
      BY <2>1 DEF VolatilityPersist, VolatilityPersistLost, CreateStates
    <3> QED
      BY <3>1 DEF Estimates
  <2>2. CASE StageRaise(c) \/ EnsureCreate(c)
    BY <1>3, <2>2 DEF StageRaise, EnsureCreate
  <2>3. CASE \/ EnsureRead(c) \/ VolatilityRead(c) \/ VolatilityConflict(c)
             \/ SignalsRead(c) \/ SignalsConflict(c) \/ ControlRead(c)
             \/ SignalsPersist(c) \/ ControlPersist(c)
    BY <1>3, <2>3 DEF EnsureRead, VolatilityRead, VolatilityConflict, SignalsRead,
       SignalsConflict, ControlRead, SignalsPersist, ControlPersist, rows
  <2> QED
    BY <1>3, <2>1, <2>2, <2>3, StageCases
<1>4. CASE Tick \/ UNCHANGED vars
  BY <1>1, <1>4 DEF Tick, vars, rows
<1>5. CASE RequestPersists
  <2>1. PICK fitted \in Estimates(holdings) : volRows' = fitted
    BY <1>5 DEF RequestPersists, CreateStates
  <2> QED
    BY <2>1 DEF Estimates
<1>6. CASE Request /\ ~RequestPersists
  BY <1>1, <1>6 DEF Request, AddHolding, RequestCreates, RequestFails, Optimize,
     OptimizeAcross, PaperRebalance, PaperSnapshot, rows
<1> QED
  BY <1>1, <1>2, <1>3, <1>4, <1>5, <1>6, StepCases

\* A call stands before _mark_failed with a bundle only if it lost the
\* acknowledgement.
LEMMA MarkingStep ==
  ASSUME StatusInv, [Next]_vars
  PROVE  \A c \in Calls : at'[c] = "marking" => "ack" \in disturbed'
<1>d. disturbed \subseteq disturbed'
  BY DisturbedGrows DEF StatusInv, WholeInv
<1>t. TypeOK
  BY DEF StatusInv, WholeInv
<1>1. ASSUME NEW c \in Calls, at'[c] = at[c]
      PROVE  at'[c] = "marking" => "ack" \in disturbed'
  BY <1>1, <1>d DEF StatusInv
<1>2. ASSUME NEW c \in Calls, LedgerStep(c), NEW d \in Calls, at'[d] # at[d]
      PROVE  at'[d] # "marking"
  BY <1>2, <1>t, LedgerStands
<1>3. ASSUME NEW c \in Calls, StageStep(c)
      PROVE  at'[c] = "marking" => "ack" \in disturbed'
  <2> USE <1>t DEF TypeOK, Goto, Hold
  <2>1. CASE VolatilityPersistLost(c)
    BY <2>1 DEF VolatilityPersistLost
  <2>2. CASE StageRaise(c)
    BY <2>2 DEF StageRaise, Raise
  <2>3. CASE EnsureRead(c) \/ EnsureCreate(c)
    BY <2>3 DEF EnsureRead, EnsureCreate
  <2>4. CASE VolatilityRead(c) \/ VolatilityConflict(c) \/ VolatilityPersist(c)
    BY <2>4 DEF VolatilityRead, VolatilityConflict, VolatilityPersist
  <2>5. CASE SignalsRead(c) \/ SignalsConflict(c) \/ SignalsPersist(c)
    BY <2>5 DEF SignalsRead, SignalsConflict, SignalsPersist
  <2>6. CASE ControlRead(c) \/ ControlPersist(c)
    BY <2>6 DEF ControlRead, ControlPersist
  <2> QED
    BY <1>3, <2>1, <2>2, <2>3, <2>4, <2>5, <2>6, StageCases
<1>4. ASSUME NEW c \in Calls, StageStep(c), NEW d \in Calls \ {c}
      PROVE  at'[d] = at[d]
  BY <1>4, <1>t, OthersStand
<1>5. CASE Tick \/ Request \/ UNCHANGED vars
  <2>1. at' = at
    BY <1>5, RequestsBeside DEF Tick, vars
  <2> QED
    BY <1>1, <2>1
<1> QED
  BY <1>1, <1>2, <1>3, <1>4, <1>5, StepCases

\* The call that computes finds no bundle, and writes it with the status.
LEMMA StatusStep ==
  ASSUME StatusInv, [Next]_vars, Undenied'
  PROVE  /\ \A c \in Calls : Stands(c, "computing")' => volRows' = {}
         /\ volRows' # {} => evaluation' = "COMPLETED"
<1>a. Undenied /\ Alone
  BY DisturbedGrows DEF Undenied, Alone, StatusInv, WholeInv
<1>s. volRows # {} => evaluation = "COMPLETED"
  BY <1>a DEF Undenied, StatusInv, StatusTellsVolatility
<1>c. \A c \in Calls : Stands(c, "computing") => volRows = {}
  BY <1>a DEF StatusInv
<1>t. TypeOK
  BY DEF StatusInv, WholeInv
<1>1. ASSUME NEW c \in Calls, LedgerStep(c)
      PROVE  /\ \A d \in Calls : Stands(d, "computing")' => volRows' = {}
             /\ volRows' # {} => evaluation' = "COMPLETED"
  <2>1. UNCHANGED <<evaluation, volRows>>
    BY <1>1, <1>t, LedgerMoves DEF rows
  <2>2. ASSUME NEW d \in Calls, Stands(d, "computing")' PROVE Stands(d, "computing")
    BY <1>1, <1>t, <2>2, LedgerMoves, LedgerStands DEF StatusInv, Unclaimed, Stands
  <2> QED
    BY <1>s, <1>c, <2>1, <2>2
<1>2. ASSUME NEW c \in Calls, StageStep(c)
      PROVE  /\ \A d \in Calls : Stands(d, "computing")' => volRows' = {}
             /\ volRows' # {} => evaluation' = "COMPLETED"
  <2>1. pc[c] \in Ledger!Executing /\ pc' = pc
    BY <1>2, StagesExecute
  <2>2. \A d \in Calls : pc[d] \in Ledger!Executing => d = c
    BY <1>a, <2>1 DEF StatusInv
  <2>3. /\ volRows' # {} => evaluation' = "COMPLETED"
        /\ at'[c] = "computing" => volRows' = {}
    <3> USE <1>t, <1>s DEF TypeOK, Goto, Hold, rows
    <3>1. CASE StageRaise(c)
      <4>1. ASSUME Stands(c, "computing") \/ Stands(c, "marking") PROVE volRows = {}
        BY <4>1, <1>a, <1>c DEF StatusInv, Stands, Undenied
      <4> QED
        BY <3>1, <4>1 DEF StageRaise, Raise
    <3>2. CASE EnsureRead(c) \/ EnsureCreate(c)
      BY <3>2, <1>s DEF EnsureRead, EnsureCreate, StatusInv, WholeInv, Layered
    <3>3. CASE VolatilityRead(c) \/ VolatilityConflict(c)
      BY <3>3 DEF VolatilityRead, VolatilityConflict, HasRegime
    <3>4. CASE VolatilityPersist(c) \/ VolatilityPersistLost(c)
      BY <3>4 DEF VolatilityPersist, VolatilityPersistLost
    <3>5. CASE SignalsRead(c) \/ SignalsPersist(c) \/ SignalsConflict(c)
      BY <3>5 DEF SignalsRead, SignalsPersist, SignalsConflict
    <3>6. CASE ControlRead(c) \/ ControlPersist(c)
      BY <3>6 DEF ControlRead, ControlPersist
    <3> QED
      BY <1>2, <3>1, <3>2, <3>3, <3>4, <3>5, <3>6, StageCases
  <2> QED
    BY <2>1, <2>2, <2>3 DEF Stands
<1>3. CASE Tick \/ UNCHANGED vars
  BY <1>3, <1>s, <1>c DEF Tick, Ledger!Tick, vars, ledger, rows, Stands
<1>4. CASE Request
  <2>1. "request" \notin disturbed'
    BY DEF Undenied
  <2>2. UNCHANGED <<evaluation, volRows>>
    BY <1>4, <2>1 DEF Request, AddHolding, RequestCreates, RequestPersists, RequestFails,
       Optimize, OptimizeAcross, PaperRebalance, PaperSnapshot, rows
  <2>3. UNCHANGED <<pc, at>>
    BY <1>4, RequestsBeside DEF ledger
  <2> QED
    BY <1>s, <1>c, <2>2, <2>3 DEF Stands
<1> QED
  BY <1>1, <1>2, <1>3, <1>4, StepCases

LEMMA StatusInductive == StatusInv /\ [Next]_vars => StatusInv'
<1> SUFFICES ASSUME StatusInv, [Next]_vars PROVE StatusInv'
  OBVIOUS
<1>1. WholeInv' /\ Unclaimed'
  BY WholeInductive, UnclaimedStep DEF StatusInv, WholeInv
<1>2. \A c \in Calls : at'[c] = "marking" => "ack" \in disturbed'
  BY MarkingStep
<1>3. Alone' => \A c, d \in Calls :
         pc'[c] \in Ledger!Executing /\ pc'[d] \in Ledger!Executing => c = d
  BY AloneStep
<1>4. Undenied' => /\ \A c \in Calls : Stands(c, "computing")' => volRows' = {}
                   /\ volRows' # {} => evaluation' = "COMPLETED"
  BY StatusStep
<1>5. StatusTellsVolatility'
  BY <1>4, ClaimStands DEF StatusTellsVolatility, Undenied
<1> QED
  BY <1>1, <1>2, <1>3, <1>4, <1>5 DEF StatusInv

LEMMA StatusAlways == Spec => []StatusInv
BY StatusInit, StatusInductive, PTL DEF Spec

\* The status never claims a bundle that is not there; and as long as one
\* evaluation of the id runs at a time, and is told of its commits, it denies
\* none.
THEOREM StatusIsTrue == Spec => []StatusTellsVolatility
BY StatusAlways, PTL DEF StatusInv

--------------------------------------------------------------------------------
(***************************************************************************)
(* What bars a run by what others wrote.                                   *)
(***************************************************************************)

\* Every holding of the run's beginning is still all of them, and has been
\* estimated whenever the portfolio was.
Steady == disturbed \cap {"holding", "fit"} = {}

\* Every bundle is of all the holdings, and so is what a stage computes with.
Tidy ==
    /\ volRows \in {{}, holdings}
    /\ signals \in {{}, holdings}
    /\ \A c \in Calls :
          at[c] \in {"computing", "signalling", "controlling"} => held[c] = holdings

\* An event comes with its targets, but for a paper rebalance's; the control
\* stage's snapshot with its event.
Placed ==
    /\ event \in {"control", "optimize", "foreign"} => targets # {}
    /\ snapshot = "control" => event \in {"control", "optimize"}

\* A ticker that was there twice from the beginning is read twice.
Stuck ==
    doubled /\ "holding" \notin disturbed =>
        signals = {} /\ \A c \in Calls : at[c] # "signalling"

BarredInv ==
    /\ WholeInv
    /\ Unclaimed
    /\ Steady => Tidy
    /\ Placed
    /\ Stuck
    /\ BlockedOnlyByInterference

LEMMA BarredInit == Init => BarredInv
BY WholeInit DEF Init, BarredInv, Unclaimed, Tidy, Placed, Stuck,
   BlockedOnlyByInterference, Ledger!Init

\* A stage leaves bundles of all the holdings, or a missing estimate is noted.
LEMMA TidyStage ==
  ASSUME WholeInv, Tidy, NEW c \in Calls, StageStep(c), Steady'
  PROVE  Tidy'
<1>h. holdings' = holdings
  BY StagesLeaveLedger DEF book
<1>o. \A d \in Calls \ {c} : at'[d] = at[d] /\ held'[d] = held[d]
  BY OthersStand DEF WholeInv
<1>1. volRows' \in {{}, holdings} /\ signals' \in {{}, holdings}
  <2> USE DEF Tidy, rows
  <2>1. CASE StageRaise(c)
    BY <2>1 DEF StageRaise
  <2>2. CASE \/ EnsureRead(c) \/ VolatilityRead(c) \/ VolatilityConflict(c)
             \/ SignalsRead(c) \/ SignalsConflict(c) \/ ControlRead(c) \/ EnsureCreate(c)
             \/ ControlPersist(c)
    BY <2>2 DEF EnsureRead, VolatilityRead, VolatilityConflict, SignalsRead,
       SignalsConflict, ControlRead, EnsureCreate, ControlPersist
  <2>3. CASE VolatilityPersist(c) \/ VolatilityPersistLost(c)
    <3>1. PICK fitted \in Estimates(held[c]) :
             volRows' = fitted /\ (fitted = held[c] \/ "fit" \in disturbed')
      BY <2>3 DEF VolatilityPersist, VolatilityPersistLost, CreateStates
    <3>2. fitted = held[c] /\ held[c] = holdings
      BY <2>3, <3>1 DEF Steady, VolatilityPersist, VolatilityPersistLost, Stands
    <3> QED
      BY <2>3, <3>1, <3>2 DEF VolatilityPersist, VolatilityPersistLost
  <2>4. CASE SignalsPersist(c)
    BY <2>4 DEF SignalsPersist, CreateBundle, Stands
  <2> QED
    BY <2>1, <2>2, <2>3, <2>4, StageCases
<1>2. at'[c] \in {"computing", "signalling", "controlling"} => held'[c] = holdings
  <2> USE DEF WholeInv, TypeOK, Goto, Hold
  <2>1. CASE StageRaise(c)
    BY <2>1 DEF StageRaise, Raise
  <2>2. CASE EnsureRead(c) \/ EnsureCreate(c)
    BY <2>2 DEF EnsureRead, EnsureCreate
  <2>3. CASE VolatilityRead(c) \/ VolatilityConflict(c)
    BY <2>3 DEF VolatilityRead, VolatilityConflict
  <2>4. CASE VolatilityPersist(c) \/ VolatilityPersistLost(c)
    BY <2>4 DEF VolatilityPersist, VolatilityPersistLost
  <2>5. CASE SignalsRead(c) \/ SignalsPersist(c) \/ SignalsConflict(c)
    BY <2>5 DEF SignalsRead, SignalsPersist, SignalsConflict
  <2>6. CASE ControlRead(c) \/ ControlPersist(c)
    BY <2>6 DEF ControlRead, ControlPersist
  <2> QED
    BY <2>1, <2>2, <2>3, <2>4, <2>5, <2>6, StageCases
<1> QED
  BY <1>h, <1>o, <1>1, <1>2 DEF Tidy

LEMMA TidyStep ==
  ASSUME BarredInv, [Next]_vars, Steady'
  PROVE  Tidy'
<1>d. disturbed \subseteq disturbed'
  BY DisturbedGrows DEF BarredInv, WholeInv
<1>q. Tidy
  BY <1>d DEF Steady, BarredInv
<1>1. ASSUME NEW c \in Calls, LedgerStep(c) PROVE Tidy'
  <2>1. UNCHANGED <<book, rows, held>>
    BY <1>1, LedgerMoves DEF BarredInv, WholeInv
  <2>2. \A d \in Calls : at'[d] = at[d] \/ at'[d] = "volatility"
    BY <1>1, LedgerStands DEF BarredInv, WholeInv
  <2> QED
    BY <1>q, <2>1, <2>2 DEF Tidy, book, rows
<1>2. ASSUME NEW c \in Calls, StageStep(c) PROVE Tidy'
  BY <1>q, <1>2, TidyStage DEF BarredInv
<1>3. CASE Tick \/ UNCHANGED vars
  BY <1>q, <1>3 DEF Tick, vars, book, rows, Tidy
<1>4. CASE AddHolding
  <2>1. evaluation = "NONE" /\ \A c \in Calls : pc[c] = "new"
    BY <1>4 DEF AddHolding, Steady
  <2>2. volRows = {} /\ signals = {} /\ \A c \in Calls : at[c] = "begun"
    BY <2>1 DEF BarredInv, WholeInv, Layered, Unclaimed
  <2> QED
    BY <1>4, <2>2 DEF AddHolding, rows, Tidy
<1>5. CASE RequestPersists
  <2>1. PICK fitted \in Estimates(holdings) :
           volRows' = fitted /\ (fitted = holdings \/ "fit" \in disturbed')
    BY <1>5 DEF RequestPersists, CreateStates
  <2>2. volRows' = holdings
    BY <2>1 DEF Steady
  <2> QED
    BY <1>q, <1>5, <2>2 DEF RequestPersists, Beside, book, Tidy
<1>6. CASE Request /\ ~AddHolding /\ ~RequestPersists
  <2>1. UNCHANGED <<book, volRows, signals, at, held>>
    BY <1>6 DEF Request, RequestCreates, RequestFails, Optimize, OptimizeAcross,
       PaperRebalance, PaperSnapshot, Beside
  <2> QED
    BY <1>q, <2>1 DEF Tidy, book
<1> QED
  BY <1>1, <1>2, <1>3, <1>4, <1>5, <1>6, StepCases

\* The places of event and snapshot, once taken by others, stay taken.
PlaceKept ==
    snapshot \in {"across", "paper"} => snapshot' \in {"across", "paper"}

LEMMA PlacedStep ==
  ASSUME BarredInv, [Next]_vars
  PROVE  Placed' /\ PlaceKept
<1> USE DEF BarredInv, Placed, PlaceKept
<1>1. CASE UNCHANGED <<targets, event, snapshot>>
  BY <1>1
<1>2. ASSUME NEW c \in Calls, LedgerStep(c) PROVE UNCHANGED <<targets, event, snapshot>>
  BY <1>2, LedgerMoves DEF WholeInv, rows
<1>3. ASSUME NEW c \in Calls, StageStep(c)
      PROVE  UNCHANGED <<targets, event, snapshot>> \/ ControlPersist(c)
  BY <1>3, StageCases DEF StageRaise, EnsureRead, VolatilityRead, VolatilityConflict,
     SignalsRead, SignalsConflict, ControlRead, EnsureCreate, VolatilityPersist,
     VolatilityPersistLost, SignalsPersist, rows
<1>4. ASSUME NEW c \in Calls, ControlPersist(c) PROVE Placed' /\ PlaceKept
  BY <1>4 DEF ControlPersist, CreateTargets, CreateRebalance, CreateSnapshot, Stands,
     WholeInv, Progress
<1>5. CASE Optimize
  <2>1. targets' # {}
    BY <1>5 DEF Optimize, CreateTargets
  <2>2. event = "none"
    BY <1>5 DEF Optimize, CreateRebalance, HasEvent
  <2>3. \/ event' = "optimize" /\ snapshot = "none"
        \/ event' = "foreign" /\ snapshot' = snapshot
    BY <1>5 DEF Optimize, CreateRebalance, CreateSnapshot
  <2> QED
    BY <2>1, <2>2, <2>3
<1>6. CASE OptimizeAcross \/ PaperRebalance \/ PaperSnapshot
  BY <1>6 DEF OptimizeAcross, PaperRebalance, PaperSnapshot, CreateSnapshot
<1>7. CASE \/ Tick \/ UNCHANGED vars
           \/ AddHolding \/ RequestCreates \/ RequestPersists \/ RequestFails
  BY <1>1, <1>7 DEF Tick, vars, rows, AddHolding, RequestCreates, RequestPersists,
     RequestFails
<1> QED
  BY <1>1, <1>2, <1>3, <1>4, <1>5, <1>6, <1>7, StepCases DEF Request

\* A ticker that is there twice keeps its signals from being written.
LEMMA StuckStep ==
  ASSUME BarredInv, [Next]_vars, doubled', "holding" \notin disturbed'
  PROVE  signals' = {} /\ \A c \in Calls : at'[c] # "signalling"
<1>d. "holding" \notin disturbed
  BY DisturbedGrows DEF BarredInv, WholeInv
<1>1. CASE AddHolding
  <2>1. evaluation = "NONE" /\ \A c \in Calls : pc[c] = "new"
    BY <1>1 DEF AddHolding
  <2>2. signals = {} /\ \A c \in Calls : at[c] = "begun"
    BY <2>1 DEF BarredInv, WholeInv, Layered, Unclaimed
  <2> QED
    BY <1>1, <2>2 DEF AddHolding, rows
<1>2. CASE ~AddHolding
  <2>1. doubled' = doubled
    BY <1>2, StepCases, LedgerMoves, StagesLeaveLedger DEF BarredInv, WholeInv, book,
       Request, RequestCreates, RequestPersists, RequestFails, Optimize, OptimizeAcross,
       PaperRebalance, PaperSnapshot, Beside, Tick, vars
  <2>2. doubled
    BY <2>1
  <2>3. signals = {} /\ \A c \in Calls : at[c] # "signalling"
    BY <1>d, <2>2 DEF BarredInv, Stuck
  <2>4. ASSUME NEW c \in Calls, LedgerStep(c)
        PROVE  signals' = {} /\ \A d \in Calls : at'[d] # "signalling"
    BY <2>3, <2>4, LedgerMoves, LedgerStands DEF BarredInv, WholeInv, rows
  <2>5. ASSUME NEW c \in Calls, StageStep(c) PROVE signals' = signals
    BY <2>3, <2>5, StageCases DEF StageRaise, EnsureRead, VolatilityRead,
       VolatilityConflict, SignalsRead, SignalsConflict, ControlRead, EnsureCreate,
       VolatilityPersist, VolatilityPersistLost, SignalsPersist, ControlPersist, Stands,
       rows
  <2>6. ASSUME NEW c \in Calls, StageStep(c) PROVE at'[c] # "signalling"
    <3> USE DEF BarredInv, WholeInv, TypeOK, Goto
    <3>1. CASE StageRaise(c)
      BY <3>1 DEF StageRaise, Raise
    <3>2. CASE EnsureRead(c) \/ EnsureCreate(c)
      BY <3>2 DEF EnsureRead, EnsureCreate
    <3>3. CASE \/ VolatilityRead(c) \/ VolatilityConflict(c) \/ VolatilityPersist(c)
               \/ VolatilityPersistLost(c)
      BY <3>3 DEF VolatilityRead, VolatilityConflict, VolatilityPersist,
         VolatilityPersistLost
    <3>4. CASE SignalsRead(c)
      BY <2>2, <3>4 DEF SignalsRead
    <3>5. CASE SignalsPersist(c) \/ SignalsConflict(c)
      BY <3>5 DEF SignalsPersist, SignalsConflict
    <3>6. CASE ControlRead(c) \/ ControlPersist(c)
      BY <3>6 DEF ControlRead, ControlPersist
    <3> QED
      BY <2>6, <3>1, <3>2, <3>3, <3>4, <3>5, <3>6, StageCases
  <2>7. CASE Tick \/ UNCHANGED vars
    BY <2>3, <2>7 DEF Tick, vars, rows
  <2>8. CASE Request
    BY <1>2, <2>3, <2>8, RequestsBeside DEF Request, RequestCreates, RequestPersists,
       RequestFails, Optimize, OptimizeAcross, PaperRebalance, PaperSnapshot
  <2> QED
    BY <2>3, <2>4, <2>5, <2>6, <2>7, <2>8, StepCases, OthersStand DEF BarredInv, WholeInv
<1> QED
  BY <1>1, <1>2

\* A call raises for what others wrote only where they wrote it.
LEMMA RaisedRightly ==
  ASSUME BarredInv, NEW c \in Calls, StageStep(c), why'[c] # why[c]
  PROVE  /\ why'[c] = "missing" => ~Steady
         /\ why'[c] = "taken" => event = "paper" \/ snapshot \in {"across", "paper"}
         /\ why'[c] = "twice" => doubled /\ (signals = {} \/ "holding" \in disturbed)
<1> USE DEF BarredInv, WholeInv, TypeOK, Raise
<1>1. CASE EnsureRead(c) \/ EnsureCreate(c) \/ EnsureConflict(c)
  BY <1>1 DEF EnsureRead, EnsureCreate, EnsureConflict, notes
<1>2. CASE VolatilityStage(c) \/ TransientFailure(c)
  BY <1>2 DEF VolatilityStage, VolatilityEmpty, VolatilityRead, VolatilityFails,
     HistoryRefused, VolatilityPersist, VolatilityPersistLost, VolatilityConflict,
     TransientFailure, notes
<1>3. CASE SignalsMissing(c)
  BY <1>3 DEF SignalsMissing, Stands, Progress, LaterStages, Tidy
<1>4. CASE SignalsTwice(c)
  BY <1>4 DEF SignalsTwice, HasSignals, Stands, Progress
<1>5. CASE SignalsRead(c) \/ SignalsPersist(c) \/ SignalsConflict(c)
  BY <1>5 DEF SignalsRead, SignalsPersist, SignalsConflict, notes
<1>6. CASE ControlMissing(c)
  BY <1>6 DEF ControlMissing, Stands, Progress, LaterStages, Tidy, AssetStateComplete
<1>7. CASE ControlUnloadable(c)
  BY <1>7 DEF ControlUnloadable, HasEvent, Loadable, Placed, EventWriters
<1>8. CASE ControlTwice(c)
  BY <1>8 DEF ControlTwice, Stands, Progress, LaterStages, Stuck
<1>9. CASE ControlConflict(c)
  BY <1>9 DEF ControlConflict, HasEvent, Loadable, Placed, EventWriters, SnapshotWriters
<1>10. CASE ControlRead(c) \/ ControlPersist(c) \/ ControlRefused(c)
  BY <1>10 DEF ControlRead, ControlPersist, ControlRefused, notes
<1> QED
  BY <1>1, <1>2, <1>3, <1>4, <1>5, <1>6, <1>7, <1>8, <1>9, <1>10
     DEF StageStep, EnsureStage, SignalsStage, ControlStage

\* Only the call whose stage raises notes why.
LEMMA WhyStands ==
  ASSUME TypeOK, [Next]_vars, NEW d \in Calls, why'[d] # why[d]
  PROVE  StageStep(d)
<1>1. ASSUME NEW c \in Calls, LedgerStep(c) PROVE FALSE
  BY <1>1, LedgerMoves
<1>2. ASSUME NEW c \in Calls, StageStep(c) PROVE c = d
  BY <1>2, StageCases DEF TypeOK, StageRaise, Raise, EnsureRead, VolatilityRead,
     VolatilityConflict, SignalsRead, SignalsConflict, ControlRead, EnsureCreate,
     VolatilityPersist, VolatilityPersistLost, SignalsPersist, ControlPersist, notes
<1>3. CASE Tick \/ Request \/ UNCHANGED vars
  BY <1>3, RequestsBeside DEF Tick, vars, notes
<1> QED
  BY <1>1, <1>2, <1>3, StepCases

LEMMA BlockedStep ==
  ASSUME BarredInv, [Next]_vars
  PROVE  BlockedOnlyByInterference'
<1>k. /\ disturbed \subseteq disturbed' /\ Kept /\ PlaceKept
      /\ doubled' /\ "holding" \notin disturbed' => signals' = {}
  BY DisturbedGrows, KeptStep, PlacedStep, StuckStep DEF BarredInv, WholeInv
<1> SUFFICES ASSUME NEW c \in Calls
    PROVE  /\ why'[c] = "missing" => disturbed' \cap {"holding", "fit"} # {}
           /\ why'[c] = "taken" => "paper" = event' \/ snapshot' \in {"across", "paper"}
           /\ why'[c] = "twice" => doubled' /\ (signals' = {} \/ "holding" \in disturbed')
  BY DEF BlockedOnlyByInterference
<1>1. /\ why'[c] = "missing" => ~Steady
      /\ why'[c] = "taken" => event = "paper" \/ snapshot \in {"across", "paper"}
      /\ why'[c] = "twice" => doubled
  <2>1. CASE why'[c] = why[c]
    BY <2>1 DEF BarredInv, BlockedOnlyByInterference, Steady
  <2>2. CASE why'[c] # why[c]
    BY <2>2, WhyStands, RaisedRightly DEF BarredInv, WholeInv
  <2> QED
    BY <2>1, <2>2
<1>2. why'[c] = "missing" => disturbed' \cap {"holding", "fit"} # {}
  BY <1>1, <1>k DEF Steady
<1>3. why'[c] = "taken" => "paper" = event' \/ snapshot' \in {"across", "paper"}
  BY <1>1, <1>k DEF Kept, PlaceKept
<1>4. why'[c] = "twice" => doubled' /\ (signals' = {} \/ "holding" \in disturbed')
  BY <1>1, <1>k DEF Kept
<1> QED
  BY <1>2, <1>3, <1>4

LEMMA BarredInductive == BarredInv /\ [Next]_vars => BarredInv'
<1> SUFFICES ASSUME BarredInv, [Next]_vars PROVE BarredInv'
  OBVIOUS
<1>1. WholeInv' /\ Unclaimed'
  BY WholeInductive, UnclaimedStep DEF BarredInv, WholeInv
<1>2. Stuck'
  BY StuckStep DEF Stuck
<1> QED
  BY <1>1, <1>2, TidyStep, PlacedStep, BlockedStep DEF BarredInv

LEMMA BarredAlways == Spec => []BarredInv
BY BarredInit, BarredInductive, PTL DEF Spec

\* What bars a run by what others wrote is the work of no crash, failed stage,
\* lost acknowledgement or overlap, and of no request for this evaluation.
THEOREM BarredOnlyFromOutside == Spec => []BlockedOnlyByInterference
BY BarredAlways, PTL DEF BarredInv

--------------------------------------------------------------------------------
(***************************************************************************)
(* The pipeline and its ledger.                                            *)
(***************************************************************************)

LedgerProofs == INSTANCE ScheduledRunsProofs

\* A step of the pipeline is one of the ledger, or leaves it alone.
LEMMA StepsOfLedger ==
  ASSUME [Next]_vars
  PROVE  [Ledger!Next]_Ledger!vars
<1> USE DEF Ledger!Next, Ledger!Step, Ledger!vars
<1>1. ASSUME NEW c \in Calls, LedgerStep(c) PROVE [Ledger!Next]_Ledger!vars
  BY <1>1 DEF LedgerStep, Claim, Attach, Complete, FailRun, Return, Crash
<1>2. ASSUME NEW c \in Calls, StageStep(c) PROVE UNCHANGED Ledger!vars
  BY <1>2, StagesLeaveLedger DEF ledger
<1>3. CASE Tick \/ Request \/ UNCHANGED vars
  BY <1>3, RequestsBeside DEF Tick, vars, ledger
<1> QED
  BY <1>1, <1>2, <1>3, StepCases

\* _execute uses the ledger as its methods allow: whatever the stages do, the
\* run's row and calls behave as ScheduledRuns says.
THEOREM PipelineRunsLedger == Spec => Ledger!Spec
<1>1. Init => Ledger!Init
  BY DEF Init
<1> QED
  BY <1>1, StepsOfLedger, PTL DEF Spec, Ledger!Spec

\* The theorems of ScheduledRunsProofs are about the same ledger.
LEMMA SameLedger ==
  /\ Ledger!Init => LedgerProofs!Init
  /\ [Ledger!Next]_Ledger!vars => [LedgerProofs!Next]_LedgerProofs!vars
<1>1. Ledger!Init => LedgerProofs!Init
  BY DEF Ledger!Init, LedgerProofs!Init, Ledger!NoRow, LedgerProofs!NoRow
<1>3. Ledger!Tick => LedgerProofs!Tick
  BY DEF Ledger!Tick, LedgerProofs!Tick, Ledger!InFlight, LedgerProofs!InFlight,
     Ledger!Executing, LedgerProofs!Executing
<1>4. ASSUME NEW c \in Calls,
             Ledger!Begin(c) \/ Ledger!InsertRow(c) \/ Ledger!InsertConflict(c)
      PROVE  LedgerProofs!Begin(c) \/ LedgerProofs!Step(c)
  BY <1>4 DEF Ledger!Begin, LedgerProofs!Begin, LedgerProofs!Step,
     Ledger!InsertRow, LedgerProofs!InsertRow, Ledger!InsertConflict,
     LedgerProofs!InsertConflict, Ledger!ClaimedRow, LedgerProofs!ClaimedRow
<1>5. ASSUME NEW c \in Calls,
             Ledger!ReadRow(c) \/ Ledger!Reclaim(c) \/ Ledger!LoseReclaim(c)
      PROVE  LedgerProofs!Step(c)
  BY <1>5 DEF LedgerProofs!Step, Ledger!ReadRow, LedgerProofs!ReadRow, Ledger!Reclaim,
     LedgerProofs!Reclaim, Ledger!LoseReclaim, LedgerProofs!LoseReclaim,
     Ledger!ClaimedRow, LedgerProofs!ClaimedRow, Ledger!Retryable, LedgerProofs!Retryable
<1>6. ASSUME NEW c \in Calls,
             Ledger!AttachEvaluation(c) \/ Ledger!Complete(c) \/ Ledger!Return(c)
      PROVE  LedgerProofs!Step(c)
  BY <1>6 DEF LedgerProofs!Step, Ledger!AttachEvaluation, LedgerProofs!AttachEvaluation,
     Ledger!Complete, LedgerProofs!Complete, Ledger!Return, LedgerProofs!Return,
     Ledger!Written, LedgerProofs!Written
<1>7. ASSUME NEW c \in Calls, Ledger!Fail(c) \/ Ledger!Crash(c)
      PROVE  LedgerProofs!Fail(c) \/ LedgerProofs!Crash(c)
  BY <1>7 DEF Ledger!Fail, LedgerProofs!Fail, Ledger!Crash, LedgerProofs!Crash,
     Ledger!Written, LedgerProofs!Written, Ledger!InFlight, LedgerProofs!InFlight,
     Ledger!Executing, LedgerProofs!Executing
<1>8. Ledger!Next => LedgerProofs!Next
  BY <1>3, <1>4, <1>5, <1>6, <1>7 DEF Ledger!Next, Ledger!Step, LedgerProofs!Next
<1> QED
  BY <1>1, <1>8 DEF Ledger!vars, LedgerProofs!vars

LEMMA LedgerOfProofs == Spec => LedgerProofs!Spec
<1>1. Init => LedgerProofs!Init
  BY SameLedger DEF Init
<1>2. [Next]_vars => [LedgerProofs!Next]_LedgerProofs!vars
  BY SameLedger, StepsOfLedger
<1> QED
  BY <1>1, <1>2, PTL DEF Spec, LedgerProofs!Spec

\* With prompt calls, the pipeline too implements the lease that
\* docs/phase6_operations.md promises of a run.
THEOREM PipelineImplementsLease ==
  ASSUME PromptCalls, ~LostAcks
  PROVE  Spec => LedgerProofs!ImplementsLease
<1>1. LedgerProofs!Spec => LedgerProofs!ImplementsLease
  BY LedgerProofs!LedgerImplementsLease, LedgerAssumption
<1> QED
  BY <1>1, LedgerOfProofs, PTL

\* With prompt calls one call executes the run at a time.
LEMMA OneExecutes ==
  ASSUME PromptCalls
  PROVE  Spec => []Ledger!AtMostOneExecutor
<1>1. LedgerProofs!Spec =>
        [](LedgerProofs!AtMostOneExecutor /\ LedgerProofs!ExecutorOwnsRow)
  BY LedgerProofs!MutualExclusion, LedgerAssumption
<1>2. LedgerProofs!AtMostOneExecutor => Ledger!AtMostOneExecutor
  BY DEF LedgerProofs!AtMostOneExecutor, Ledger!AtMostOneExecutor,
     LedgerProofs!Executing, Ledger!Executing
<1> QED
  BY <1>1, <1>2, LedgerOfProofs, PTL

\* Nor does a claim overlap another then.
LEMMA AloneWhenPrompt ==
  ASSUME PromptCalls
  PROVE  Spec => []Alone
<1>1. Init => Alone
  BY DEF Init, Alone
<1>2. TypeOK /\ Ledger!AtMostOneExecutor' /\ Alone /\ [Next]_vars => Alone'
  <2> SUFFICES ASSUME TypeOK, Ledger!AtMostOneExecutor', Alone, [Next]_vars PROVE Alone'
    OBVIOUS
  <2> USE DEF Alone
  <2>1. ASSUME NEW c \in Calls, LedgerStep(c), ~Claim(c) PROVE Alone'
    BY <2>1 DEF LedgerStep, Attach, Complete, FailRun, Return, Crash, notes
  <2>2. ASSUME NEW c \in Calls, Claim(c) PROVE Alone'
    <3>1. ASSUME pc'[c] = "claimed", NEW d \in Calls, pc[d] \in Ledger!Executing
          PROVE  FALSE
      <4>1. pc[c] \notin Ledger!Executing /\ \A e \in Calls \ {c} : pc'[e] = pc[e]
        BY <2>2, <3>1 DEF Claim, TypeOK, Ledger!TypeOK, Ledger!Executing, Ledger!Begin,
           Ledger!InsertRow, Ledger!InsertConflict, Ledger!ReadRow, Ledger!Reclaim,
           Ledger!LoseReclaim
      <4>2. d # c /\ pc'[d] \in Ledger!Executing /\ pc'[c] \in Ledger!Executing
        BY <3>1, <4>1 DEF Ledger!Executing
      <4> QED
        BY <4>2 DEF Ledger!AtMostOneExecutor, Ledger!Executing
    <3> QED
      BY <2>2, <3>1 DEF Claim
  <2>3. ASSUME NEW c \in Calls, StageStep(c) PROVE Alone'
    BY <2>3, StagesMove DEF StageMove
  <2>4. CASE Tick \/ Request \/ UNCHANGED vars
    BY <2>4, RequestsDisturb DEF Tick, vars, notes
  <2> QED
    BY <2>1, <2>2, <2>3, <2>4, StepCases
<1> QED
  BY <1>1, <1>2, TypeCorrect, OneExecutes, PTL DEF Spec

\* No rival call, and no request for this evaluation.
Unrivalled ==
    disturbed \cap {"overlap", "request"} = {} /\ event \notin {"optimize", "foreign"}

\* What a call found missing is missing until the call writes it, and no call
\* meets a rival's rows.
Unraced ==
    /\ \A c \in Calls : Stands(c, "create") => evaluation = "NONE"
    /\ \A c \in Calls : Stands(c, "controlling") => event # "control"
    /\ \A c \in Calls : why[c] # "race"

RaceInv == StatusInv /\ (Unrivalled => Unraced)

LEMMA UnracedStage ==
  ASSUME StatusInv, Unrivalled, Unraced, NEW c \in Calls, StageStep(c)
  PROVE  Unraced'
<1>1. pc[c] \in Ledger!Executing /\ pc' = pc
  BY StagesExecute
<1>2. \A d \in Calls \ {c} : pc[d] \notin Ledger!Executing
  BY <1>1 DEF StatusInv, Unrivalled, Alone
<1>3. /\ at'[c] = "create" => evaluation' = "NONE"
      /\ at'[c] = "controlling" => event' # "control"
      /\ \A d \in Calls : why'[d] # "race"
  <2> USE DEF StatusInv, WholeInv, TypeOK, Unraced, Stands, Goto, Raise, rows, notes
  <2>1. CASE EnsureRead(c) \/ EnsureCreate(c) \/ EnsureConflict(c)
    BY <2>1 DEF EnsureRead, EnsureCreate, EnsureConflict
  <2>2. CASE VolatilityStage(c) \/ TransientFailure(c)
    BY <2>2 DEF VolatilityStage, VolatilityEmpty, VolatilityRead, VolatilityFails,
       HistoryRefused, VolatilityPersist, VolatilityPersistLost, VolatilityConflict,
       TransientFailure
  <2>3. CASE SignalsStage(c)
    BY <2>3 DEF SignalsStage, SignalsRead, SignalsMissing, SignalsPersist,
       SignalsConflict, SignalsTwice
  <2>4. CASE ControlRead(c)
    BY <2>4 DEF ControlRead, HasEvent
  <2>5. CASE \/ ControlMissing(c) \/ ControlUnloadable(c) \/ ControlTwice(c)
             \/ ControlRefused(c) \/ ControlPersist(c)
    BY <2>5 DEF ControlMissing, ControlUnloadable, ControlTwice, ControlRefused,
       ControlPersist
  <2>6. CASE ControlConflict(c)
    <3>1. event # "control"
      BY <2>6, <1>1 DEF ControlConflict
    <3>2. ~Loadable
      BY <3>1 DEF Loadable, HasEvent, Layered, Unrivalled
    <3> QED
      BY <2>6, <3>2 DEF ControlConflict
  <2> QED
    BY <2>1, <2>2, <2>3, <2>4, <2>5, <2>6 DEF StageStep, EnsureStage, ControlStage
<1> QED
  BY <1>1, <1>2, <1>3 DEF Unraced, Stands

LEMMA RaceInductive == RaceInv /\ [Next]_vars => RaceInv'
<1> SUFFICES ASSUME RaceInv, [Next]_vars PROVE RaceInv'
  OBVIOUS
<1>1. StatusInv /\ StatusInv' /\ TypeOK /\ Kept
  BY StatusInductive, KeptStep DEF RaceInv, StatusInv, WholeInv
<1>2. SUFFICES ASSUME Unrivalled' PROVE Unraced'
  BY <1>1 DEF RaceInv
<1>3. Unrivalled /\ Unraced
  BY <1>1, <1>2, DisturbedGrows DEF Unrivalled, Kept, RaceInv
<1>4. ASSUME NEW c \in Calls, LedgerStep(c) PROVE Unraced'
  <2>1. UNCHANGED <<evaluation, event, why>>
    BY <1>1, <1>4, LedgerMoves DEF rows
  <2>2. ASSUME NEW d \in Calls, NEW s \in {"create", "controlling"}, Stands(d, s)'
        PROVE  Stands(d, s)
    BY <1>1, <1>4, <2>2, LedgerMoves, LedgerStands DEF Stands, StatusInv, Unclaimed
  <2> QED
    BY <1>3, <2>1, <2>2 DEF Unraced
<1>5. ASSUME NEW c \in Calls, StageStep(c) PROVE Unraced'
  BY <1>1, <1>3, <1>5, UnracedStage
<1>6. CASE Tick \/ UNCHANGED vars
  BY <1>3, <1>6 DEF Tick, Ledger!Tick, vars, ledger, rows, notes, Unraced, Stands
<1>7. CASE Request
  <2>1. UNCHANGED <<pc, at, why>>
    BY <1>7, RequestsBeside DEF ledger
  <2>2. \/ evaluation' = evaluation /\ event' # "control"
        \/ UNCHANGED <<evaluation, event>>
    BY <1>2, <1>7 DEF Unrivalled, Request, AddHolding, RequestCreates, RequestPersists,
       RequestFails, Optimize, OptimizeAcross, PaperRebalance, PaperSnapshot, rows,
       CreateRebalance
  <2> QED
    BY <1>3, <2>1, <2>2 DEF Unraced, Stands
<1> QED
  BY <1>4, <1>5, <1>6, <1>7, StepCases

\* With prompt calls no claim overlaps another; unless a request evaluates too or
\* an acknowledgement is lost, the evaluation's status always tells whether the
\* volatility bundle is there; and unless a request evaluates or optimizes for
\* the evaluation, no attempt meets the rows of a rival.
THEOREM PromptRunsAreAlone ==
  ASSUME PromptCalls
  PROVE  Spec => [](/\ "overlap" \notin disturbed
                    /\ disturbed \cap {"request", "ack"} = {} =>
                           (evaluation = "COMPLETED" <=> volRows # {})
                    /\ "request" \notin disturbed
                       /\ event \notin {"optimize", "foreign"} =>
                           \A c \in Calls : why[c] # "race")
<1> DEFINE P == /\ "overlap" \notin disturbed
                /\ disturbed \cap {"request", "ack"} = {} =>
                       (evaluation = "COMPLETED" <=> volRows # {})
                /\ "request" \notin disturbed
                   /\ event \notin {"optimize", "foreign"} =>
                       \A c \in Calls : why[c] # "race"
<1>1. Init => RaceInv
  BY StatusInit DEF Init, RaceInv, Unraced, Stands, Ledger!Init, Ledger!Executing
<1>2. Spec => []RaceInv
  BY <1>1, RaceInductive, PTL DEF Spec
<1>3. RaceInv /\ Alone => P
  BY DEF RaceInv, Alone, Unrivalled, Unraced, StatusInv, StatusTellsVolatility
<1> QED
  BY <1>2, <1>3, AloneWhenPrompt, PTL

================================================================================
