-------------------------- MODULE StressHistoryProofs --------------------------
(***************************************************************************)
(* Theorems about the stress history, for any evaluations of any number of *)
(* days, any usable days and any minimum history.                          *)
(***************************************************************************)
EXTENDS StressHistory, FiniteSetTheorems, WellFoundedInduction, TLAPS

--------------------------------------------------------------------------------
(***************************************************************************)
(* Maxima, and the latest days of a set.  Finite induction is replaced by  *)
(* the well-foundedness of the strict subsets of a finite set.             *)
(***************************************************************************)

\* A finite set of integers that is not empty has a maximum: a member with
\* the fewest members above it.
LEMMA MaxExists ==
  ASSUME NEW S, S \subseteq Int, IsFiniteSet(S), S # {}
  PROVE  \E x \in S : \A y \in S : y <= x
<1> DEFINE Above(x) == {y \in S : y > x}
           T == {Above(x) : x \in S}
<1>1. T \subseteq FiniteSubsetsOf(S) /\ T # {}
  <2>1. ASSUME NEW x \in S PROVE Above(x) \in FiniteSubsetsOf(S)
    <3>1. Above(x) \in SUBSET S
      OBVIOUS
    <3> HIDE DEF Above
    <3> QED
      BY <3>1, FS_Subset DEF FiniteSubsetsOf
  <2> HIDE DEF Above
  <2> QED
    BY <2>1
<1>2. PICK X \in T : \A Y \in T : <<Y, X>> \notin StrictSubsetOrdering(S)
  BY <1>1, FS_StrictSubsetOrderingWellFounded, WFMin, Zenon
<1>3. PICK x \in S : X = Above(x)
  BY <1>2
<1>4. ASSUME NEW y \in S, y > x PROVE FALSE
  <2>1. x \in Int /\ y \in Int /\ \A z \in S : z \in Int
    OBVIOUS
  <2>2. Above(y) \subseteq Above(x) /\ y \in Above(x) /\ y \notin Above(y)
    <3>1. \A z \in S : z > y => z > x
      BY <1>4, <2>1
    <3>2. ~(y > y)
      BY <2>1
    <3> HIDE DEF T
    <3> QED
      BY <1>4, <3>1, <3>2
  <2>3. Above(y) \in T /\ Above(x) \in T
    OBVIOUS
  <2>4. <<Above(y), Above(x)>> \in StrictSubsetOrdering(S)
    <3>1. Above(y) \in SUBSET S /\ Above(x) \in SUBSET S
      BY <1>1, <2>3 DEF FiniteSubsetsOf
    <3>2. Above(y) # Above(x)
      BY <2>2
    <3> HIDE DEF Above, T
    <3> QED
      BY <2>2, <3>1, <3>2 DEF StrictSubsetOrdering
  <2> QED
    BY <1>2, <1>3, <2>3, <2>4
<1> QED
  BY <1>4

LEMMA MaxIsMember ==
  ASSUME NEW S, S \subseteq Int, IsFiniteSet(S), S # {}
  PROVE  Max(S) \in S /\ \A y \in S : y <= Max(S)
BY MaxExists DEF Max

\* Latest(S, n) leaves a day out only if it has n days already.
LEMMA LatestIsFull ==
  ASSUME NEW S, S \subseteq Int, IsFiniteSet(S), NEW n \in Int, Latest(S, n) # S
  PROVE  Cardinality(Latest(S, n)) >= n
<1> DEFINE L == Latest(S, n)
<1>1. L \subseteq S /\ IsFiniteSet(L) /\ IsFiniteSet(S \ L) /\ S \ L # {}
  BY FS_Subset, FS_Difference DEF Latest
<1>2. PICK d \in S \ L : \A y \in S \ L : y <= d
  BY <1>1, MaxExists
<1>3. {x \in S : x > d} \subseteq L
  <2>1. \A y \in S \ L : ~(y > d)
    BY <1>2
  <2> HIDE DEF L
  <2> QED
    BY <2>1
<1>4. ~(Cardinality({x \in S : x > d}) < n)
  BY <1>2 DEF Latest
<1>5. /\ Cardinality({x \in S : x > d}) \in Nat
      /\ Cardinality({x \in S : x > d}) <= Cardinality(L)
      /\ Cardinality(L) \in Nat
  BY <1>1, <1>3, FS_Subset, FS_CardinalityType
<1> QED
  BY <1>4, <1>5

--------------------------------------------------------------------------------
(***************************************************************************)
(* Types.                                                                  *)
(***************************************************************************)

\* ReadFeedback finds a feedback row of an earlier day, or none.
LEMMA LatestFeedback ==
  ASSUME NEW F \in SUBSET Days, NEW day \in Days
  PROVE  LET m == Max({d \in F : d < day} \cup {NoDay})
         IN  m \in Days \cup {NoDay} /\ (m # NoDay => m < day)
<1> DEFINE S == {d \in F : d < day} \cup {NoDay}
<1>1. S \subseteq 0..LastDay /\ S # {}
  <2>1. \A d \in F : d \in 0..LastDay
    BY LastDayAssumption DEF Days
  <2>2. NoDay \in 0..LastDay
    BY LastDayAssumption DEF NoDay
  <2> QED
    BY <2>1, <2>2
<1>2. IsFiniteSet(S) /\ S \subseteq Int
  <2> HIDE DEF S
  <2>1. IsFiniteSet(0..LastDay)
    BY LastDayAssumption, FS_Interval
  <2>2. S \in SUBSET (0..LastDay)
    BY <1>1
  <2>3. IsFiniteSet(S)
    BY <2>1, <2>2, FS_Subset
  <2> QED
    BY <2>2, <2>3, LastDayAssumption
<1>3. Max(S) \in S
  <2> HIDE DEF S
  <2> QED
    BY <1>1, <1>2, MaxIsMember
<1> QED
  BY <1>3

LEMMA BootIsUsable ==
  ASSUME NEW e \in Evaluations
  PROVE  \A d \in Boot(e) : d \in Usable /\ d < DayOf(e) /\ d \notin DaysOf(Earlier(e))
BY DEF Boot, Bootstrap, Latest, Candidates, Returns

LEMMA TypeInit == Init => TypeOK
BY DEF Init, TypeOK

\* Every step keeps each variable in its type.
LEMMA TypeStep == TypeOK /\ [Next]_vars => TypeOK'
<1> SUFFICES ASSUME TypeOK, [Next]_vars PROVE TypeOK'
  OBVIOUS
<1> USE DEF TypeOK
<1>1. ASSUME NEW e \in Evaluations, ReadHistory(e) PROVE TypeOK'
  BY <1>1 DEF ReadHistory
<1>2. ASSUME NEW e \in Evaluations, ReadFeedback(e) PROVE TypeOK'
  <2>1. DayOf(e) \in Days
    BY DEF Evaluations, DayOf
  <2> QED
    BY <1>2, <2>1, LatestFeedback DEF ReadFeedback
<1>3. ASSUME NEW e \in Evaluations, Classify(e) PROVE TypeOK'
  <2>1. DayOf(e) \in Days /\ DaysOf(Earlier(e)) \subseteq Days
    BY DEF Evaluations, DayOf, DaysOf, Earlier
  <2> QED
    BY <1>3, <2>1, BootIsUsable DEF Classify
<1>4. ASSUME NEW e \in Evaluations, Reject(e) PROVE TypeOK'
  BY <1>4 DEF Reject
<1>5. ASSUME NEW e \in Evaluations, Persist(e) PROVE TypeOK'
  BY <1>5 DEF Persist
<1>6. ASSUME NEW e \in Evaluations, PaperRebalance(e) PROVE TypeOK'
  <2>1. DayOf(e) \in Days
    BY DEF Evaluations, DayOf
  <2> QED
    BY <1>6, <2>1 DEF PaperRebalance
<1>7. CASE UNCHANGED vars
  BY <1>7 DEF vars
<1> QED
  BY <1>1, <1>2, <1>3, <1>4, <1>5, <1>6, <1>7 DEF Next

\* The variables always have their types.
THEOREM TypeCorrect == Spec => []TypeOK
BY TypeInit, TypeStep, PTL DEF Spec

--------------------------------------------------------------------------------
(***************************************************************************)
(* The size of a window.                                                   *)
(***************************************************************************)

LEMMA WindowIsFinite ==
  ASSUME TypeOK, NEW e \in Evaluations
  PROVE  /\ IsFiniteSet(Earlier(e)) /\ IsFiniteSet(DaysOf(Earlier(e)))
         /\ IsFiniteSet(Boot(e)) /\ IsFiniteSet(Candidates(e))
         /\ Cardinality(Earlier(e)) \in Nat /\ Cardinality(DaysOf(Earlier(e))) \in Nat
         /\ Cardinality(Boot(e)) \in Nat
<1>1. IsFiniteSet(Days)
  BY LastDayAssumption, FS_Interval DEF Days
<1>2. IsFiniteSet(Evaluations)
  BY <1>1, KindsAssumption, FS_Product DEF Evaluations
<1>3. Earlier(e) \subseteq Evaluations /\ DaysOf(Earlier(e)) \subseteq Days
  BY DEF TypeOK, Earlier, DaysOf, Evaluations, DayOf
<1>4. Boot(e) \subseteq Usable /\ Candidates(e) \subseteq Usable
  BY BootIsUsable DEF Candidates, Returns
<1> QED
  BY <1>1, <1>2, <1>3, <1>4, UsableAssumption, FS_Subset, FS_CardinalityType

\* Rows of one day are counted once as a day, and as often as there are rows.
LEMMA DaysOfRows ==
  ASSUME TypeOK, NEW e \in Evaluations
  PROVE  /\ Cardinality(DaysOf(Earlier(e))) <= Cardinality(Earlier(e))
         /\ Distinct(e) => Cardinality(DaysOf(Earlier(e))) = Cardinality(Earlier(e))
<1> DEFINE E == Earlier(e)
           D == DaysOf(E)
           f == [x \in E |-> DayOf(x)]
<1>1. IsFiniteSet(E)
  BY WindowIsFinite
<1>2. f \in Surjection(E, D)
  BY DEF Surjection, DaysOf
<1>3. Distinct(e) => f \in Injection(E, D)
  <2>1. f \in [E -> D]
    BY <1>2 DEF Surjection
  <2>2. Distinct(e) => \A x, y \in E : f[x] = f[y] => x = y
    BY DEF Distinct
  <2> HIDE DEF E, D, f
  <2> QED
    BY <2>1, <2>2 DEF Injection, IsInjective
<1> HIDE DEF E, D, f
<1>4. /\ Cardinality(D) <= Cardinality(E)
      /\ Cardinality(D) = Cardinality(E) <=> f \in Injection(E, D)
  BY <1>1, <1>2, FS_Surjection
<1> QED
  BY <1>3, <1>4 DEF E, D

\* An accepted window has as many days as the strategy asks for.
LEMMA WindowSize ==
  ASSUME TypeOK, NEW e \in Evaluations, Distinct(e), Enough(e)
  PROVE  Cardinality(DaysOf(Earlier(e)) \cup Boot(e) \cup {DayOf(e)}) >= Required(e)
<1> DEFINE D == DaysOf(Earlier(e))
           B == Boot(e)
<1>1. IsFiniteSet(D) /\ IsFiniteSet(B) /\ D \cap B = {}
  BY WindowIsFinite DEF Distinct
<1>2. Cardinality(D) = Cardinality(Earlier(e))
  BY DaysOfRows
<1>3. Cardinality(D) \in Nat /\ Cardinality(B) \in Nat
  BY WindowIsFinite
<1>4. IsFiniteSet(D \cup B) /\ Cardinality(D \cup B) = Cardinality(D) + Cardinality(B)
  <2>1. IsFiniteSet(D \cup B)
        /\ Cardinality(D \cup B) = Cardinality(D) + Cardinality(B) - Cardinality(D \cap B)
    <3> HIDE DEF D, B
    <3> QED
      BY <1>1, FS_Union
  <2>2. Cardinality(D \cap B) = 0
    BY <1>1, FS_EmptySet
  <2> HIDE DEF D, B
  <2> QED
    BY <1>3, <2>1, <2>2
<1>5. DayOf(e) \notin D \cup B
  <2>1. DayOf(e) \in Int /\ \A g \in Earlier(e) : DayOf(g) < DayOf(e)
    BY LastDayAssumption DEF Evaluations, Days, DayOf, Earlier
  <2>2. DayOf(e) \notin D
    BY <2>1 DEF DaysOf
  <2>3. DayOf(e) \notin B
    BY <2>1, BootIsUsable
  <2> QED
    BY <2>2, <2>3
<1>6. Cardinality((D \cup B) \cup {DayOf(e)}) = Cardinality(D \cup B) + 1
  <2> HIDE DEF D, B
  <2> QED
    BY <1>4, <1>5, FS_AddElement
<1> QED
  BY <1>2, <1>3, <1>4, <1>6 DEF Enough

\* A window is too short only if rows and usable days together are too few.
LEMMA ShortForCause ==
  ASSUME TypeOK, NEW e \in Evaluations, ~Enough(e)
  PROVE  /\ source[e] = NoDay
         /\ Cardinality(DaysOf(Earlier(e)) \cup {d \in Usable : d < DayOf(e)})
                < MinimumHistory - 1
<1> DEFINE D == DaysOf(Earlier(e))
           B == Boot(e)
           C == Candidates(e)
           n == MinimumHistory - 1 - Cardinality(Earlier(e))
<1>1. /\ IsFiniteSet(D) /\ IsFiniteSet(B) /\ IsFiniteSet(C)
      /\ Cardinality(Earlier(e)) \in Nat /\ Cardinality(D) \in Nat /\ Cardinality(B) \in Nat
      /\ MinimumHistory \in Nat
  BY WindowIsFinite, MinimumHistoryAssumption
<1>2. source[e] = NoDay
  BY <1>1 DEF Enough, Required
<1>3. Cardinality(B) < n /\ n \in Int
  BY <1>1, <1>2 DEF Enough, Required
<1>4. B = Latest(C \ D, n)
  BY <1>2 DEF Boot, Bootstrap
<1>5. C \ D \subseteq Int /\ IsFiniteSet(C \ D)
  <2>1. C \subseteq Int
    BY UsableAssumption DEF Candidates, Returns
  <2> HIDE DEF C, D
  <2> QED
    BY <1>1, <2>1, FS_Difference
<1>6. B = C \ D
  <2> HIDE DEF B, C, D, n
  <2> QED
    BY <1>1, <1>3, <1>4, <1>5, LatestIsFull
<1>7. {d \in Usable : d < DayOf(e)} = C
  <2>1. DayOf(e) \in Int /\ \A d \in Usable : d \in Int
    BY UsableAssumption, LastDayAssumption DEF Evaluations, Days, DayOf
  <2>2. \A d \in Usable : d < DayOf(e) => d <= DayOf(e)
    BY <2>1
  <2> QED
    BY <2>2 DEF Candidates, Returns
<1>8. D \cup C = D \cup B
  BY <1>6
<1>9. Cardinality(D \cup B) <= Cardinality(D) + Cardinality(B)
  <2> HIDE DEF B, D
  <2>1. Cardinality(D \cup B) = Cardinality(D) + Cardinality(B) - Cardinality(D \cap B)
    BY <1>1, FS_Union
  <2>2. Cardinality(D \cap B) \in Nat
    BY <1>1, FS_Intersection, FS_CardinalityType
  <2> QED
    BY <1>1, <2>1, <2>2
<1>10. Cardinality(D) <= Cardinality(Earlier(e)) /\ Cardinality(D \cup B) \in Nat
  BY <1>1, DaysOfRows, FS_Union, FS_CardinalityType
<1> QED
  <2>1. Cardinality(D \cup B) < MinimumHistory - 1
    <3> HIDE DEF B, D
    <3> QED
      BY <1>1, <1>3, <1>9, <1>10 DEF n
  <2> QED
    BY <1>2, <1>7, <1>8, <2>1

--------------------------------------------------------------------------------
(***************************************************************************)
(* The invariant: what an evaluation has read is committed, and its window *)
(* is what the properties ask for.                                         *)
(***************************************************************************)
Sound(e) ==
    /\ prior[e] \subseteq persisted
    /\ \A d \in used[e] : d <= DayOf(e)
    /\ source[e] # NoDay => source[e] < DayOf(e)
    /\ pc[e] \in {"persist", "completed"} => Cardinality(used[e]) >= Required(e)
    /\ pc[e] = "short" =>
          /\ source[e] = NoDay
          /\ Cardinality(DaysOf(Earlier(e)) \cup {d \in Usable : d < DayOf(e)})
                 < MinimumHistory - 1
    /\ pc[e] = "duplicate" =>
          \E f, g \in persisted : f # g /\ DayOf(f) = DayOf(g) /\ DayOf(f) < DayOf(e)

HistoryInv == TypeOK /\ \A e \in Evaluations : Sound(e)

LEMMA HistoryInit == Init => HistoryInv
BY TypeInit DEF Init, HistoryInv, Sound

\* What others do leaves an evaluation sound: rows are never removed.
LEMMA OthersKeepSound ==
  ASSUME NEW g \in Evaluations, Sound(g), persisted \subseteq persisted',
         pc'[g] = pc[g], prior'[g] = prior[g], source'[g] = source[g], used'[g] = used[g]
  PROVE  Sound(g)'
<1>1. Earlier(g)' = Earlier(g) /\ Required(g)' = Required(g)
  BY DEF Earlier, Required
<1> QED
  BY <1>1 DEF Sound

LEMMA ReadHistorySound ==
  ASSUME TypeOK, NEW e \in Evaluations, Sound(e), ReadHistory(e)
  PROVE  Sound(e)'
BY DEF ReadHistory, TypeOK, Sound

LEMMA ReadFeedbackSound ==
  ASSUME TypeOK, NEW e \in Evaluations, Sound(e), ReadFeedback(e)
  PROVE  Sound(e)'
<1>1. DayOf(e) \in Days
  BY DEF Evaluations, DayOf
<1>2. source'[e] = Max({d \in feedback : d < DayOf(e)} \cup {NoDay})
  BY DEF ReadFeedback, TypeOK
<1>3. source'[e] # NoDay => source'[e] < DayOf(e)
  BY <1>1, <1>2, LatestFeedback DEF TypeOK
<1>4. pc'[e] = "window" /\ UNCHANGED <<persisted, prior, used>>
  BY DEF ReadFeedback, TypeOK
<1> QED
  BY <1>3, <1>4 DEF Sound

LEMMA ClassifySound ==
  ASSUME TypeOK, NEW e \in Evaluations, Sound(e), Classify(e)
  PROVE  Sound(e)'
<1>1. /\ used'[e] = DaysOf(Earlier(e)) \cup Boot(e) \cup {DayOf(e)}
      /\ pc'[e] = "persist" /\ UNCHANGED <<persisted, prior, source>>
  BY DEF Classify, TypeOK
<1>2. \A d \in used'[e] : d <= DayOf(e)
  <2>1. DayOf(e) \in Int
    BY LastDayAssumption DEF Evaluations, Days, DayOf
  <2>2. \A d \in DaysOf(Earlier(e)) : d \in Int /\ d < DayOf(e)
    BY LastDayAssumption DEF DaysOf, Earlier, TypeOK, Evaluations, Days, DayOf
  <2>3. \A d \in Boot(e) : d \in Int /\ d < DayOf(e)
    BY BootIsUsable, UsableAssumption
  <2> QED
    BY <1>1, <2>1, <2>2, <2>3
<1>3. Cardinality(used'[e]) >= Required(e)
  BY <1>1, WindowSize DEF Classify
<1>4. Required(e)' = Required(e)
  BY <1>1 DEF Required
<1> QED
  BY <1>1, <1>2, <1>3, <1>4 DEF Sound

\* A rejected window has a cause.
LEMMA RejectSound ==
  ASSUME TypeOK, NEW e \in Evaluations, Sound(e), Reject(e)
  PROVE  Sound(e)'
<1>1. UNCHANGED <<persisted, prior, source, used>> /\ Earlier(e)' = Earlier(e)
  BY DEF Reject, Earlier
<1>2. CASE ~Distinct(e) /\ pc' = [pc EXCEPT ![e] = "duplicate"]
  <2>1. DaysOf(Earlier(e)) \cap Boot(e) = {}
    BY BootIsUsable
  <2>2. PICK f \in Earlier(e), g \in Earlier(e) : DayOf(f) = DayOf(g) /\ f # g
    BY <1>2, <2>1 DEF Distinct
  <2>3. f \in persisted /\ g \in persisted /\ DayOf(f) < DayOf(e)
    BY DEF Earlier, Sound
  <2>4. pc'[e] = "duplicate"
    BY <1>2 DEF TypeOK
  <2> QED
    BY <1>1, <2>2, <2>3, <2>4 DEF Sound
<1>3. CASE Distinct(e) /\ ~Enough(e) /\ pc' = [pc EXCEPT ![e] = "short"]
  <2>1. pc'[e] = "short"
    BY <1>3 DEF TypeOK
  <2>2. /\ source[e] = NoDay
        /\ Cardinality(DaysOf(Earlier(e)) \cup {d \in Usable : d < DayOf(e)})
               < MinimumHistory - 1
    BY <1>3, ShortForCause
  <2> QED
    BY <1>1, <2>1, <2>2 DEF Sound
<1> QED
  BY <1>2, <1>3 DEF Reject

LEMMA PersistSound ==
  ASSUME TypeOK, NEW e \in Evaluations, pc[e] = "persist", Sound(e), Persist(e)
  PROVE  Sound(e)'
<1>1. Required(e)' = Required(e) /\ pc'[e] = "completed"
  BY DEF Persist, Required, TypeOK
<1> QED
  BY <1>1 DEF Persist, Sound

\* A step of one evaluation keeps every evaluation sound.
LEMMA HistoryStep == HistoryInv /\ [Next]_vars => HistoryInv'
<1> SUFFICES ASSUME HistoryInv, [Next]_vars PROVE HistoryInv'
  OBVIOUS
<1>t. TypeOK /\ TypeOK' /\ \A g \in Evaluations : Sound(g)
  BY TypeStep DEF HistoryInv
<1>1. ASSUME NEW e \in Evaluations,
             \/ ReadHistory(e) \/ ReadFeedback(e) \/ Classify(e) \/ Reject(e) \/ Persist(e),
             NEW g \in Evaluations
      PROVE  Sound(g)'
  <2>1. CASE g = e
    BY <1>1, <1>t, <2>1, ReadHistorySound, ReadFeedbackSound, ClassifySound, RejectSound,
       PersistSound DEF Persist
  <2>2. CASE g # e
    <3>1. persisted \subseteq persisted'
      BY <1>1 DEF ReadHistory, ReadFeedback, Classify, Reject, Persist
    <3>2. /\ pc'[g] = pc[g] /\ prior'[g] = prior[g]
          /\ source'[g] = source[g] /\ used'[g] = used[g]
      BY <1>1, <1>t, <2>2
         DEF TypeOK, ReadHistory, ReadFeedback, Classify, Reject, Persist
    <3> QED
      BY <1>t, <3>1, <3>2, OthersKeepSound
  <2> QED
    BY <2>1, <2>2
<1>2. ASSUME NEW e \in Evaluations, PaperRebalance(e) \/ UNCHANGED vars, NEW g \in Evaluations
      PROVE  Sound(g)'
  <2>1. UNCHANGED <<persisted, pc, prior, source, used>>
    BY <1>2 DEF PaperRebalance, vars
  <2> QED
    BY <1>t, <2>1, OthersKeepSound
<1> QED
  BY <1>t, <1>1, <1>2 DEF Next, HistoryInv

LEMMA HistoryInvariant == Spec => []HistoryInv
BY HistoryInit, HistoryStep, PTL DEF Spec

\* No regime is derived from its own day's or a later day's data.
THEOREM WindowsLookBack == Spec => []NoLookahead
<1>1. HistoryInv => NoLookahead
  BY DEF HistoryInv, Sound, NoLookahead
<1> QED
  BY <1>1, HistoryInvariant, PTL

\* Every accepted window has as many days as its strategy demands.
THEOREM WindowsAreFull == Spec => []WindowLongEnough
<1>1. HistoryInv => WindowLongEnough
  BY DEF HistoryInv, Sound, WindowLongEnough
<1> QED
  BY <1>1, HistoryInvariant, PTL

\* An evaluation is refused only if there are too few days, or two rows of one.
THEOREM RefusalsHaveACause == Spec => []RefusedForCause
<1>1. HistoryInv => RefusedForCause
  BY DEF HistoryInv, Sound, RefusedForCause
<1> QED
  BY <1>1, HistoryInvariant, PTL
================================================================================
