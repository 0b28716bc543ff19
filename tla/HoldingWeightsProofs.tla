-------------------------- MODULE HoldingWeightsProofs --------------------------
(***************************************************************************)
(* Theorems about HoldingWeights, for any clients, users and batches and   *)
(* any number of sessions at a time.                                       *)
(***************************************************************************)
EXTENDS HoldingWeights, SumTheorems

\* What a call relies on: the portfolio is its user's, it has a holding to add,
\* and the rows that exist are those inserted.
Inserted ==
    \A h \in rows : /\ h[2] <= i[h[1]]
                    /\ pc[h[1]] \in {"new", "insert"} => h[2] < i[h[1]]
Entered ==
    /\ IsFiniteSet(rows)
    /\ \A c \in Clients : pc[c] = "new" => i[c] = 1 /\ \A h \in Holdings : known[c][h] = -1
    /\ \A c \in Active : User[c] = owner /\ i[c] \in DOMAIN Batch[c]
    /\ Inserted
    /\ \A h \in Holdings \ rows : base[h] = 0

\* A total that has been read covers each of the holdings whose weight it will
\* be divided into.
Covering ==
    \A c \in Clients : pc[c] \in {"total", "weights"} => \A h \in todo[c] : sum[c] >= Value(h)

\* The session of c knows what the database has.
Synced(c) ==
    /\ \A h \in Holdings : known[c][h] \in {-1, base[h]}
    /\ knownTotal[c] = total

\* How far a call that is alone has come.
Recalculating(c) ==
    /\ Synced(c)
    /\ pc[c] \in {"total", "weights"} => /\ sum[c] = Sum(rows)
                                         /\ \A h \in rows : known[c][h] = base[h]
    /\ pc[c] = "total" => todo[c] = rows
    /\ pc[c] = "weights" => /\ total = sum[c]
                            /\ \A h \in rows \ todo[c] : base[h] = WeightBase(c, h)

Solo ==
    /\ \A c \in alone : Active \subseteq {c}
    /\ \A c \in alone \cap Active : Recalculating(c)
    /\ Active = {} /\ trusted => Consistent

\* The inductive invariants.
RowInv == TypeOK /\ Entered
BoundInv == RowInv /\ Covering /\ WeightsWithinBounds
SoloInv == RowInv /\ Solo

--------------------------------------------------------------------------------
LEMMA HoldingsArePairs ==
    ASSUME NEW h \in Holdings
    PROVE  /\ h[1] \in Clients /\ h[2] \in DOMAIN Batch[h[1]] /\ h[2] \in Nat \ {0}
           /\ h = <<h[1], h[2]>>
           /\ Value(h) \in Nat /\ Values[h] = Value(h)
<1>1. PICK c \in Clients : \E k \in DOMAIN Batch[c] : h = <<c, k>>
    BY DEF Holdings
<1>2. PICK k \in DOMAIN Batch[c] : h = <<c, k>>
    BY <1>1
<1>3. Batch[c] \in Seq(Nat)
    BY BatchAssumption
<1> QED
    BY <1>2, <1>3 DEF Value, Values

LEMMA PairIsHolding ==
    ASSUME NEW c \in Clients, NEW k \in DOMAIN Batch[c]
    PROVE  <<c, k>> \in Holdings
BY DEF Holdings

LEMMA SumsAreBases ==
    /\ 0 \in Bases
    /\ \A H \in SUBSET Holdings : Sum(H) \in Bases
<1>1. Sum({}) = 0
    BY TotalEmpty DEF Sum
<1> QED
    BY <1>1 DEF Bases

LEMMA SumCovers ==
    ASSUME NEW H \in SUBSET Holdings, IsFiniteSet(H)
    PROVE  Sum(H) \in Nat /\ \A h \in H : Sum(H) >= Value(h)
<1>1. \A h \in H : Values[h] \in Nat /\ Values[h] = Value(h)
    BY HoldingsArePairs
<1>2. Sum(H) \in Nat
    BY <1>1, TotalNat DEF Sum
<1>3. \A h \in H : Values[h] <= Sum(H)
    BY <1>1, TotalAtLeast DEF Sum
<1> QED
    BY <1>1, <1>2, <1>3

--------------------------------------------------------------------------------
LEMMA RowInit == Init => RowInv
<1> SUFFICES ASSUME Init PROVE RowInv
    OBVIOUS
<1>1. TypeOK
    BY SumsAreBases DEF Init, TypeOK
<1>2. Entered
    <2>1. IsFiniteSet({})
        BY FS_EmptySet
    <2> QED
        BY <2>1 DEF Init, Entered, Inserted, Active
<1> QED
    BY <1>1, <1>2 DEF RowInv

\* A portfolio that does not exist has no rows, and nobody works on it.
LEMMA NobodyAtWork ==
    ASSUME RowInv, owner = NoUser
    PROVE  rows = {} /\ Active = {}
<1>1. \A h \in rows : h \in Holdings /\ User[h[1]] = NoUser
    BY DEF RowInv, TypeOK
<1>2. \A h \in rows : h[1] \in Clients
    BY <1>1, HoldingsArePairs
<1>3. \A c \in Active : c \in Clients /\ User[c] = NoUser
    BY DEF RowInv, Entered, Active
<1> QED
    BY <1>1, <1>2, <1>3, UserAssumption

LEMMA EmptyStep ==
    ASSUME RowInv, NEW c \in Clients, CreateEmpty(c)
    PROVE  RowInv' /\ Active' = Active
<1>1. rows = {} /\ Active = {}
    BY NobodyAtWork DEF CreateEmpty
<1>2. Active' = Active
    BY DEF CreateEmpty, Goto, Active, RowInv, TypeOK
<1>3. TypeOK'
    BY <1>1 DEF CreateEmpty, Goto, RowInv, TypeOK
<1>4. Entered'
    BY <1>1, <1>2 DEF CreateEmpty, Goto, RowInv, TypeOK, Entered, Inserted
<1> QED
    BY <1>2, <1>3, <1>4 DEF RowInv

LEMMA EnterStep ==
    ASSUME RowInv, NEW c \in Clients, CreateUpload(c) \/ Begin(c)
    PROVE  RowInv' /\ Active' = Active \cup {c} /\ c \notin Active
<1>1. Enter(c) /\ owner' = User[c] /\ (owner = NoUser => c \in Creators) /\ owner \in {NoUser, owner'}
    BY UserAssumption DEF CreateUpload, Begin
<1>2. 1 \in DOMAIN Batch[c]
    BY BatchAssumption DEF CreateUpload, Begin
<1>3. Active' = Active \cup {c} /\ c \notin Active
    BY <1>1 DEF Enter, Goto, Active, RowInv, TypeOK
<1>4. rows \subseteq {h \in Holdings : User[h[1]] = owner'}
    BY <1>1, NobodyAtWork DEF RowInv, TypeOK
<1>5. TypeOK'
    BY <1>1, <1>4 DEF Enter, Goto, RowInv, TypeOK
<1>6. \A d \in Active' : User[d] = owner' /\ i[d] \in DOMAIN Batch[d]
    BY <1>1, <1>2, <1>3, NobodyAtWork DEF Enter, RowInv, Entered
<1>7. Entered'
    BY <1>1, <1>6 DEF Enter, Goto, RowInv, TypeOK, Entered, Inserted
<1> QED
    BY <1>3, <1>5, <1>7 DEF RowInv

LEMMA InsertStep ==
    ASSUME RowInv, NEW c \in Clients, Insert(c)
    PROVE  /\ RowInv' /\ Active' = Active /\ c \in Active
           /\ <<c, i[c]>> \in Holdings \ rows
           /\ rows' = rows \cup {<<c, i[c]>>}
<1> DEFINE new == <<c, i[c]>>
<1>1. Active' = Active /\ c \in Active
    BY DEF Insert, Goto, Active, RowInv, TypeOK
<1>2. User[c] = owner /\ new \in Holdings /\ new[1] = c /\ new[2] = i[c] /\ i[c] \in Nat
    BY <1>1, PairIsHolding DEF RowInv, TypeOK, Entered
<1>3. new \notin rows
    <2>1. pc[c] = "insert"
        BY DEF Insert
    <2>2. ASSUME new \in rows PROVE FALSE
        <3>1. new[2] < i[new[1]]
            BY <1>2, <2>1, <2>2 DEF RowInv, Entered, Inserted
        <3> QED
            BY <1>2, <3>1
    <2> QED
        BY <2>2
<1>4. rows' = rows \cup {new}
    BY DEF Insert
<1>5. 0 \in Bases
    BY SumsAreBases
<1> HIDE DEF new
<1>6. TypeOK'
    <2>1. rows' \subseteq {h \in Holdings : User[h[1]] = owner'}
        BY <1>2, <1>4 DEF RowInv, TypeOK, Insert
    <2>2. known' = [known EXCEPT ![c][new] = 0]
        BY DEF Insert, new
    <2>3. known' \in [Clients -> [Holdings -> Bases \cup {-1}]]
        BY <1>2, <1>5, <2>2 DEF RowInv, TypeOK
    <2>4. pc' \in [Clients -> {"new", "insert", "read", "total", "weights", "done", "dead"}]
          /\ todo' \in [Clients -> SUBSET rows']
        BY <1>4 DEF RowInv, TypeOK, Insert, Goto
    <2> QED
        BY <2>1, <2>3, <2>4 DEF RowInv, TypeOK, Insert
<1>7. Entered'
    <2>1. IsFiniteSet(rows')
        BY <1>4, FS_AddElement DEF RowInv, Entered
    <2>2. Inserted'
        <3>1. pc'[c] = "read" /\ i' = i /\ \A d \in Clients : d # c => pc'[d] = pc[d]
            BY DEF RowInv, TypeOK, Insert, Goto
        <3>2. \A h \in rows : h[1] \in Clients
            BY HoldingsArePairs DEF RowInv, TypeOK
        <3> QED
            BY <1>2, <1>4, <3>1, <3>2 DEF RowInv, Entered, Inserted
    <2>3. pc'[c] # "new" /\ UNCHANGED <<i, owner, base>> 
          /\ \A d \in Clients : d # c => pc'[d] = pc[d] /\ known'[d] = known[d]
        BY DEF RowInv, TypeOK, Insert, Goto
    <2>4. \A d \in Clients : pc'[d] = "new" => i'[d] = 1 /\ \A h \in Holdings : known'[d][h] = -1
        BY <2>3 DEF RowInv, Entered
    <2>5. \A d \in Active' : User[d] = owner' /\ i'[d] \in DOMAIN Batch[d]
        BY <1>1, <2>3 DEF RowInv, Entered
    <2>6. \A h \in Holdings \ rows' : base'[h] = 0
        BY <1>4, <2>3 DEF RowInv, Entered
    <2> QED
        BY <2>1, <2>2, <2>4, <2>5, <2>6 DEF Entered
<1> QED
    BY <1>1, <1>2, <1>3, <1>4, <1>6, <1>7 DEF RowInv, new

\* Steps of a call between its insert and its end leave Entered alone as long as
\* they keep the rows.
LEMMA KeptEntered ==
    ASSUME RowInv, NEW c \in Clients, c \in Active, pc[c] # "insert",
           NEW s \in {"total", "weights"}, Goto(c, s), UNCHANGED <<owner, rows, i>>,
           \A d \in Clients : d # c => known'[d] = known[d],
           \A h \in Holdings \ rows : base'[h] = base[h]
    PROVE  Entered' /\ Active' = Active
<1>1. Active' = Active
    BY DEF Goto, Active, RowInv, TypeOK
<1>2. pc'[c] \notin {"new", "insert"} /\ \A d \in Clients : d # c => pc'[d] = pc[d]
    BY DEF Goto, RowInv, TypeOK
<1>3. \A h \in rows : h[1] \in Clients
    BY HoldingsArePairs DEF RowInv, TypeOK
<1>4. Inserted'
    BY <1>2, <1>3 DEF RowInv, Entered, Inserted
<1> QED
    BY <1>1, <1>2, <1>4 DEF RowInv, Entered

LEMMA ReadStep ==
    ASSUME RowInv, NEW c \in Clients, Read(c)
    PROVE  RowInv' /\ Active' = Active /\ c \in Active
<1>1. c \in Active /\ pc[c] # "insert"
    BY DEF Read, Active
<1>2. Entered' /\ Active' = Active
    <2>1. \A d \in Clients : d # c => known'[d] = known[d]
        BY DEF Read, RowInv, TypeOK
    <2> QED
        BY <1>1, <2>1, KeptEntered DEF Read
<1>3. Sum(rows) \in Bases
    BY SumsAreBases DEF RowInv, TypeOK
<1>4. known' \in [Clients -> [Holdings -> Bases \cup {-1}]]
    <2>1. [h \in Holdings |-> IF h \in rows /\ known[c][h] = -1 THEN base[h] ELSE known[c][h]]
              \in [Holdings -> Bases \cup {-1}]
        BY DEF RowInv, TypeOK
    <2> QED
        BY <2>1 DEF Read, RowInv, TypeOK
<1>5. TypeOK'
    BY <1>3, <1>4 DEF Read, Goto, RowInv, TypeOK
<1> QED
    BY <1>1, <1>2, <1>5 DEF RowInv

LEMMA SetTotalStep ==
    ASSUME RowInv, NEW c \in Clients, SetTotal(c)
    PROVE  RowInv' /\ Active' = Active /\ c \in Active
<1>1. c \in Active /\ pc[c] # "insert"
    BY DEF SetTotal, Active
<1>2. Entered' /\ Active' = Active
    BY <1>1, KeptEntered DEF SetTotal
<1>3. TypeOK'
    BY DEF SetTotal, Goto, RowInv, TypeOK
<1> QED
    BY <1>1, <1>2, <1>3 DEF RowInv

LEMMA SetWeightStep ==
    ASSUME RowInv, NEW c \in Clients, NEW h \in Holdings, SetWeight(c, h)
    PROVE  RowInv' /\ Active' = Active /\ c \in Active /\ h \in rows
<1>1. c \in Active /\ pc[c] # "insert" /\ h \in rows
    BY DEF SetWeight, Active, RowInv, TypeOK
<1>2. WeightBase(c, h) \in Bases
    BY SumsAreBases DEF WeightBase, RowInv, TypeOK
<1>3. base' \in [Holdings -> Bases] /\ \A g \in Holdings \ {h} : base'[g] = base[g]
    BY <1>2 DEF SetWeight, RowInv, TypeOK
<1>4. Active' = Active
    BY DEF SetWeight, Active
<1>5. Entered'
    <2>1. \A d \in Clients : pc[d] = "new" => known'[d] = known[d]
        BY DEF SetWeight, RowInv, TypeOK
    <2> QED
        BY <1>1, <1>3, <1>4, <2>1 DEF SetWeight, RowInv, Entered, Inserted
<1>6. known' \in [Clients -> [Holdings -> Bases \cup {-1}]]
    BY <1>3 DEF SetWeight, RowInv, TypeOK
<1>7. todo' \in [Clients -> SUBSET rows]
    BY DEF SetWeight, RowInv, TypeOK
<1>8. TypeOK'
    BY <1>3, <1>6, <1>7 DEF SetWeight, RowInv, TypeOK
<1> QED
    BY <1>1, <1>4, <1>5, <1>8 DEF RowInv

LEMMA NextHoldingStep ==
    ASSUME RowInv, NEW c \in Clients, NextHolding(c)
    PROVE  RowInv' /\ Active' = Active /\ c \in Active
<1>1. c \in Active /\ Active' = Active
    BY DEF NextHolding, Goto, Active, RowInv, TypeOK
<1>2. TypeOK'
    BY DEF NextHolding, Goto, RowInv, TypeOK
<1>3. i[c] \in Nat \ {0} /\ i'[c] = i[c] + 1 /\ i'[c] \in DOMAIN Batch[c]
    <2>1. Batch[c] \in Seq(Nat)
        BY BatchAssumption
    <2> QED
        BY <2>1 DEF NextHolding, RowInv, TypeOK
<1>4. /\ \A d \in Clients : d # c => pc'[d] = pc[d] /\ i'[d] = i[d]
      /\ pc'[c] = "insert" /\ pc[c] = "weights"
    BY DEF NextHolding, Goto, RowInv, TypeOK
<1>5. \A h \in rows : h[1] \in Clients /\ h[2] \in Nat
    BY HoldingsArePairs DEF RowInv, TypeOK
<1>6. \A d \in Clients : pc'[d] = "new" => i'[d] = 1 /\ \A h \in Holdings : known'[d][h] = -1
    BY <1>4 DEF NextHolding, RowInv, Entered
<1>7. Inserted'
    <2>1. \A h \in rows : /\ h[2] <= i'[h[1]]
                          /\ pc'[h[1]] \in {"new", "insert"} => h[2] < i'[h[1]]
        BY <1>3, <1>4, <1>5 DEF RowInv, Entered, Inserted
    <2> QED
        BY <2>1 DEF NextHolding, Inserted
<1>8. \A d \in Active : User[d] = owner /\ i'[d] \in DOMAIN Batch[d]
    BY <1>3, <1>4 DEF RowInv, Entered, Active
<1>9. Entered'
    BY <1>1, <1>6, <1>7, <1>8 DEF NextHolding, RowInv, Entered
<1> QED
    BY <1>1, <1>2, <1>9 DEF RowInv

LEMMA LeaveStep ==
    ASSUME RowInv, NEW c \in Clients, c \in Active, NEW s \in {"done", "dead"}, Leave(c, s)
    PROVE  RowInv' /\ Active' = Active \ {c}
<1>1. Active' = Active \ {c}
    BY DEF Leave, Goto, Active, RowInv, TypeOK
<1>2. TypeOK'
    BY SumsAreBases DEF Leave, Goto, RowInv, TypeOK
<1>3. Entered'
    <2>1. /\ pc'[c] \notin {"new", "insert"}
          /\ \A d \in Clients : d # c => pc'[d] = pc[d] /\ known'[d] = known[d]
        BY DEF Leave, Goto, RowInv, TypeOK
    <2>2. UNCHANGED <<owner, rows, base, i>>
        BY DEF Leave
    <2>3. \A h \in rows : h[1] \in Clients
        BY HoldingsArePairs DEF RowInv, TypeOK
    <2>4. Inserted'
        BY <2>1, <2>2, <2>3 DEF RowInv, Entered, Inserted
    <2> QED
        BY <1>1, <2>1, <2>2, <2>4 DEF RowInv, Entered
<1> QED
    BY <1>1, <1>2, <1>3 DEF RowInv

\* A step of a call that has begun and goes on.
Working(c) ==
    \/ Insert(c) \/ Read(c) \/ SetTotal(c) \/ NextHolding(c)
    \/ \E h \in Holdings : SetWeight(c, h)

LEMMA WorkingStep ==
    ASSUME RowInv, NEW c \in Clients, Working(c)
    PROVE  RowInv' /\ Active' = Active /\ c \in Active
BY InsertStep, ReadStep, SetTotalStep, NextHoldingStep, SetWeightStep DEF Working

LEMMA RowStep == RowInv /\ [Next]_vars => RowInv'
<1> SUFFICES ASSUME RowInv, [Next]_vars PROVE RowInv'
    OBVIOUS
<1>1. CASE UNCHANGED vars
    BY <1>1 DEF vars, RowInv, TypeOK, Entered, Inserted, Active
<1>2. ASSUME NEW c \in Clients, CreateEmpty(c) \/ CreateUpload(c) \/ Begin(c) \/ Working(c)
      PROVE  RowInv'
    BY <1>2, EmptyStep, EnterStep, WorkingStep
<1>3. ASSUME NEW c \in Clients, Return(c) \/ Die(c)
      PROVE  RowInv'
    <2>1. c \in Active /\ (Leave(c, "done") \/ Leave(c, "dead"))
        BY <1>3 DEF Return, Die, Active
    <2> QED
        BY <2>1, LeaveStep
<1> QED
    BY <1>1, <1>2, <1>3 DEF Next, Working

\* Every variable of HoldingWeights has its type: a total is always the sum of
\* some of the holdings, and so is the base of every weight.
THEOREM TypeCorrect == Spec => []TypeOK
<1>1. RowInv => TypeOK
    BY DEF RowInv
<1> QED
    BY <1>1, RowInit, RowStep, PTL DEF Spec

--------------------------------------------------------------------------------
LEMMA BoundStep == BoundInv /\ [Next]_vars => BoundInv'
<1> SUFFICES ASSUME BoundInv, [Next]_vars PROVE BoundInv'
    OBVIOUS
<1>r. RowInv /\ RowInv'
    BY RowStep DEF BoundInv
<1>1. CASE UNCHANGED vars
    BY <1>r, <1>1 DEF vars, BoundInv, Covering, WeightsWithinBounds
<1>2. ASSUME NEW c \in Clients, CreateEmpty(c) \/ CreateUpload(c) \/ Begin(c)
      PROVE  BoundInv'
    <2>1. /\ UNCHANGED <<rows, base, sum, todo>>
          /\ pc'[c] \in {"done", "insert"} /\ \A d \in Clients : d # c => pc'[d] = pc[d]
        BY <1>r, <1>2 DEF CreateEmpty, CreateUpload, Begin, Enter, Goto, RowInv, TypeOK
    <2> QED
        BY <1>r, <2>1 DEF BoundInv, Covering, WeightsWithinBounds
<1>3. ASSUME NEW c \in Clients, Insert(c)
      PROVE  BoundInv'
    <2>1. PICK new \in Holdings \ rows : rows' = rows \cup {new}
        BY <1>r, <1>3, InsertStep
    <2>2. base[new] = 0
        BY <1>r, <2>1 DEF RowInv, Entered
    <2>3. /\ UNCHANGED <<base, sum, todo>>
          /\ pc'[c] = "read" /\ \A d \in Clients : d # c => pc'[d] = pc[d]
        BY <1>r, <1>3 DEF Insert, Goto, RowInv, TypeOK
    <2> QED
        BY <1>r, <2>1, <2>2, <2>3 DEF BoundInv, Covering, WeightsWithinBounds
<1>4. ASSUME NEW c \in Clients, Read(c)
      PROVE  BoundInv'
    <2>1. /\ UNCHANGED <<rows, base>>
          /\ sum'[c] = Sum(rows) /\ todo'[c] = rows
          /\ \A d \in Clients : d # c => pc'[d] = pc[d] /\ sum'[d] = sum[d] /\ todo'[d] = todo[d]
        BY <1>r, <1>4 DEF Read, Goto, RowInv, TypeOK
    <2>2. \A h \in rows : Sum(rows) >= Value(h)
        BY <1>r, SumCovers DEF RowInv, TypeOK, Entered
    <2> QED
        BY <1>r, <2>1, <2>2 DEF BoundInv, Covering, WeightsWithinBounds
<1>5. ASSUME NEW c \in Clients, SetTotal(c) \/ NextHolding(c) \/ Return(c) \/ Die(c)
      PROVE  BoundInv'
    <2>1. /\ UNCHANGED <<rows, base>>
          /\ pc'[c] \in {"total", "weights"} =>
                 pc[c] = "total" /\ sum'[c] = sum[c] /\ todo'[c] = todo[c]
          /\ \A d \in Clients : d # c => pc'[d] = pc[d] /\ sum'[d] = sum[d] /\ todo'[d] = todo[d]
        BY <1>r, <1>5 DEF SetTotal, NextHolding, Return, Die, Leave, Goto, RowInv, TypeOK
    <2> QED
        BY <1>r, <2>1 DEF BoundInv, Covering, WeightsWithinBounds
<1>6. ASSUME NEW c \in Clients, NEW h \in Holdings, SetWeight(c, h)
      PROVE  BoundInv'
    <2>1. /\ UNCHANGED <<rows, pc, sum>>
          /\ pc[c] = "weights" /\ h \in todo[c]
          /\ base'[h] \in {base[h], WeightBase(c, h)}
          /\ \A g \in Holdings \ {h} : base'[g] = base[g]
          /\ \A d \in Clients : todo'[d] \subseteq todo[d]
        BY <1>r, <1>6 DEF SetWeight, RowInv, TypeOK
    <2>2. WeightBase(c, h) # 0 => WeightBase(c, h) >= Value(h)
        BY <2>1 DEF BoundInv, Covering, WeightBase
    <2>3. rows \subseteq Holdings
        BY <1>r DEF RowInv, TypeOK
    <2> QED
        BY <1>r, <2>1, <2>2, <2>3 DEF BoundInv, Covering, WeightsWithinBounds
<1> QED
    BY <1>1, <1>2, <1>3, <1>4, <1>5, <1>6 DEF Next

\* check_holding_weight_bounds: whatever calls overlap or die, no weight is
\* above 1, because a call divides by a total that covers all it divides.
THEOREM BoundsHold == Spec => []WeightsWithinBounds
<1>1. Init => BoundInv
    BY RowInit DEF Init, BoundInv, Covering, WeightsWithinBounds
<1>2. BoundInv => WeightsWithinBounds
    BY DEF BoundInv
<1> QED
    BY <1>1, <1>2, BoundStep, PTL DEF Spec

--------------------------------------------------------------------------------
\* A call that works alone gets on with its recalculation.
LEMMA AloneWorks ==
    ASSUME RowInv, NEW c \in Clients, Working(c), Recalculating(c)
    PROVE  Recalculating(c)'
<1>s. Synced(c)
    BY DEF Recalculating
<1>1. CASE Insert(c)
    <2>1. PICK new \in Holdings \ rows : new = <<c, i[c]>>
        BY <1>1, InsertStep
    <2>2. base[new] = 0
        BY <2>1 DEF RowInv, Entered
    <2>3. /\ UNCHANGED <<base, total, knownTotal>> /\ pc'[c] = "read"
          /\ \A h \in Holdings : known'[c][h] = IF h = new THEN 0 ELSE known[c][h]
        BY <1>1, <2>1 DEF Insert, Goto, RowInv, TypeOK
    <2> QED
        BY <1>s, <2>1, <2>2, <2>3 DEF Recalculating, Synced
<1>2. CASE Read(c)
    <2>1. /\ UNCHANGED <<base, total, knownTotal, rows>> /\ pc'[c] = "total"
          /\ sum'[c] = Sum(rows) /\ todo'[c] = rows
          /\ \A h \in Holdings : known'[c][h] = IF h \in rows /\ known[c][h] = -1
                                               THEN base[h] ELSE known[c][h]
        BY <1>2 DEF Read, Goto, RowInv, TypeOK
    <2>2. rows \subseteq Holdings
        BY DEF RowInv, TypeOK
    <2>3. \A h \in rows : known'[c][h] = base[h]
        BY <1>s, <2>1, <2>2 DEF Synced
    <2>4. Synced(c)'
        BY <1>s, <2>1 DEF Synced
    <2> QED
        BY <2>1, <2>3, <2>4 DEF Recalculating
<1>3. CASE SetTotal(c)
    <2>1. /\ UNCHANGED <<base, rows, known>> /\ pc[c] = "total" /\ pc'[c] = "weights"
          /\ sum'[c] = sum[c] /\ todo'[c] = todo[c] /\ knownTotal'[c] = total'
          /\ total' = IF sum[c] # knownTotal[c] THEN sum[c] ELSE total
        BY <1>3 DEF SetTotal, Goto, RowInv, TypeOK
    <2>2. total' = sum[c]
        BY <1>s, <2>1 DEF Synced
    <2>3. Synced(c)'
        BY <1>s, <2>1 DEF Synced
    <2>4. sum[c] = Sum(rows) /\ todo[c] = rows /\ \A h \in rows : known[c][h] = base[h]
        BY <2>1 DEF Recalculating
    <2> QED
        BY <2>1, <2>2, <2>3, <2>4 DEF Recalculating
<1>4. CASE NextHolding(c)
    <2>1. UNCHANGED <<base, total, known, knownTotal>> /\ pc'[c] = "insert"
        BY <1>4 DEF NextHolding, Goto, RowInv, TypeOK
    <2> QED
        BY <1>s, <2>1 DEF Recalculating, Synced
<1>5. ASSUME NEW h \in Holdings, SetWeight(c, h)
      PROVE  Recalculating(c)'
    <2>1. /\ UNCHANGED <<rows, total, knownTotal, sum, pc>> /\ pc[c] = "weights"
          /\ h \in todo[c] /\ h \in rows /\ todo'[c] = todo[c] \ {h}
          /\ base'[h] = IF WeightBase(c, h) # known[c][h] THEN WeightBase(c, h) ELSE base[h]
          /\ \A g \in Holdings \ {h} : base'[g] = base[g] /\ known'[c][g] = known[c][g]
          /\ known'[c][h] = base'[h]
        BY <1>5 DEF SetWeight, RowInv, TypeOK
    <2>2. /\ sum[c] = Sum(rows) /\ total = sum[c] /\ \A g \in rows : known[c][g] = base[g]
          /\ \A g \in rows \ todo[c] : base[g] = WeightBase(c, g)
        BY <2>1 DEF Recalculating
    <2>3. base'[h] = WeightBase(c, h)
        BY <2>1, <2>2
    <2>4. \A g \in Holdings : WeightBase(c, g)' = WeightBase(c, g)
        BY <2>1 DEF WeightBase
    <2>5. rows \subseteq Holdings
        BY DEF RowInv, TypeOK
    <2>6. Synced(c)'
        BY <1>s, <2>1 DEF Synced
    <2>7. \A g \in rows \ todo'[c] : base'[g] = WeightBase(c, g)'
        BY <2>1, <2>2, <2>3, <2>4, <2>5
    <2>8. \A g \in rows : known'[c][g] = base'[g]
        BY <2>1, <2>2, <2>5
    <2> QED
        BY <2>1, <2>2, <2>6, <2>7, <2>8 DEF Recalculating
<1> QED
    BY <1>1, <1>2, <1>3, <1>4, <1>5 DEF Working

\* A call that ends alone leaves weights that add up.
LEMMA AloneEnds ==
    ASSUME RowInv, NEW c \in Clients, Return(c), Recalculating(c)
    PROVE  Consistent'
<1>1. /\ pc[c] = "weights" /\ todo[c] = {} /\ UNCHANGED <<rows, base, total>>
    BY DEF Return, Leave
<1>2. /\ total = sum[c] /\ sum[c] = Sum(rows)
      /\ \A h \in rows : base[h] = WeightBase(c, h)
    BY <1>1 DEF Recalculating
<1> QED
    BY <1>1, <1>2 DEF Consistent, WeightBase

LEMMA SoloStep == SoloInv /\ [Next]_vars => SoloInv'
<1> SUFFICES ASSUME SoloInv, [Next]_vars PROVE SoloInv'
    OBVIOUS
<1>r. RowInv /\ RowInv' /\ Solo
    BY RowStep DEF SoloInv
<1>1. CASE UNCHANGED vars
    BY <1>r, <1>1 DEF vars, SoloInv, Solo, Active, Recalculating, Synced, WeightBase, Consistent
<1>2. ASSUME NEW c \in Clients, CreateEmpty(c)
      PROVE  Solo'
    <2>1. Active = {} /\ Active' = {}
        BY <1>r, <1>2, EmptyStep, NobodyAtWork DEF CreateEmpty
    <2>2. UNCHANGED <<rows, base, total, alone, trusted>>
        BY <1>2 DEF CreateEmpty
    <2> QED
        BY <1>r, <2>1, <2>2 DEF Solo, Consistent
<1>3. ASSUME NEW c \in Clients, CreateUpload(c) \/ Begin(c)
      PROVE  Solo'
    <2>1. Active' = Active \cup {c}
        BY <1>r, <1>3, EnterStep
    <2>2. /\ alone' = IF Active = {} THEN {c} ELSE {}
          /\ UNCHANGED <<rows, base, total, known>> /\ pc[c] = "new" /\ pc'[c] = "insert"
          /\ knownTotal'[c] = total
        BY <1>r, <1>3 DEF CreateUpload, Begin, Enter, Goto, RowInv, TypeOK
    <2>3. \A h \in Holdings : known[c][h] = -1
        BY <1>r, <2>2 DEF RowInv, Entered
    <2>4. Recalculating(c)'
        BY <2>2, <2>3 DEF Recalculating, Synced
    <2>5. \A d \in alone' : d = c /\ Active' = {c}
        BY <2>1, <2>2
    <2> QED
        BY <2>1, <2>4, <2>5 DEF Solo
<1>4. ASSUME NEW c \in Clients, Working(c)
      PROVE  Solo'
    <2>1. Active' = Active /\ c \in Active
        BY <1>r, <1>4, WorkingStep
    <2>2. alone' = alone
        BY <1>4 DEF Working, Insert, Read, SetTotal, NextHolding, SetWeight
    <2>3. ASSUME NEW d \in alone \cap Active
          PROVE  Recalculating(d)'
        <3>1. d = c
            BY <1>r, <2>1, <2>3 DEF Solo
        <3>2. Recalculating(c)
            BY <1>r, <2>3, <3>1 DEF Solo
        <3>3. Recalculating(c)'
            BY <1>r, <1>4, <3>2, AloneWorks
        <3> QED
            BY <3>1, <3>3
    <2> QED
        BY <1>r, <2>1, <2>2, <2>3 DEF Solo
<1>5. ASSUME NEW c \in Clients, Return(c) \/ Die(c)
      PROVE  Solo'
    <2>1. PICK s \in {"done", "dead"} : Leave(c, s) /\ (s = "done" => Return(c))
        BY <1>5 DEF Return, Die
    <2>2. c \in Active
        BY <1>5 DEF Return, Die, Active
    <2>3. Active' = Active \ {c} /\ alone' = alone
        BY <1>r, <2>1, <2>2, LeaveStep DEF Leave
    <2>4. \A d \in alone' : Active' \subseteq {d} /\ d \notin Active'
        BY <1>r, <2>2, <2>3 DEF Solo
    <2>5. ASSUME trusted'
          PROVE  Consistent'
        <3>1. s = "done" /\ c \in alone
            BY <2>1, <2>5 DEF Leave
        <3>2. Recalculating(c)
            BY <1>r, <2>2, <3>1 DEF Solo
        <3> QED
            BY <1>r, <2>1, <3>1, <3>2, AloneEnds
    <2> QED
        BY <2>4, <2>5 DEF Solo
<1> QED
    BY <1>r, <1>1, <1>2, <1>3, <1>4, <1>5 DEF Next, Working, SoloInv

\* add_holding: a call or an upload that overlaps with no other and does not die
\* leaves a total and weights that add up, whatever was left behind before it.
THEOREM SoloRestores == Spec => []SoloCallRestores
<1>1. Init => SoloInv
    <2> SUFFICES ASSUME Init PROVE SoloInv
        OBVIOUS
    <2>1. RowInv
        BY RowInit
    <2>2. alone = {} /\ rows = {} /\ total = 0
        BY DEF Init
    <2>3. Sum({}) = 0
        BY TotalEmpty DEF Sum
    <2> QED
        BY <2>1, <2>2, <2>3 DEF SoloInv, Solo, Consistent
<1>2. SoloInv => SoloCallRestores
    BY DEF SoloInv, Solo, SoloCallRestores
<1> QED
    BY <1>1, <1>2, SoloStep, PTL DEF Spec

================================================================================
