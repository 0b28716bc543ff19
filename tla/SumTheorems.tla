------------------------------- MODULE SumTheorems -------------------------------
(***************************************************************************)
(* Least elements, which is what induction comes to here, the sums of Sums *)
(* over finite sets, and the extremes of sets of naturals.                 *)
(***************************************************************************)
EXTENDS Sums, Integers, TLAPS, FiniteSetTheorems, WellFoundedInduction

\* A set of naturals has a least element.
LEMMA LeastNat ==
    ASSUME NEW T \in SUBSET Nat, T # {}
    PROVE  \E n \in T : \A m \in T : n <= m
<1> DEFINE R == {ss \in Nat \X Nat : ss[1] < ss[2]}
<1>1. IsWellFoundedOn(R, Nat)
    BY NatLessThanWellFounded DEF OpToRel
<1>2. \A m, n \in T : ~(n <= m) => <<m, n>> \in R
    OBVIOUS
<1> HIDE DEF R
<1>3. \E n \in T : \A m \in T : ~ <<m, n>> \in R
    BY <1>1, WFMin
<1> QED
    BY <1>2, <1>3

\* Of some finite sets, one is smallest.
LEMMA SmallestSet ==
    ASSUME NEW F, F # {}, \A s \in F : IsFiniteSet(s)
    PROVE  \E s \in F : \A t \in F : Cardinality(s) <= Cardinality(t)
<1> DEFINE T == {n \in Nat : \E s \in F : n = Cardinality(s)}
<1>1. \A s \in F : Cardinality(s) \in T
    BY FS_CardinalityType
<1>2. T # {}
    BY <1>1
<1>3. PICK n \in T : \A m \in T : n <= m
    BY <1>2, LeastNat
<1>4. PICK s \in F : n = Cardinality(s)
    BY <1>3
<1> QED
    BY <1>1, <1>3, <1>4

LEMMA Smaller ==
    ASSUME NEW s, IsFiniteSet(s), NEW x \in s
    PROVE  /\ IsFiniteSet(s \ {x})
           /\ Cardinality(s) \in Nat /\ Cardinality(s \ {x}) \in Nat
           /\ Cardinality(s \ {x}) = Cardinality(s) - 1
           /\ Cardinality(s \ {x}) < Cardinality(s)
<1>1. IsFiniteSet(s \ {x}) /\ Cardinality(s \ {x}) = Cardinality(s) - 1
    BY FS_RemoveElement
<1>2. Cardinality(s) \in Nat /\ Cardinality(s \ {x}) \in Nat
    BY <1>1, FS_CardinalityType
<1> QED
    BY <1>1, <1>2

--------------------------------------------------------------------------------
\* g is the fold that adds up f over the subsets of S.
Adds(g, f, S) ==
    g = [s \in SUBSET S |->
            IF s = {} THEN 0 ELSE LET x == CHOOSE x \in s : TRUE IN f[x] + g[s \ {x}]]

LEMMA TotalIsAdded ==
    ASSUME NEW f, NEW S
    PROVE  Total(f, S) = (CHOOSE g : Adds(g, f, S))[S]
BY DEF Total, MapThenSumSet, MapThenFoldSet, Adds

\* Some element of s, the one that a fold takes first.
Some(s) == CHOOSE x \in s : TRUE

LEMMA AddsSome ==
    ASSUME NEW f, NEW S, NEW g, Adds(g, f, S), NEW s \in SUBSET S, s # {}
    PROVE  /\ Some(s) \in s
           /\ g[s] = f[Some(s)] + g[s \ {Some(s)}]
<1>1. Some(s) \in s
    BY DEF Some
<1>2. g[s] = IF s = {} THEN 0 ELSE LET x == CHOOSE x \in s : TRUE IN f[x] + g[s \ {x}]
    BY DEF Adds
<1> QED
    BY <1>1, <1>2 DEF Some

LEMMA AddsNone ==
    ASSUME NEW f, NEW S, NEW g, Adds(g, f, S)
    PROVE  g[{}] = 0
<1>1. {} \in SUBSET S
    OBVIOUS
<1> QED
    BY <1>1 DEF Adds

\* Folds agree where they are both defined.
LEMMA AddsAgree ==
    ASSUME NEW f, NEW S, NEW R, NEW g, NEW h, Adds(g, f, S), Adds(h, f, R),
           NEW s, s \subseteq S, s \subseteq R, IsFiniteSet(s)
    PROVE  g[s] = h[s]
<1> DEFINE F == {t \in SUBSET s : g[t] # h[t]}
<1>1. SUFFICES ASSUME F # {} PROVE FALSE
    OBVIOUS
<1>2. \A t \in SUBSET s : IsFiniteSet(t)
    BY FS_Subset
<1>3. PICK t \in F : \A u \in F : Cardinality(t) <= Cardinality(u)
    BY <1>1, <1>2, SmallestSet
<1>4. t # {}
    BY <1>3, AddsNone
<1> DEFINE x == Some(t)
<1>5. x \in t /\ g[t] = f[x] + g[t \ {x}] /\ h[t] = f[x] + h[t \ {x}]
    BY <1>4, AddsSome
<1>6. t \ {x} \in SUBSET s /\ Cardinality(t \ {x}) < Cardinality(t)
      /\ Cardinality(t \ {x}) \in Nat /\ Cardinality(t) \in Nat
    BY <1>2, <1>5, Smaller
<1> HIDE DEF x
<1>7. g[t \ {x}] = h[t \ {x}]
    BY <1>3, <1>6
<1> QED
    BY <1>3, <1>5, <1>7

LEMMA AddsExists ==
    ASSUME NEW f, NEW S, IsFiniteSet(S)
    PROVE  \E g : Adds(g, f, S)
<1> DEFINE F == {s \in SUBSET S : ~ \E g : Adds(g, f, s)}
<1>1. SUFFICES ASSUME F # {} PROVE FALSE
    OBVIOUS
<1>2. \A s \in SUBSET S : IsFiniteSet(s)
    BY FS_Subset
<1>3. PICK s \in F : \A t \in F : Cardinality(s) <= Cardinality(t)
    BY <1>1, <1>2, SmallestSet
<1> DEFINE Fold(t) == CHOOSE g : Adds(g, f, t)
           Sum(t) == Fold(t)[t]
           g == [t \in SUBSET s |-> IF t = {} THEN 0 ELSE f[Some(t)] + Sum(t \ {Some(t)})]
<1>4. ASSUME NEW t \in SUBSET s, t # s
      PROVE  Adds(Fold(t), f, t)
    <2>1. PICK x \in s : x \notin t
        BY <1>4
    <2>2. Cardinality(t) <= Cardinality(s \ {x}) /\ Cardinality(t) \in Nat
        BY <1>2, <2>1, FS_Subset, FS_CardinalityType
    <2>3. Cardinality(t) < Cardinality(s) /\ Cardinality(s) \in Nat
        BY <1>2, <2>1, <2>2, Smaller
    <2>4. t \notin F
        BY <1>3, <2>2, <2>3
    <2> QED
        BY <2>4
<1>5. ASSUME NEW t \in SUBSET s, t # s
      PROVE  g[t] = Sum(t)
    <2>1. CASE t = {}
        <3>1. g[t] = 0
            BY <2>1
        <3>2. Adds(Fold(t), f, t)
            BY <1>4, <1>5
        <3> HIDE DEF Fold
        <3>3. Fold(t)[{}] = 0
            BY <3>2, AddsNone
        <3> QED
            BY <2>1, <3>1, <3>3
    <2>2. CASE t # {}
        <3> DEFINE x == Some(t)
                   u == t \ {x}
        <3>1. x \in t
            BY <2>2 DEF Some
        <3>2. Sum(t) = f[x] + Fold(t)[u]
            BY <1>4, <1>5, <2>2, AddsSome
        <3>3. u \in SUBSET s /\ u # s /\ u \subseteq t /\ IsFiniteSet(u)
            BY <1>2, <3>1
        <3>4. Adds(Fold(t), f, t) /\ Adds(Fold(u), f, u)
            BY <1>4, <1>5, <3>3
        <3>5. Fold(t)[u] = Fold(u)[u]
            <4> HIDE DEF Fold, x, u
            <4> QED
                BY <3>3, <3>4, AddsAgree
        <3>6. g[t] = f[x] + Sum(u)
            BY <2>2
        <3> QED
            BY <3>2, <3>5, <3>6
    <2> QED
        BY <2>1, <2>2
<1>6. Adds(g, f, s)
    <2>1. ASSUME NEW t \in SUBSET s, t # {}
          PROVE  g[t] = f[Some(t)] + g[t \ {Some(t)}]
        <3>1. t \ {Some(t)} \in SUBSET s /\ t \ {Some(t)} # s
            BY <2>1 DEF Some
        <3>2. g[t] = f[Some(t)] + Sum(t \ {Some(t)})
            BY <2>1
        <3> HIDE DEF g, Sum
        <3> QED
            BY <1>5, <3>1, <3>2
    <2>2. g = [t \in SUBSET s |-> g[t]]
        OBVIOUS
    <2>5. \A t \in SUBSET s : t = {} => g[t] = 0
        OBVIOUS
    <2> HIDE DEF g
    <2>3. \A t \in SUBSET s : g[t] = IF t = {} THEN 0 ELSE f[Some(t)] + g[t \ {Some(t)}]
        BY <2>1, <2>5
    <2>4. g = [t \in SUBSET s |-> IF t = {} THEN 0 ELSE f[Some(t)] + g[t \ {Some(t)}]]
        BY <2>2, <2>3
    <2> QED
        BY <2>4 DEF Adds, Some
<1> QED
    BY <1>3, <1>6

LEMMA TotalAdds ==
    ASSUME NEW f, NEW S, IsFiniteSet(S)
    PROVE  \E g : Adds(g, f, S) /\ \A s \in SUBSET S : Total(f, s) = g[s]
<1> DEFINE Fold(s) == CHOOSE g : Adds(g, f, s)
<1>1. \A s \in SUBSET S : IsFiniteSet(s) /\ Adds(Fold(s), f, s)
    BY AddsExists, FS_Subset
<1>2. \A s \in SUBSET S : Total(f, s) = Fold(s)[s]
    BY TotalIsAdded
<1> HIDE DEF Fold
<1>3. \A s \in SUBSET S : Fold(s)[s] = Fold(S)[s]
    BY <1>1, AddsAgree
<1> QED
    BY <1>1, <1>2, <1>3

--------------------------------------------------------------------------------
LEMMA TotalEmpty ==
    ASSUME NEW f
    PROVE  Total(f, {}) = 0
BY TotalAdds, AddsNone, FS_EmptySet

LEMMA TotalSome ==
    ASSUME NEW f, NEW S, IsFiniteSet(S), S # {}
    PROVE  Some(S) \in S /\ Total(f, S) = f[Some(S)] + Total(f, S \ {Some(S)})
<1>1. PICK g : Adds(g, f, S) /\ \A s \in SUBSET S : Total(f, s) = g[s]
    BY TotalAdds
<1> DEFINE x == Some(S)
<1>2. S \in SUBSET S /\ S \ {x} \in SUBSET S
    OBVIOUS
<1>3. x \in S /\ g[S] = f[x] + g[S \ {x}]
    BY <1>1, <1>2, AddsSome
<1> HIDE DEF x
<1>4. Total(f, S) = g[S] /\ Total(f, S \ {x}) = g[S \ {x}]
    BY <1>1, <1>2
<1> QED
    BY <1>3, <1>4 DEF x

\* The sum of integers is one.
LEMMA TotalInt ==
    ASSUME NEW f, NEW S, IsFiniteSet(S), \A x \in S : f[x] \in Int
    PROVE  Total(f, S) \in Int
<1> DEFINE F == {s \in SUBSET S : Total(f, s) \notin Int}
<1>1. SUFFICES ASSUME F # {} PROVE FALSE
    OBVIOUS
<1>2. \A s \in SUBSET S : IsFiniteSet(s)
    BY FS_Subset
<1>3. PICK s \in F : \A t \in F : Cardinality(s) <= Cardinality(t)
    BY <1>1, <1>2, SmallestSet
<1>4. s # {}
    BY <1>3, TotalEmpty
<1> DEFINE x == Some(s)
<1>5. x \in s /\ Total(f, s) = f[x] + Total(f, s \ {x})
    BY <1>2, <1>4, TotalSome
<1> HIDE DEF x
<1>6. s \ {x} \in SUBSET S /\ Cardinality(s \ {x}) < Cardinality(s)
      /\ Cardinality(s \ {x}) \in Nat /\ Cardinality(s) \in Nat
    BY <1>2, <1>5, Smaller
<1>7. Total(f, s \ {x}) \in Int
    BY <1>3, <1>6
<1> QED
    BY <1>3, <1>5, <1>7

\* Any element can be taken out first.
LEMMA TotalSplit ==
    ASSUME NEW f, NEW S, IsFiniteSet(S), \A x \in S : f[x] \in Int, NEW e \in S
    PROVE  /\ Total(f, S) \in Int /\ Total(f, S \ {e}) \in Int
           /\ Total(f, S) = f[e] + Total(f, S \ {e})
<1> DEFINE F == {s \in SUBSET S : \E y \in s : Total(f, s) # f[y] + Total(f, s \ {y})}
<1>2. \A s \in SUBSET S : IsFiniteSet(s) /\ Total(f, s) \in Int
    BY FS_Subset, TotalInt
<1>1. SUFFICES ASSUME F # {} PROVE FALSE
    BY <1>2
<1>3. PICK s \in F : \A t \in F : Cardinality(s) <= Cardinality(t)
    BY <1>1, <1>2, SmallestSet
<1>4. PICK y \in s : Total(f, s) # f[y] + Total(f, s \ {y})
    BY <1>3
<1> DEFINE x == Some(s)
<1>5. x \in s /\ Total(f, s) = f[x] + Total(f, s \ {x})
    BY <1>2, <1>4, TotalSome
<1> HIDE DEF x
<1>6. x # y
    BY <1>4, <1>5
<1>7. ASSUME NEW z \in s
      PROVE  s \ {z} \in SUBSET S /\ s \ {z} \notin F
    <2>1. s \ {z} \in SUBSET S /\ IsFiniteSet(s)
        BY <1>2, <1>3
    <2>2. Cardinality(s \ {z}) < Cardinality(s)
          /\ Cardinality(s) \in Nat /\ Cardinality(s \ {z}) \in Nat
        BY <1>7, <2>1, Smaller
    <2>3. ~(Cardinality(s) <= Cardinality(s \ {z}))
        BY <2>2
    <2> QED
        BY <1>3, <2>1, <2>3
<1> DEFINE u == (s \ {x}) \ {y}
<1>8. Total(f, s \ {x}) = f[y] + Total(f, u)
    BY <1>5, <1>6, <1>7
<1>9. u = (s \ {y}) \ {x}
    OBVIOUS
<1>10. Total(f, s \ {y}) = f[x] + Total(f, u)
    BY <1>5, <1>6, <1>7, <1>9
<1>11. f[x] \in Int /\ f[y] \in Int /\ Total(f, u) \in Int
    BY <1>2, <1>5
<1> QED
    BY <1>4, <1>5, <1>8, <1>10, <1>11

\* The sum over a set with a new element.
LEMMA TotalAdd ==
    ASSUME NEW f, NEW S, IsFiniteSet(S), NEW e, e \notin S,
           \A x \in S \cup {e} : f[x] \in Int
    PROVE  /\ Total(f, S) \in Int
           /\ Total(f, S \cup {e}) = f[e] + Total(f, S)
<1>1. IsFiniteSet(S \cup {e})
    BY FS_AddElement
<1>2. (S \cup {e}) \ {e} = S
    OBVIOUS
<1>3. e \in S \cup {e}
    OBVIOUS
<1> DEFINE T == S \cup {e}
<1>4. Total(f, T) = f[e] + Total(f, T \ {e})
    <2>1. e \in T /\ IsFiniteSet(T) /\ \A x \in T : f[x] \in Int
        BY <1>1
    <2> HIDE DEF T
    <2> QED
        BY <2>1, TotalSplit
<1>5. Total(f, S) \in Int
    BY TotalInt
<1> QED
    BY <1>2, <1>4, <1>5

\* Sums of what is equal are equal.
LEMMA TotalAgree ==
    ASSUME NEW f, NEW g, NEW S, IsFiniteSet(S), \A x \in S : f[x] = g[x]
    PROVE  Total(f, S) = Total(g, S)
<1> DEFINE F == {s \in SUBSET S : Total(f, s) # Total(g, s)}
<1>1. SUFFICES ASSUME F # {} PROVE FALSE
    OBVIOUS
<1>2. \A s \in SUBSET S : IsFiniteSet(s)
    BY FS_Subset
<1>3. PICK s \in F : \A t \in F : Cardinality(s) <= Cardinality(t)
    BY <1>1, <1>2, SmallestSet
<1>4. s # {}
    BY <1>3, TotalEmpty
<1> DEFINE x == Some(s)
<1>5. x \in s /\ Total(f, s) = f[x] + Total(f, s \ {x}) /\ Total(g, s) = g[x] + Total(g, s \ {x})
    BY <1>2, <1>4, TotalSome
<1> HIDE DEF x
<1>6. s \ {x} \in SUBSET S /\ Cardinality(s \ {x}) < Cardinality(s)
      /\ Cardinality(s \ {x}) \in Nat /\ Cardinality(s) \in Nat
    BY <1>2, <1>5, Smaller
<1>7. Total(f, s \ {x}) = Total(g, s \ {x})
    BY <1>3, <1>6
<1> QED
    BY <1>3, <1>5, <1>7

\* The sum of naturals is one, no less than any part of it.
LEMMA TotalNat ==
    ASSUME NEW f, NEW S, IsFiniteSet(S), \A x \in S : f[x] \in Nat
    PROVE  Total(f, S) \in Nat
<1> DEFINE F == {s \in SUBSET S : Total(f, s) \notin Nat}
<1>1. SUFFICES ASSUME F # {} PROVE FALSE
    OBVIOUS
<1>2. \A s \in SUBSET S : IsFiniteSet(s)
    BY FS_Subset
<1>3. PICK s \in F : \A t \in F : Cardinality(s) <= Cardinality(t)
    BY <1>1, <1>2, SmallestSet
<1>4. s # {}
    BY <1>3, TotalEmpty
<1> DEFINE x == Some(s)
<1>5. x \in s /\ Total(f, s) = f[x] + Total(f, s \ {x})
    BY <1>2, <1>4, TotalSome
<1> HIDE DEF x
<1>6. s \ {x} \in SUBSET S /\ Cardinality(s \ {x}) < Cardinality(s)
      /\ Cardinality(s \ {x}) \in Nat /\ Cardinality(s) \in Nat
    BY <1>2, <1>5, Smaller
<1>7. Total(f, s \ {x}) \in Nat
    BY <1>3, <1>6
<1> QED
    BY <1>3, <1>5, <1>7

LEMMA TotalGrows ==
    ASSUME NEW f, NEW S, IsFiniteSet(S), \A x \in S : f[x] \in Nat, NEW T \in SUBSET S
    PROVE  /\ Total(f, T) \in Nat /\ Total(f, S) \in Nat
           /\ Total(f, T) <= Total(f, S)
<1> DEFINE F == {s \in SUBSET S : T \subseteq s /\ ~(Total(f, T) <= Total(f, s))}
<1>2. \A s \in SUBSET S : IsFiniteSet(s) /\ Total(f, s) \in Nat
    BY FS_Subset, TotalNat
<1>1. SUFFICES ASSUME F # {} PROVE FALSE
    BY <1>2
<1>3. PICK s \in F : \A t \in F : Cardinality(s) <= Cardinality(t)
    BY <1>1, <1>2, SmallestSet
<1>4. s # T
    BY <1>2, <1>3
<1>5. PICK x \in s : x \notin T
    BY <1>3, <1>4
<1>6. Total(f, s) = f[x] + Total(f, s \ {x})
    BY <1>2, <1>3, TotalSplit
<1>7. s \ {x} \in SUBSET S /\ T \subseteq s \ {x} /\ Cardinality(s \ {x}) < Cardinality(s)
      /\ Cardinality(s \ {x}) \in Nat /\ Cardinality(s) \in Nat
    BY <1>2, <1>3, <1>5, Smaller
<1>8. Total(f, T) <= Total(f, s \ {x})
    BY <1>3, <1>7
<1>9. f[x] \in Nat /\ Total(f, T) \in Nat /\ Total(f, s) \in Nat /\ Total(f, s \ {x}) \in Nat
    BY <1>2, <1>3, <1>7
<1> QED
    BY <1>3, <1>6, <1>8, <1>9

LEMMA TotalAtLeast ==
    ASSUME NEW f, NEW S, IsFiniteSet(S), \A x \in S : f[x] \in Nat, NEW e \in S
    PROVE  Total(f, S) \in Nat /\ f[e] \in Nat /\ f[e] <= Total(f, S)
<1>1. Total(f, S) = f[e] + Total(f, S \ {e})
    BY TotalSplit
<1>2. Total(f, S \ {e}) \in Nat /\ Total(f, S) \in Nat
    BY TotalGrows
<1> QED
    BY <1>1, <1>2

\* The sum of zeros, and of a single number that is none.
LEMMA TotalZero ==
    ASSUME NEW f, NEW S, IsFiniteSet(S), \A x \in S : f[x] = 0
    PROVE  Total(f, S) = 0
<1> DEFINE F == {s \in SUBSET S : Total(f, s) # 0}
<1>1. SUFFICES ASSUME F # {} PROVE FALSE
    OBVIOUS
<1>2. \A s \in SUBSET S : IsFiniteSet(s)
    BY FS_Subset
<1>3. PICK s \in F : \A t \in F : Cardinality(s) <= Cardinality(t)
    BY <1>1, <1>2, SmallestSet
<1>4. s # {}
    BY <1>3, TotalEmpty
<1> DEFINE x == Some(s)
<1>5. x \in s /\ Total(f, s) = f[x] + Total(f, s \ {x})
    BY <1>2, <1>4, TotalSome
<1> HIDE DEF x
<1>6. s \ {x} \in SUBSET S /\ Cardinality(s \ {x}) < Cardinality(s)
      /\ Cardinality(s \ {x}) \in Nat /\ Cardinality(s) \in Nat
    BY <1>2, <1>5, Smaller
<1>7. Total(f, s \ {x}) = 0
    BY <1>3, <1>6
<1> QED
    BY <1>3, <1>5, <1>7

LEMMA TotalScaled ==
    ASSUME NEW f, NEW g, NEW S, IsFiniteSet(S), NEW k \in Nat,
           \A x \in S : g[x] \in Nat /\ f[x] = g[x] * k
    PROVE  Total(g, S) \in Nat /\ Total(f, S) = Total(g, S) * k
<1> DEFINE F == {s \in SUBSET S : Total(f, s) # Total(g, s) * k}
<1>1. \A s \in SUBSET S : IsFiniteSet(s) /\ Total(g, s) \in Nat
    BY FS_Subset, TotalNat
<1>2. SUFFICES ASSUME F # {} PROVE FALSE
    BY <1>1
<1>3. PICK s \in F : \A t \in F : Cardinality(s) <= Cardinality(t)
    BY <1>1, <1>2, SmallestSet
<1>4. s # {}
    <2>1. 0 = 0 * k
        OBVIOUS
    <2> QED
        BY <1>3, <2>1, TotalEmpty
<1> DEFINE x == Some(s)
<1>5. x \in s /\ Total(f, s) = f[x] + Total(f, s \ {x}) /\ Total(g, s) = g[x] + Total(g, s \ {x})
    BY <1>1, <1>4, TotalSome
<1> HIDE DEF x
<1>6. s \ {x} \in SUBSET S /\ Cardinality(s \ {x}) < Cardinality(s)
      /\ Cardinality(s \ {x}) \in Nat /\ Cardinality(s) \in Nat
    BY <1>1, <1>5, Smaller
<1>7. Total(f, s \ {x}) = Total(g, s \ {x}) * k /\ Total(g, s \ {x}) \in Nat
    BY <1>1, <1>3, <1>6
<1> DEFINE a == g[x]
           b == Total(g, s \ {x})
<1>8. a \in Nat /\ b \in Nat /\ f[x] = a * k /\ Total(f, s \ {x}) = b * k
    BY <1>5, <1>7
<1>9. Total(g, s) = a + b /\ Total(f, s) = a * k + b * k /\ Total(f, s) # Total(g, s) * k
    BY <1>3, <1>5, <1>8
<1> HIDE DEF a, b
<1>10. a * k + b * k = (a + b) * k
    BY <1>8
<1> QED
    BY <1>9, <1>10

LEMMA TotalOne ==
    ASSUME NEW f, NEW S, IsFiniteSet(S), NEW e \in S, f[e] \in Int,
           \A x \in S \ {e} : f[x] = 0
    PROVE  Total(f, S) = f[e]
<1>1. \A x \in S : f[x] \in Int
    OBVIOUS
<1>2. Total(f, S) = f[e] + Total(f, S \ {e})
    BY <1>1, TotalSplit
<1>3. IsFiniteSet(S \ {e})
    BY FS_Subset
<1> DEFINE T == S \ {e}
<1>4. Total(f, T) = 0
    <2>1. IsFiniteSet(T) /\ \A x \in T : f[x] = 0
        BY <1>3
    <2> HIDE DEF T
    <2> QED
        BY <2>1, TotalZero
<1> QED
    BY <1>2, <1>4

--------------------------------------------------------------------------------
LEMMA MinOfNats ==
    ASSUME NEW T \in SUBSET Nat, T # {}
    PROVE  Min(T) \in T /\ \A m \in T : Min(T) <= m
BY LeastNat DEF Min

\* A finite set of naturals has an upper bound, its sum, and so a least one.
LEMMA MaxOfNats ==
    ASSUME NEW T \in SUBSET Nat, T # {}, IsFiniteSet(T)
    PROVE  Max(T) \in T /\ \A m \in T : m <= Max(T)
<1> DEFINE id == [t \in T |-> t]
           Bounds == {n \in Nat : \A t \in T : t <= n}
<1>1. Total(id, T) \in Bounds
    <2>1. \A t \in T : id[t] \in Nat /\ id[t] = t
        OBVIOUS
    <2> HIDE DEF id
    <2>2. Total(id, T) \in Nat /\ \A t \in T : id[t] <= Total(id, T)
        BY <2>1, TotalNat, TotalAtLeast
    <2> QED
        BY <2>1, <2>2
<1>2. PICK n \in Bounds : \A m \in Bounds : n <= m
    <2>1. Bounds \in SUBSET Nat /\ Bounds # {}
        BY <1>1
    <2> HIDE DEF Bounds
    <2> QED
        BY <2>1, LeastNat
<1>3. n \in T
    <2>1. SUFFICES ASSUME n \notin T PROVE FALSE
        OBVIOUS
    <2>2. \A t \in T : t \in Nat /\ t <= n /\ t # n
        BY <2>1
    <2>3. PICK t \in T : TRUE
        OBVIOUS
    <2>4. n - 1 \in Nat /\ \A u \in T : u <= n - 1
        BY <2>2, <2>3
    <2>5. n - 1 \in Bounds
        BY <2>4
    <2>6. n <= n - 1
        BY <1>2, <2>5
    <2> QED
        BY <2>4, <2>6
<1>4. \E x \in T : \A y \in T : x >= y
    BY <1>2, <1>3
<1>5. Max(T) \in T /\ \A y \in T : Max(T) >= y
    BY <1>4 DEF Max
<1> QED
    BY <1>5

================================================================================
