----------------------------- MODULE MCComputations -----------------------------
(* Model checking of Computations. *)
EXTENDS Computations

CONSTANTS t1, t2, t3

\* Log closes: moves of every kind, a flat end, a day missing, a day after AsOf.
SeriesSet == {(1 :> 0 @@ 2 :> 1 @@ 3 :> 1 @@ 4 :> 3),
              (1 :> 0 @@ 2 :> 1 @@ 3 :> 2 @@ 5 :> 4),
              (1 :> 0 @@ 2 :> 2 @@ 3 :> 1 @@ 4 :> 0)}
\* Stationary, not stationary, and a fall that lowers the variance.
ParameterSet == {[alpha |-> 1, gamma |-> 1, beta |-> 8],
                 [alpha |-> 1, gamma |-> 2, beta |-> 8],
                 [alpha |-> 1, gamma |-> -2, beta |-> 8]}
HistorySet == UNION {[1..n -> {4, 8, 12}] : n \in 0..3}
SignalSet == {100, -50}
FrameSet == UNION {[D -> {-1, 3}] : D \in {{}, {1}, {4}, {2, 3}, {1, 4, 5}}}
DateSets == SUBSET (1..6)
VariantSequence == <<"factors", "full">>
CronTable == [j \in Jobs |-> {1}]

\* The sorted scores are those of a sort.
ASSUME SortedAssumption ==
    \A s \in UNION {[1..n -> 1..3] : n \in 0..4} : Sorted(s) = SortSeq(s, <)

================================================================================
