--------------------------- MODULE MCStressHistory -----------------------------
(* Model checking of StressHistory. *)
EXTENDS StressHistory, TLC

\* The market days whose returns suffice for the model.
UsableDays == {0, 1}

\* Sound: the kinds are interchangeable and no property is a liveness property.
KindSymmetry == Permutations(Kinds)

================================================================================
