--------------------------- MODULE MCScheduledRuns ---------------------------
(* Small instances of the scheduled-run ledger for TLC. *)
EXTENDS ScheduledRuns, TLC

\* Calls are interchangeable: nothing in the ledger compares them but for
\* equality.  Only used where no liveness property is checked.
CallSymmetry == Permutations(Calls)
==============================================================================
