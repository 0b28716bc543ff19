--------------------------- MODULE MCScheduledPipeline -------------------------
(* Model checking of ScheduledPipeline: calls and tickers are interchangeable, *)
(* and states that no step and no property can tell apart are one state.       *)
EXTENDS ScheduledPipeline, TLC

\* Sound: no property run with it is a liveness property.
PipelineSymmetry == Permutations(Calls) \cup Permutations(Tickers)

\* What a call reads of its own past: `now` until it has claimed, of the row it
\* has seen only whether the UPDATE will still find it, and its stage and
\* holdings while it executes.  Nothing reads who the claimant was.
Dated(c) == IF pc[c] \in {"insert", "read", "swap"} THEN now[c] ELSE 0
Unwritten(c) == pc[c] = "swap" /\ seen[c].updated_at = row.updated_at
Stage(c) == IF pc[c] \in Ledger!Executing THEN <<at[c], held[c]>> ELSE <<>>

LiveView ==
    <<row.status, row.started_at, clock, pc, [c \in Calls |-> <<Dated(c), Unwritten(c), Stage(c)>>],
      book, rows, notes>>

================================================================================
