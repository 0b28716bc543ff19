------------------------------- MODULE RunLease -------------------------------
(***************************************************************************)
(* What docs/phase6_operations.md promises of the scheduled-run ledger,    *)
(* with no clock, no row versions and no statements: a run key is leased   *)
(* to one call at a time, a failed or abandoned lease can be taken over,   *)
(* and a completed run is never leased again.                              *)
(***************************************************************************)
CONSTANT Calls

VARIABLES
    status,   \* status of the run key
    holders   \* calls that are executing the run

vars == <<status, holders>>

Init == status = "NONE" /\ holders = {}

\* A call obtains the lease on a new or failed run, or on one abandoned by a
\* call that died: in every case nobody else is executing it.
Acquire(c) ==
    /\ status \in {"NONE", "FAILED", "RUNNING"}
    /\ holders = {}
    /\ status' = "RUNNING"
    /\ holders' = {c}

\* The holder, and nobody else, records the outcome.
Finish(c) ==
    /\ holders = {c}
    /\ status = "RUNNING"
    /\ status' \in {"COMPLETED", "FAILED"}
    /\ holders' = {}

\* The holder dies: the run stays RUNNING.
Abandon(c) ==
    /\ holders = {c}
    /\ holders' = {}
    /\ UNCHANGED status

Next == \E c \in Calls : Acquire(c) \/ Finish(c) \/ Abandon(c)

Spec == Init /\ [][Next]_vars
================================================================================
