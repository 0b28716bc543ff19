\* Three requests that evaluate or rebalance, on two evaluations of each of two dates.
SPECIFICATION Spec
CONSTANTS
    Requests = {r1, r2, r3}
    Kinds = {full, manual}
    LastDay = 2
    Outcomes = {}
    Nothing = Nothing
SYMMETRY RequestSymmetry
CHECK_DEADLOCK FALSE
INVARIANTS
    NothingLeaksBack
