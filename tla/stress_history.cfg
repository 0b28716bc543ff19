\* A full evaluation and a volatility refresh for each of three days.
SPECIFICATION Spec
CONSTANTS
    Kinds = {full, volatility}
    LastDay = 3
    Usable <- UsableDays
    MinimumHistory = 3
SYMMETRY KindSymmetry
INVARIANTS
    TypeOK
    NoLookahead
    WindowLongEnough
    RefusedForCause
CHECK_DEADLOCK FALSE
