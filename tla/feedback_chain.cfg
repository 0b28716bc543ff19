\* Three requests of any kind on two evaluations of each of two dates.
SPECIFICATION Spec
CONSTANTS
    Requests = {r1, r2, r3}
    Kinds = {full, manual}
    LastDay = 2
    Outcomes = {1, 2}
    Nothing = Nothing
SYMMETRY RequestSymmetry
CHECK_DEADLOCK FALSE
INVARIANTS
    TypeOK
    NothingFoldedTwice
    OneRowPerDate
    SnapshotMatchesFeedback
    LeaksOnlyByBackfill
