\* A call outlives the lock timeout: it and its successor both complete.
SPECIFICATION Spec
CONSTANTS
    Calls = {c1, c2, c3}
    NoCall = NoCall
    LockTimeout = 1
    PromptCalls = FALSE
    LostAcks = FALSE
    MaxClock = 4
SYMMETRY CallSymmetry
INVARIANT CompletedOnce
CHECK_DEADLOCK FALSE
