\* Calls that end within the lock timeout: failures, crashes and retries.
SPECIFICATION FairSpec
CONSTANTS
    Calls = {c1, c2, c3}
    NoCall = NoCall
    LockTimeout = 1
    PromptCalls = TRUE
    LostAcks = FALSE
    MaxClock = 4
INVARIANTS
    TypeOK
    AtMostOneExecutor
PROPERTIES
    LiveClaimNeverStolen
    CompletedIsFinal
    LostOnlyToAClaim
    ImplementsLease
    RetryTakesOver
\* The triggers of a date come to an end.
CHECK_DEADLOCK FALSE
