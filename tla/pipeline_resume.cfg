\* A retry of a run whose portfolio has gained a holding.
SPECIFICATION Spec
CONSTANTS
    Calls = {c1, c2}
    NoCall = NoCall
    LockTimeout = 0
    PromptCalls = FALSE
    LostAcks = FALSE
    MaxClock = 0
    Tickers = {t1, t2}
PROPERTY ResumeNeverBlocked
CHECK_DEADLOCK FALSE
