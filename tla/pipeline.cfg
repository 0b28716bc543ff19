\* Two attempts of any length at one run, two tickers.
SPECIFICATION Spec
CONSTANTS
    Calls = {c1, c2}
    NoCall = NoCall
    LockTimeout = 0
    PromptCalls = FALSE
    LostAcks = TRUE
    MaxClock = 1
    Tickers = {t1, t2}
SYMMETRY PipelineSymmetry
VIEW LiveView
INVARIANTS
    TypeOK
    CompletedRunIsWhole
    CoherentBundles
    StatusTellsVolatility
    
PROPERTIES
    BundlesWrittenOnce
    LiveClaimNeverStolen
\* The triggers of a date come to an end.
CHECK_DEADLOCK FALSE
