\* The cron schedule gives each day two evaluations.
SPECIFICATION Spec
CONSTANTS
    Kinds = {full, volatility}
    LastDay = 3
    Usable <- UsableDays
    MinimumHistory = 3
INVARIANT NoDayIsDuplicated
CHECK_DEADLOCK FALSE
