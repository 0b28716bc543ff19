\* Three tickers, four days of closes, four dates of the backtest, six return dates,
\* two workers, two portfolios and two days of two slots.
SPECIFICATION JobSpec
CONSTANTS
    t1 = t1
    t2 = t2
    t3 = t3
    Cash = Cash
    Tickers = {t1, t2, t3}
    Series <- SeriesSet
    AsOf = 4
    MinObservations = 3
    RealizedWindow = 2
    Ratios = {1, 2, 3}
    Unit = 2
    Parameters <- ParameterSet
    MinAssets = 2
    MinCoverage = 50
    Histories <- HistorySet
    FeedbackThresholds = {1, 9}
    WindowLength = 3
    MinHistory = 2
    Signals <- SignalSet
    Risks = {0, 30, 60, 100}
    Parts = 60
    Grid = {0, 12, 15, 24}
    MaxWeight = 24
    Significant = 30
    Threshold = 5
    Assets = {t1, t2, t3}
    Quantities = {0, 120}
    Prices = {1, 2}
    GrossLimits = {12, 60}
    StockLimit = 15
    SectorLimit = 24
    MinNotional = 40
    BacktestThreshold = 40
    BacktestGrid = {0, 12, 24}
    Universe = {t1, t2}
    Initial = 1200
    LastDate = 4
    Closes = {1, 2}
    CostRate = 10
    Variants <- VariantSequence
    LastReturnDay = 6
    DaysPerMonth = 3
    ReturnDates <- DateSets
    Frames <- FrameSet
    Whole = 2
    Workers = {1, 2}
    Jobs = {1}
    Portfolios = {1, 2}
    SlotsPerDay = 2
    Cron <- CronTable
    LastDay = 2
INVARIANTS
    WellTyped
    RegimeMatchesRank
    MinorityCannotMoveStress
    StressNeverRaisesExposure
    OversoldForCause
    SnapshotFollowsTrades
    GrossUsesPrecedingValue
    RecordsAreComplete
    NoPortfolioPassedOver
CHECK_DEADLOCK FALSE
