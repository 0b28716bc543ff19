\* Two tickers, two dates of the backtest.
SPECIFICATION Spec
CONSTANTS
    Universe = {t1, t2}
    Cash = CASH
    Initial = 1200
    LastDate = 2
    Closes = {1, 2}
    CostRate = 10
    Parts = 60
    Grid = {0, 12, 24}
    MaxWeight = 24
    Significant = 30
    Threshold = 40
PROPERTIES
    RebalancesTrade
CHECK_DEADLOCK FALSE
