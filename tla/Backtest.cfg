SPECIFICATION Spec
CONSTANTS
    MaxPositionPct = 10
    MaxDailyDrawdownPct = 5
    StopLossPct = 3
    TakeProfitPct = 6
    MaxAmount = 2
    StartingEquity = 1000
    Closes <- MCCloses
    LowerBound = 40
    UpperBound = 120
    GridLevels = 4
    CandlesPerDay = 2
    MaxCandles = 6
    MaxDay = 2
INVARIANTS ReportBalances NoTradeWhileHalted DrawdownIsWorst GridNeverSellsAtALoss
\* the candles come to an end
CHECK_DEADLOCK FALSE
