SPECIFICATION Spec
CONSTANTS
    MaxPositionPct = 10
    MaxDailyDrawdownPct = 5
    StopLossPct = 3
    TakeProfitPct = 6
    MaxAmount = 2
    MaxDay = 2
    MaxChecks = 3
    Equities <- MCEquities
    Prices <- MCPrices
INVARIANT StopLossIndependent
\* the clock and the checks are bounded: the model stops at MaxDay
CHECK_DEADLOCK FALSE
