SPECIFICATION Spec
CONSTANTS
    b1 = b1  b2 = b2  t1 = t1  t2 = t2
    Bots <- MCBots
    Ticks <- MCTicks
    SymbolOf <- MCSymbolOf
    Mode = "paper"
    BotMode <- MCPaperBots
    Equities <- MCEquities
    Prices <- MCPrices
    MaxPositionPct = 10
    MaxDailyDrawdownPct = 5
    StopLossPct = 3
    TakeProfitPct = 6
    MaxAmount = 2
    Faults = {"delete"}
    MaxDay = 2
    MaxTrades = 3
    MaxCoins = 4
    MaxCrashes = 0
SYMMETRY Symmetry
INVARIANT LedgerMatchesAccount
\* days, ledger rows and restarts are bounded: the model stops there
CHECK_DEADLOCK FALSE
