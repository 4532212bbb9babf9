SPECIFICATION Spec
CONSTANTS
    b1 = b1  b2 = b2  t1 = t1  t2 = t2
    Bots <- MCBots
    Ticks <- MCTicks
    SymbolOf <- MCSymbolOf
    Mode = "live"
    BotMode <- MCLiveBots
    Equities <- MCOneEquity
    Prices <- MCPrices
    MaxPositionPct = 10
    MaxDailyDrawdownPct = 5
    StopLossPct = 3
    TakeProfitPct = 6
    MaxAmount = 2
    Faults = {"crash", "db", "delete", "partial", "noprice", "timeout"}
    MaxDay = 1
    MaxTrades = 3
    MaxCoins = 2
    MaxCrashes = 1
SYMMETRY Symmetry
INVARIANTS LedgerAlternates PositionNotStale LedgerMatchesUntilLoss
\* days, ledger rows and restarts are bounded: the model stops there
CHECK_DEADLOCK FALSE
