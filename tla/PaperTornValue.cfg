SPECIFICATION Spec
CONSTANTS
    btc = btc
    eth = eth
    v1 = v1
    v2 = v2
    Assets <- TwoCoins
    Valuations <- OneValuation
    StartingCash = 6000
    Amounts = {1, 2}
    Prices = {2}
    TickerFails = FALSE
    MaxFees = 12
INVARIANT ValueIsCurrent
