SPECIFICATION Spec
CONSTANTS
    btc = btc
    eth = eth
    v1 = v1
    v2 = v2
    Assets <- OneCoin
    Valuations <- OneValuation
    StartingCash = 6000
    Amounts = {1, 2}
    Prices = {2}
    TickerFails = TRUE
    MaxFees = 6
INVARIANT ValueIsCurrent
