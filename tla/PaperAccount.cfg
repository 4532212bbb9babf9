SPECIFICATION Spec
CONSTANTS
    btc = btc
    eth = eth
    v1 = v1
    v2 = v2
    Assets <- TwoCoins
    Valuations <- OneValuation
    StartingCash = 4000
    Amounts = {1, 2}
    Prices = {1, 2}
    TickerFails = TRUE
    MaxFees = 4
INVARIANTS Solvent RaisesAreFew TornByTurnover
PROPERTIES TradesCostTheirFee
