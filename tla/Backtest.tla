------------------------------ MODULE Backtest ------------------------------
(***************************************************************************)
(* run_backtest (services/backtest.py): a strategy and a RiskManager over  *)
(* historical candles, one step per candle after the lookback.             *)
(*                                                                         *)
(* The strategy is the grid strategy, or any other (RSI and MACD compute   *)
(* with floating-point numbers: here they may signal anything).  The       *)
(* RiskManager asks date.today() at every candle: the date on which the    *)
(* backtest runs, not the candle's, and midnight may pass while it runs.   *)
(* Only the closes of candles are looked at; rounding is left out.         *)
(***************************************************************************)
EXTENDS RiskRules, Sequences, FiniteSetsExt

CONSTANTS
    StartingEquity,  \* starting_equity
    Closes,          \* prices at which candles close
    LowerBound, UpperBound, GridLevels,  \* of the grid strategy
    CandlesPerDay,   \* how many candles of the history make a day
    MaxCandles,      \* bound: candles after the lookback
    MaxDay           \* bound: dates on which the backtest runs

ASSUME BacktestAssumption ==
    /\ StartingEquity \in Nat
    /\ Closes \subseteq Nat \ {0}
    /\ LowerBound \in Nat
    /\ UpperBound \in Nat
    /\ GridLevels \in Nat \ {0}
    /\ CandlesPerDay \in Nat \ {0}
    /\ MaxCandles \in Nat
    /\ MaxDay \in Nat

VARIABLES
    today,      \* date.today()
    strategy,   \* which strategy is tested
    cash,
    position,
    risk,       \* the RiskManager
    peak,       \* peak_equity
    drawdown,   \* max_drawdown
    curve,      \* equity_curve
    trades,     \* with the candle each was made at
    closing,    \* candles[-1].close of what has been run through
    dates       \* history: date.today() at each candle

vars == <<today, strategy, cash, position, risk, peak, drawdown, curve, trades, closing, dates>>

Position == [open : BOOLEAN, amount : Nat, entry : Nat]
Trade    == [candle : Nat, side : {"buy", "sell"}, pnl : Int]

\* The fraction loss / of.
Fraction == [loss : Nat, of : Nat]

NoPosition == [open |-> FALSE, amount |-> 0, entry |-> 0]

TypeOK ==
    /\ today \in Nat \ {0}
    /\ strategy \in {"grid", "any"}
    /\ cash \in Int
    /\ position \in Position
    /\ risk \in RiskState
    /\ peak \in Nat
    /\ drawdown \in Fraction
    /\ curve \in Seq(Nat)
    /\ trades \in Seq(Trade)
    /\ closing \in Nat
    /\ dates \in Seq(Nat)

Init ==
    /\ today = 1
    /\ strategy \in {"grid", "any"}
    /\ cash = StartingEquity
    /\ position = NoPosition
    /\ risk = NewRisk
    /\ peak = StartingEquity
    /\ drawdown = [loss |-> 0, of |-> 1]
    /\ curve = <<>>
    /\ trades = <<>>
    /\ closing = 0
    /\ dates = <<>>

----------------------------------------------------------------------------
\* Wrong: the target lies a step above the grid's lowest level.
GridDecideFromBottom(price) ==
    IF price < LowerBound \/ price > UpperBound THEN "hold"
    ELSE IF ~position.open THEN "buy"
    ELSE IF (price - LowerBound) * GridLevels >= UpperBound - LowerBound THEN "sell"
    ELSE "hold"

\* GridStrategy.decide.  Inside the range there is always a level at or
\* below the price, the lowest being lower_bound.
GridDecide(price) ==
    IF price < LowerBound \/ price > UpperBound THEN "hold"
    ELSE IF ~position.open THEN "buy"
    ELSE IF (price - position.entry) * GridLevels >= UpperBound - LowerBound THEN "sell"
    ELSE "hold"

Decisions(price) == IF strategy = "grid" THEN {GridDecide(price)} ELSE Signals

\* Wrong: open positions count at what was paid for them.
EquityAtCost(price) ==
    IF position.open THEN cash + position.amount * position.entry ELSE cash

Equity(price) == IF position.open THEN cash + position.amount * price ELSE cash

\* An approved BUY that the cash covers, an approved SELL of a position.
CanBuy(price, signal, v) ==
    /\ v.approved /\ signal = "buy" /\ ~position.open
    /\ v.amount > 0 /\ v.amount * price <= cash

CanSell(signal, v) == v.approved /\ signal = "sell" /\ position.open

TradeOf(side, pnl) == [candle |-> Len(curve) + 1, side |-> side, pnl |-> pnl]

\* Wrong: what was paid is not taken from the cash.
BuyOnCredit(price, amount) ==
    /\ position' = [open |-> TRUE, amount |-> amount, entry |-> price]
    /\ trades' = Append(trades, TradeOf("buy", 0))
    /\ UNCHANGED cash

Buy(price, amount) ==
    /\ cash' = cash - amount * price
    /\ position' = [open |-> TRUE, amount |-> amount, entry |-> price]
    /\ trades' = Append(trades, TradeOf("buy", 0))

Sell(price) ==
    /\ cash' = cash + position.amount * price
    /\ position' = NoPosition
    /\ trades' = Append(trades, TradeOf("sell", position.amount * (price - position.entry)))

\* What comes of the verdict v on the strategy's signal.
Act(price, signal, v) ==
    \/ CanBuy(price, signal, v) /\ Buy(price, v.amount)
    \/ CanSell(signal, v) /\ Sell(price)
    \/ /\ ~CanBuy(price, signal, v) /\ ~CanSell(signal, v)
       /\ UNCHANGED <<cash, position, trades>>

\* Wrong: the drawdown is measured from the start.
MeasureFromStart(equity) ==
    /\ peak' = StartingEquity
    /\ drawdown' = IF equity < StartingEquity
                      /\ (StartingEquity - equity) * drawdown.of > drawdown.loss * StartingEquity
                   THEN [loss |-> StartingEquity - equity, of |-> StartingEquity]
                   ELSE drawdown

\* The running peak, and the largest fraction lost of a peak.
Measure(equity) ==
    /\ peak' = IF equity > peak THEN equity ELSE peak
    /\ drawdown' = IF (peak' - equity) * drawdown.of > drawdown.loss * peak'
                   THEN [loss |-> peak' - equity, of |-> peak'] ELSE drawdown

\* The body of the loop, for the next candle.
Candle(price) ==
    /\ Len(curve) < MaxCandles
    /\ risk' = CheckDrawdown(risk, today, Equity(price))
    /\ \E signal \in Decisions(price) :
       \E v \in Evaluate(risk', signal, Equity(price), price, position.entry) :
          Act(price, signal, v)
    /\ curve' = Append(curve, Equity(price)')
    /\ Measure(Equity(price)')
    /\ closing' = price
    /\ dates' = Append(dates, today)
    /\ UNCHANGED <<today, strategy>>

\* Midnight passes between two candles.
Midnight ==
    /\ today < MaxDay
    /\ today' = today + 1
    /\ UNCHANGED <<strategy, cash, position, risk, peak, drawdown, curve, trades, closing, dates>>

Next == Midnight \/ \E price \in Closes : Candle(price)

Spec == Init /\ [][Next]_vars

----------------------------------------------------------------------------
Sells == {i \in DOMAIN trades : trades[i].side = "sell"}

(***************************************************************************)
(* The report's figures agree: what the account ends with is the starting  *)
(* equity, the pnl of its sells and the gain of the open position, and     *)
(* nothing was bought on credit.                                           *)
(***************************************************************************)
ReportBalances ==
    /\ cash >= 0
    /\ Equity(closing) = StartingEquity
                         + SumFunction([i \in Sells |-> trades[i].pnl])
                         + position.amount * (closing - position.entry)

\* Candle j was the first to be run on its date.
FirstOfDate(j) == \A k \in 1 .. j - 1 : dates[k] # dates[j]

(***************************************************************************)
(* Once the equity of a candle is down by the daily limit since the first  *)
(* candle that was run on the same date, no trade is made on that date,    *)
(* whether or not the equity recovers (risk.py:34-53, backtest.py:55-65).  *)
(* The date is the one of the run: what it has to do with the days of the  *)
(* history is another question (HaltedByItsDay).                           *)
(***************************************************************************)
NoTradeWhileHalted ==
    \A i \in DOMAIN trades : \A j, k \in 1 .. trades[i].candle :
        /\ FirstOfDate(j) /\ j <= k
        /\ dates[j] = dates[trades[i].candle]
        /\ dates[k] = dates[trades[i].candle]
        => ~Breaches(curve[j], curve[k])

\* The day of the history that candle k belongs to.
DayOf(k) == (k - 1) \div CandlesPerDay

(***************************************************************************)
(* "trading halted until tomorrow" (risk.py:52), in a backtest that        *)
(* "actually predicts live behavior" (backtest.py:2-5): a halt is due to a *)
(* loss on the day of the history that the candle belongs to.  It lasts    *)
(* for the rest of the run.                                                *)
(***************************************************************************)
HaltedByItsDay ==
    risk.halted =>
        \E j, k \in DOMAIN curve :
            /\ j <= k
            /\ DayOf(j) = DayOf(Len(curve)) /\ DayOf(k) = DayOf(Len(curve))
            /\ Breaches(curve[j], curve[k])

Lost(j, k) == j <= k /\ curve[k] < curve[j]

(***************************************************************************)
(* max_drawdown_pct, computed in one pass, is the largest fraction lost    *)
(* between any two points of the equity curve (backtest.py:99-102).        *)
(***************************************************************************)
DrawdownIsWorst ==
    /\ \A j, k \in DOMAIN curve :
          Lost(j, k) => (curve[j] - curve[k]) * drawdown.of <= drawdown.loss * curve[j]
    /\ drawdown.loss = 0
       \/ \E j, k \in DOMAIN curve :
             Lost(j, k) /\ drawdown.of = curve[j] /\ drawdown.loss = curve[j] - curve[k]

(***************************************************************************)
(* A grid's win rate is 0 or 1: it sells a step above its entry or not at  *)
(* all, since no stop-loss ever sells for it (grid_strategy.py:42-46,      *)
(* risk.py:76-81).                                                         *)
(***************************************************************************)
GridNeverSellsAtALoss ==
    strategy = "grid" /\ UpperBound > LowerBound => \A i \in Sells : trades[i].pnl > 0
=============================================================================
