--------------------------- MODULE BacktestProofs ---------------------------
(***************************************************************************)
(* Proofs about Backtest for any history of candles and any limits.        *)
(*                                                                         *)
(* A trade at the close of a candle does not change the equity at that     *)
(* close (CandleStep), so the manager's readings are the equity curve: its *)
(* baseline is the first point that was run on its date, and while it has  *)
(* not tripped no point of that date is down by the limit (BreakerInv).    *)
(* The largest drawdown is found in one pass because a loss of a lower     *)
(* peak is a smaller fraction (LowerPeak) and a larger fraction bounds     *)
(* whatever a smaller one did (LargerFraction).                            *)
(*                                                                         *)
(* The report balances because the books do after every candle: cash and   *)
(* what the open position was bought for are the starting equity and the   *)
(* gains of the sells (BooksInv).                                          *)
(***************************************************************************)
EXTENDS Backtest, SharedLemmas

AccountInv ==
    /\ TypeOK
    /\ cash >= 0
    /\ position.open => position.amount > 0 /\ position.entry > 0

\* The manager has read what the curve shows of its date, and no candle was
\* run after it.
BreakerInv ==
    /\ Len(dates) = Len(curve)
    /\ curve = <<>> => risk = NewRisk
    /\ curve # <<>> => dates[Len(curve)] = risk.day
    /\ risk.day <= today
    /\ \A k \in DOMAIN curve : dates[k] <= risk.day
    /\ \A j \in DOMAIN curve : dates[j] = risk.day /\ FirstOfDate(j) => curve[j] = risk.start
    /\ ~risk.halted =>
          \A k \in DOMAIN curve : dates[k] = risk.day => ~Breaches(risk.start, curve[k])
    /\ \A i \in DOMAIN trades : trades[i].candle <= Len(curve)

ReportInv == AccountInv /\ BreakerInv /\ NoTradeWhileHalted /\ GridNeverSellsAtALoss

\* peak and drawdown after the points of the curve.
IsPeak ==
    IF curve = <<>> THEN peak = StartingEquity
    ELSE /\ \A k \in DOMAIN curve : curve[k] <= peak
         /\ \E j \in DOMAIN curve : curve[j] = peak

IsWorst ==
    \A j, k \in DOMAIN curve :
        j <= k => (curve[j] - curve[k]) * drawdown.of <= drawdown.loss * curve[j]

IsReached ==
    drawdown.loss = 0 \/
    \E j, k \in DOMAIN curve :
        Lost(j, k) /\ drawdown.of = curve[j] /\ drawdown.loss = curve[j] - curve[k]

DrawdownInv ==
    /\ ReportInv
    /\ curve # <<>> \/ (cash = StartingEquity /\ ~position.open)
    /\ drawdown.of > 0 /\ drawdown.loss <= drawdown.of
    /\ IsPeak /\ IsWorst /\ IsReached

----------------------------------------------------------------------------
LEMMA ProductNat ==
    ASSUME NEW a \in Nat, NEW b \in Nat
    PROVE  a * b \in Nat
OBVIOUS

LEMMA ProductMonotonic ==
    ASSUME NEW a \in Int, NEW b \in Int, NEW c \in Nat, a <= b
    PROVE  a * c <= b * c
OBVIOUS

LEMMA ProductCancels ==
    ASSUME NEW a \in Int, NEW b \in Int, NEW c \in Nat, c > 0, a * c <= b * c
    PROVE  a <= b
OBVIOUS

\* loss / of <= loss2 / of2: what is bounded by the first is by the second.
LEMMA LargerFraction ==
    ASSUME NEW a \in Int, NEW c \in Nat, NEW loss \in Nat, NEW of \in Nat,
           NEW loss2 \in Nat, NEW of2 \in Nat, of > 0,
           a * of <= loss * c, loss * of2 <= loss2 * of
    PROVE  a * of2 <= loss2 * c
<1>1. (a * of) * of2 <= (loss * c) * of2
  BY ProductMonotonic
<1>2. (loss * of2) * c <= (loss2 * of) * c
  BY ProductMonotonic
<1>3. /\ (a * of) * of2 = (a * of2) * of
      /\ (loss * c) * of2 = (loss * of2) * c
      /\ (loss2 * of) * c = (loss2 * c) * of
  OBVIOUS
<1>4. (a * of2) * of <= (loss2 * c) * of
  BY <1>1, <1>2, <1>3
<1> QED BY <1>4, ProductCancels

\* A fall to e from a lower peak is a smaller fraction.
LEMMA LowerPeak ==
    ASSUME NEW c \in Nat, NEW p \in Nat, NEW e \in Nat,
           NEW loss \in Nat, NEW of \in Nat, loss <= of, c <= p,
           (p - e) * of <= loss * p
    PROVE  (c - e) * of <= loss * c
<1> PICK rest \in Nat : of = loss + rest
  OBVIOUS
<1>1. /\ (p - e) * of = p * loss + p * rest - e * of
      /\ (c - e) * of = c * loss + c * rest - e * of
  OBVIOUS
<1>2. c * rest <= p * rest
  BY ProductMonotonic
<1> QED BY <1>1, <1>2

----------------------------------------------------------------------------
LEMMA EquityNat ==
    ASSUME AccountInv, NEW price \in Closes
    PROVE  Equity(price) \in Nat /\ price \in Nat /\ price > 0
<1>1. cash \in Nat /\ price \in Nat /\ price > 0 /\ position.amount \in Nat
  BY BacktestAssumption DEF AccountInv, TypeOK, Position
<1>2. position.amount * price \in Nat
  BY <1>1, ProductNat
<1> QED BY <1>1, <1>2 DEF Equity

\* The target of a grid position is above its entry.
LEMMA GridSellsHigher ==
    ASSUME AccountInv, NEW price \in Closes, UpperBound > LowerBound, position.open,
           GridDecide(price) = "sell"
    PROVE  price > position.entry
<1>1. /\ price \in Nat /\ position.entry \in Nat /\ GridLevels \in Nat
      /\ UpperBound \in Nat /\ LowerBound \in Nat
  BY BacktestAssumption DEF AccountInv, TypeOK, Position
<1>2. (price - position.entry) * GridLevels > 0
  BY <1>1 DEF GridDecide
<1>3. price - position.entry <= 0 => (price - position.entry) * GridLevels <= 0 * GridLevels
  BY <1>1, ProductMonotonic
<1> QED BY <1>1, <1>2, <1>3

(***************************************************************************)
(* A candle leaves the equity at its close as it was, and trades only if   *)
(* the check of that equity left the breaker closed.                       *)
(***************************************************************************)
TradeAfter(x) ==
    /\ x \in Trade /\ x.candle = Len(curve) + 1
    /\ ~risk'.halted
    /\ x.side = "sell" /\ strategy = "grid" /\ UpperBound > LowerBound => x.pnl > 0

LEMMA ActStep ==
    ASSUME AccountInv, NEW price \in Closes, NEW signal \in Decisions(price),
           risk' \in RiskState,
           NEW v \in Evaluate(risk', signal, Equity(price), price, position.entry),
           Act(price, signal, v)
    PROVE  /\ Equity(price)' = Equity(price)
           /\ cash' \in Int /\ cash' >= 0 /\ position' \in Position
           /\ position'.open => position'.amount > 0 /\ position'.entry > 0
           /\ trades' = trades \/ \E x : TradeAfter(x) /\ trades' = Append(trades, x)
<1>1. /\ cash \in Nat /\ price \in Nat /\ price > 0 /\ Equity(price) \in Nat
      /\ position \in Position /\ position.amount \in Nat /\ position.entry \in Nat
      /\ position.open \in BOOLEAN /\ Len(curve) + 1 \in Nat
  BY EquityNat DEF AccountInv, TypeOK, Position
<1>2. signal \in Signals
  BY DEF Decisions, GridDecide, Signals
<1>3. v \in Verdicts /\ (v.approved => ~risk'.halted)
  BY <1>1, <1>2, EvaluateVerdicts
<1>4. v.amount \in Nat
  BY <1>3 DEF Verdicts
<1>5. CASE CanBuy(price, signal, v) /\ Buy(price, v.amount)
  <2> PICK cost : cost = v.amount * price
    OBVIOUS
  <2>1. cost \in Nat /\ cost <= cash /\ v.amount > 0 /\ ~position.open /\ ~risk'.halted
    BY <1>1, <1>3, <1>4, <1>5, ProductNat DEF CanBuy
  <2>2. /\ cash' = cash - cost /\ trades' = Append(trades, TradeOf("buy", 0))
        /\ position' = [open |-> TRUE, amount |-> v.amount, entry |-> price]
    BY <1>5 DEF Buy
  <2>3. Equity(price)' = Equity(price)
    BY <1>1, <2>1, <2>2 DEF Equity
  <2>4. /\ TradeOf("buy", 0) \in Trade /\ TradeOf("buy", 0).candle = Len(curve) + 1
        /\ TradeOf("buy", 0).side = "buy"
    BY <1>1 DEF TradeOf, Trade
  <2>5. TradeAfter(TradeOf("buy", 0))
    BY <2>1, <2>4 DEF TradeAfter
  <2>6. position' \in Position
    BY <1>1, <1>4, <2>2 DEF Position
  <2> QED BY <1>1, <2>1, <2>2, <2>3, <2>5, <2>6
<1>6. CASE CanSell(signal, v) /\ Sell(price)
  <2> PICK worth : worth = position.amount * price
    OBVIOUS
  <2> PICK pnl : pnl = position.amount * (price - position.entry)
    OBVIOUS
  <2>1. worth \in Nat /\ position.open /\ ~risk'.halted /\ signal = "sell" /\ pnl \in Int
    BY <1>1, <1>3, <1>6, ProductNat DEF CanSell
  <2>2. /\ cash' = cash + worth /\ position' = NoPosition
        /\ trades' = Append(trades, TradeOf("sell", pnl))
    BY <1>6 DEF Sell
  <2>3. Equity(price)' = Equity(price)
    BY <1>1, <2>1, <2>2 DEF Equity, NoPosition
  <2>4. /\ TradeOf("sell", pnl) \in Trade /\ TradeOf("sell", pnl).candle = Len(curve) + 1
        /\ TradeOf("sell", pnl).pnl = pnl
    BY <1>1, <2>1 DEF TradeOf, Trade
  <2>5. ASSUME strategy = "grid", UpperBound > LowerBound PROVE pnl > 0
    <3>1. price > position.entry /\ position.amount > 0
      BY <2>1, <2>5, GridSellsHigher DEF Decisions, AccountInv
    <3> QED BY <1>1, <3>1
  <2>6. TradeAfter(TradeOf("sell", pnl))
    BY <2>1, <2>4, <2>5 DEF TradeAfter
  <2>7. position' \in Position /\ ~position'.open
    BY <2>2 DEF Position, NoPosition
  <2>8. cash' \in Int /\ cash' >= 0
    BY <1>1, <2>1, <2>2
  <2>9. \E x : TradeAfter(x) /\ trades' = Append(trades, x)
    BY <2>2, <2>6
  <2> QED BY <2>3, <2>7, <2>8, <2>9
<1>7. CASE UNCHANGED <<cash, position, trades>>
  BY <1>1, <1>7 DEF Equity, AccountInv
<1> QED BY <1>5, <1>6, <1>7 DEF Act

LEMMA CandleStep ==
    ASSUME ReportInv, NEW price \in Closes, Candle(price)
    PROVE  \E e \in Nat :
              /\ e = Equity(price)
              /\ risk' = CheckDrawdown(risk, today, e) /\ risk' \in RiskState
              /\ curve' = Append(curve, e)
              /\ dates' = Append(dates, today) /\ today' = today
              /\ Measure(e)
              /\ closing' \in Nat /\ strategy' = strategy
              /\ cash' \in Int /\ cash' >= 0 /\ position' \in Position
              /\ position'.open => position'.amount > 0 /\ position'.entry > 0
              /\ trades' = trades \/ \E x : TradeAfter(x) /\ trades' = Append(trades, x)
<1> PICK e \in Nat : e = Equity(price)
  BY EquityNat DEF ReportInv
<1>1. risk' = CheckDrawdown(risk, today, e) /\ risk' \in RiskState
  BY CheckDrawdownType DEF Candle, ReportInv, AccountInv, TypeOK
<1>2. PICK signal \in Decisions(price) :
        \E v \in Evaluate(risk', signal, Equity(price), price, position.entry) :
            Act(price, signal, v)
  BY DEF Candle
<1>3. /\ Equity(price)' = e
      /\ cash' \in Int /\ cash' >= 0 /\ position' \in Position
      /\ position'.open => position'.amount > 0 /\ position'.entry > 0
      /\ trades' = trades \/ \E x : TradeAfter(x) /\ trades' = Append(trades, x)
  BY <1>1, <1>2, ActStep DEF ReportInv
<1>4. /\ curve' = Append(curve, Equity(price)') /\ Measure(Equity(price)')
      /\ closing' = price /\ strategy' = strategy
      /\ dates' = Append(dates, today) /\ today' = today
  BY DEF Candle
<1>5. closing' \in Nat
  BY <1>4, EquityNat DEF ReportInv
<1> QED BY <1>1, <1>3, <1>4, <1>5

\* What a check of the breaker has read.
LEMMA CheckDrawdownReads ==
    ASSUME NEW r \in RiskState, NEW d \in Nat, NEW e \in Nat
    PROVE  /\ CheckDrawdown(r, d, e).start = IF r.day = d THEN r.start ELSE e
           /\ ~CheckDrawdown(r, d, e).halted =>
                 /\ ~Breaches(CheckDrawdown(r, d, e).start, e)
                 /\ r.day = d => ~r.halted
<1> PICK x \in RiskState : x = RollDay(r, d, e)
  BY DEF RollDay, RiskState
<1>1. x.start = (IF r.day = d THEN r.start ELSE e) /\ (r.day = d => x = r)
  BY DEF RollDay
<1>2. CheckDrawdown(r, d, e) = IF Breaches(x.start, e) THEN [x EXCEPT !.halted = TRUE] ELSE x
  BY DEF CheckDrawdown
<1> QED BY <1>1, <1>2 DEF RiskState

\* One more point on the curve, or one more date.
LEMMA SeqGrows ==
    ASSUME NEW s \in Seq(Nat), NEW e \in Nat
    PROVE  /\ Append(s, e) \in Seq(Nat) /\ Len(s) \in Nat
           /\ Len(Append(s, e)) = Len(s) + 1 /\ Append(s, e) # <<>>
           /\ DOMAIN s = 1 .. Len(s) /\ DOMAIN Append(s, e) = 1 .. Len(s) + 1
           /\ \A k \in 1 .. Len(s) : Append(s, e)[k] = s[k] /\ s[k] \in Nat
           /\ Append(s, e)[Len(s) + 1] = e
           /\ s = <<>> <=> Len(s) = 0
OBVIOUS

LEMMA ReportStep ==
    ASSUME ReportInv, NEW price \in Closes, Candle(price)
    PROVE  ReportInv'
<1> PICK e \in Nat :
        /\ risk' = CheckDrawdown(risk, today, e) /\ risk' \in RiskState
        /\ curve' = Append(curve, e)
        /\ dates' = Append(dates, today) /\ today' = today
        /\ Measure(e)
        /\ closing' \in Nat /\ strategy' = strategy
        /\ cash' \in Int /\ cash' >= 0 /\ position' \in Position
        /\ position'.open => position'.amount > 0 /\ position'.entry > 0
        /\ trades' = trades \/ \E x : TradeAfter(x) /\ trades' = Append(trades, x)
  BY CandleStep
<1> PICK n \in Nat : n = Len(curve)
  BY DEF ReportInv, AccountInv, TypeOK
<1>1. /\ curve' \in Seq(Nat) /\ Len(curve') = n + 1 /\ curve' # <<>>
      /\ DOMAIN curve = 1 .. n /\ DOMAIN curve' = 1 .. n + 1
      /\ \A k \in 1 .. n : curve'[k] = curve[k]
      /\ curve'[n + 1] = e
      /\ curve = <<>> <=> n = 0
  <2>1. curve \in Seq(Nat)
    BY DEF ReportInv, AccountInv, TypeOK
  <2> QED BY <2>1, SeqGrows
<1>0. /\ dates' \in Seq(Nat) /\ Len(dates') = n + 1
      /\ \A k \in 1 .. n : dates'[k] = dates[k] /\ dates[k] \in Nat
      /\ dates'[n + 1] = today
  <2>1. dates \in Seq(Nat) /\ today \in Nat /\ Len(dates) = n
    BY DEF ReportInv, AccountInv, TypeOK, BreakerInv
  <2> QED BY <2>1, SeqGrows
<1>2. /\ risk \in RiskState /\ trades \in Seq(Trade) /\ peak \in Nat /\ drawdown \in Fraction
      /\ today \in Nat \ {0}
  BY DEF ReportInv, AccountInv, TypeOK
<1>3. \A i \in DOMAIN trades : trades[i].candle \in Nat /\ trades[i].candle <= n
  <2>1. \A i \in DOMAIN trades : trades[i] \in Trade
    BY <1>2
  <2> QED BY <2>1 DEF Trade, ReportInv, BreakerInv
<1>4. /\ trades' \in Seq(Trade)
      /\ \A i \in DOMAIN trades' :
            \/ i \in DOMAIN trades /\ trades'[i] = trades[i]
            \/ \E x : TradeAfter(x) /\ trades'[i] = x
  <2>1. CASE trades' = trades
    BY <1>2, <2>1
  <2>2. CASE \E x : TradeAfter(x) /\ trades' = Append(trades, x)
    <3> PICK x : TradeAfter(x) /\ trades' = Append(trades, x)
      BY <2>2
    <3>1. x \in Trade
      BY DEF TradeAfter
    <3> PICK m \in Nat : m = Len(trades)
      BY <1>2
    <3>2. /\ DOMAIN trades = 1 .. m /\ DOMAIN trades' = 1 .. m + 1
          /\ trades'[m + 1] = x
          /\ \A i \in 1 .. m : trades'[i] = trades[i]
          /\ trades' \in Seq(Trade)
      BY <1>2, <3>1
    <3>3. ASSUME NEW i \in DOMAIN trades'
          PROVE  \/ i \in DOMAIN trades /\ trades'[i] = trades[i]
                 \/ trades'[i] = x
      <4>1. i \in 1 .. m \/ i = m + 1
        BY <3>2
      <4> QED BY <3>2, <4>1
    <3> QED BY <3>2, <3>3
  <2> QED BY <2>1, <2>2
<1>5. AccountInv'
  <2>1. peak' \in Nat /\ peak' >= e
    BY <1>2 DEF Measure
  <2>2. drawdown' \in Fraction
    BY <1>2, <2>1 DEF Measure, Fraction
  <2> QED BY <1>0, <1>1, <1>2, <1>4, <2>1, <2>2 DEF ReportInv, AccountInv, TypeOK
<1>6. \A j \in 1 .. n : FirstOfDate(j)' <=> FirstOfDate(j)
  <2> SUFFICES ASSUME NEW j \in 1 .. n PROVE FirstOfDate(j)' <=> FirstOfDate(j)
    OBVIOUS
  <2>1. \A k \in 1 .. j - 1 : k \in 1 .. n
    OBVIOUS
  <2> QED BY <1>0, <2>1 DEF FirstOfDate
<1>7. /\ risk'.day = today /\ dates'[n + 1] = risk'.day
      /\ \A k \in 1 .. n + 1 : dates'[k] <= risk'.day
      /\ \A j \in 1 .. n + 1 :
            dates'[j] = risk'.day /\ FirstOfDate(j)' => curve'[j] = risk'.start
      /\ ~risk'.halted =>
            \A k \in 1 .. n + 1 : dates'[k] = risk'.day => ~Breaches(risk'.start, curve'[k])
  <2>1. risk'.day = today
    BY <1>2, CheckDrawdownDay
  <2>2. /\ risk'.start = IF risk.day = today THEN risk.start ELSE e
        /\ ~risk'.halted => ~Breaches(risk'.start, e) /\ (risk.day = today => ~risk.halted)
    BY <1>2, CheckDrawdownReads
  <2>3. /\ risk.day \in Nat /\ risk.day <= today
        /\ \A k \in 1 .. n : dates[k] <= risk.day
    BY <1>1, <1>2 DEF ReportInv, BreakerInv, RiskState
  <2>4. \A k \in 1 .. n + 1 : k \in 1 .. n \/ k = n + 1
    OBVIOUS
  <2>5. \A k \in 1 .. n + 1 : dates'[k] <= today
    BY <1>0, <1>2, <2>3, <2>4
  <2>6. CASE risk.day = today
    <3>1. n \in 1 .. n /\ dates[n] = today
      <4>1. n # 0
        BY <1>1, <1>2, <2>6 DEF ReportInv, BreakerInv, NewRisk
      <4> QED BY <1>1, <2>6, <4>1 DEF ReportInv, BreakerInv
    <3>2. ~FirstOfDate(n + 1)'
      BY <1>0, <3>1 DEF FirstOfDate
    <3>3. ASSUME NEW j \in 1 .. n + 1, dates'[j] = today, FirstOfDate(j)'
          PROVE  curve'[j] = risk'.start
      <4>1. j \in 1 .. n
        BY <2>4, <3>2, <3>3
      <4>2. dates[j] = risk.day /\ FirstOfDate(j)
        BY <1>0, <1>6, <2>6, <3>3, <4>1
      <4> QED BY <1>1, <2>2, <2>6, <4>1, <4>2 DEF ReportInv, BreakerInv
    <3>4. ASSUME ~risk'.halted, NEW k \in 1 .. n + 1, dates'[k] = today
          PROVE  ~Breaches(risk'.start, curve'[k])
      <4>1. CASE k = n + 1
        BY <1>1, <2>2, <3>4, <4>1
      <4>2. CASE k \in 1 .. n
        <5>1. dates[k] = risk.day /\ ~risk.halted /\ risk'.start = risk.start
          BY <1>0, <2>2, <2>6, <3>4, <4>2
        <5>2. ~Breaches(risk.start, curve[k])
          BY <1>1, <4>2, <5>1 DEF ReportInv, BreakerInv
        <5> QED BY <1>1, <4>2, <5>1, <5>2
      <4> QED BY <2>4, <4>1, <4>2
    <3> QED BY <1>0, <2>1, <2>5, <3>3, <3>4
  <2>7. CASE risk.day # today
    <3>1. \A k \in 1 .. n + 1 : dates'[k] = today => k = n + 1
      BY <1>0, <1>2, <2>3, <2>4, <2>7
    <3>2. risk'.start = e
      BY <2>2, <2>7
    <3> QED BY <1>0, <1>1, <2>1, <2>2, <2>5, <3>1, <3>2
  <2> QED BY <2>6, <2>7
<1>8. BreakerInv'
  <2>1. ASSUME NEW i \in DOMAIN trades' PROVE trades'[i].candle <= n + 1
    BY <1>4, <1>3 DEF TradeAfter
  <2>2. risk'.day <= today'
    BY <1>2, <1>7
  <2> QED BY <1>0, <1>1, <1>7, <2>1, <2>2 DEF BreakerInv
<1>9. NoTradeWhileHalted'
  <2> SUFFICES ASSUME NEW i \in DOMAIN trades',
                      NEW j \in 1 .. trades'[i].candle, NEW k \in 1 .. trades'[i].candle,
                      FirstOfDate(j)', j <= k,
                      dates'[j] = dates'[trades'[i].candle],
                      dates'[k] = dates'[trades'[i].candle]
               PROVE  ~Breaches(curve'[j], curve'[k])
    BY DEF NoTradeWhileHalted, Breaches
  <2>1. CASE \E x : TradeAfter(x) /\ trades'[i] = x
    <3>1. trades'[i].candle = n + 1 /\ ~risk'.halted
      BY <2>1 DEF TradeAfter
    <3>2. dates'[j] = risk'.day /\ dates'[k] = risk'.day
      BY <1>7, <3>1
    <3>3. curve'[j] = risk'.start
      BY <1>7, <3>1, <3>2
    <3> QED BY <1>7, <3>1, <3>2, <3>3
  <2>2. CASE i \in DOMAIN trades /\ trades'[i] = trades[i]
    <3> PICK c \in 1 .. n : c = trades[i].candle /\ j \in 1 .. c /\ k \in 1 .. c
      BY <1>3, <2>2
    <3>1. j \in 1 .. n /\ k \in 1 .. n
      OBVIOUS
    <3>2. FirstOfDate(j) /\ dates[j] = dates[c] /\ dates[k] = dates[c]
      BY <1>0, <1>6, <2>2, <3>1
    <3>3. ~Breaches(curve[j], curve[k])
      BY <2>2, <3>2 DEF ReportInv, NoTradeWhileHalted
    <3> QED BY <1>1, <3>1, <3>3
  <2> QED BY <1>4, <2>1, <2>2
<1>10. GridNeverSellsAtALoss'
  BY <1>4 DEF ReportInv, GridNeverSellsAtALoss, Sells, TradeAfter
<1> QED BY <1>5, <1>8, <1>9, <1>10 DEF ReportInv

\* Nothing but the date has changed, and that forward.
LEMMA ReportUnchanged ==
    ASSUME ReportInv, UNCHANGED vars \/ Midnight
    PROVE  ReportInv'
<1>1. /\ UNCHANGED <<strategy, cash, position, risk, peak, drawdown, curve, trades, closing, dates>>
      /\ today' \in Nat \ {0} /\ today' >= today /\ today \in Nat
  BY DEF vars, Midnight, ReportInv, AccountInv, TypeOK
<1>2. AccountInv'
  BY <1>1 DEF ReportInv, AccountInv, TypeOK
<1>3. BreakerInv'
  <2>1. risk.day \in Nat
    BY DEF ReportInv, AccountInv, TypeOK, RiskState
  <2>2. risk'.day <= today'
    BY <1>1, <2>1 DEF ReportInv, BreakerInv
  <2> QED BY <1>1, <2>2 DEF ReportInv, BreakerInv, FirstOfDate, Breaches
<1>4. NoTradeWhileHalted' /\ GridNeverSellsAtALoss'
  BY <1>1 DEF ReportInv, NoTradeWhileHalted, FirstOfDate, Breaches, GridNeverSellsAtALoss, Sells
<1> QED BY <1>2, <1>3, <1>4 DEF ReportInv

LEMMA ReportInit == Init => ReportInv
BY BacktestAssumption DEF Init, ReportInv, AccountInv, TypeOK, BreakerInv, NoTradeWhileHalted,
   GridNeverSellsAtALoss, Sells, NewRisk, RiskState, NoPosition, Position, Fraction

THEOREM ReportInvariance == Spec => []ReportInv
<1>1. ReportInv /\ [Next]_vars => ReportInv'
  BY ReportStep, ReportUnchanged DEF Next
<1> QED BY <1>1, ReportInit, PTL DEF Spec

----------------------------------------------------------------------------
\* The fraction that Measure keeps is the larger one, and bounds the fall
\* from the peak to e.
LEMMA KeptFraction ==
    ASSUME NEW p \in Nat, NEW e \in Nat, e <= p,
           NEW loss \in Nat, NEW of \in Nat, of > 0, loss <= of,
           NEW loss2 \in Nat, NEW of2 \in Nat,
           IF (p - e) * of > loss * p
           THEN loss2 = p - e /\ of2 = p
           ELSE loss2 = loss /\ of2 = of
    PROVE  /\ of2 > 0 /\ loss2 <= of2
           /\ loss * of2 <= loss2 * of
           /\ (p - e) * of2 <= loss2 * p
           /\ \/ loss2 = p - e /\ of2 = p /\ e < p
              \/ loss2 = loss /\ of2 = of
<1> PICK fall \in Nat : fall = p - e
  OBVIOUS
<1>1. loss * p \in Nat /\ fall <= p
  BY ProductNat
<1>2. CASE fall * of > loss * p
  <2>1. loss2 = fall /\ of2 = p /\ fall # 0
    BY <1>1, <1>2
  <2> QED BY <1>1, <1>2, <2>1
<1>3. CASE ~(fall * of > loss * p)
  <2>1. loss2 = loss /\ of2 = of /\ fall * of \in Nat
    BY <1>3, ProductNat
  <2> QED BY <1>1, <1>3, <2>1
<1> QED BY <1>2, <1>3

LEMMA WorstStep ==
    ASSUME DrawdownInv, NEW price \in Closes, Candle(price)
    PROVE  DrawdownInv'
<1>1. PICK e \in Nat : e = Equity(price) /\ curve' = Append(curve, e) /\ Measure(e)
  BY CandleStep DEF DrawdownInv
<1>2. PICK n \in Nat : n = Len(curve)
  BY DEF DrawdownInv, ReportInv, AccountInv, TypeOK
<1>3. /\ curve' # <<>> /\ DOMAIN curve = 1 .. n /\ DOMAIN curve' = 1 .. n + 1
      /\ \A k \in 1 .. n : curve'[k] = curve[k] /\ curve[k] \in Nat
      /\ curve'[n + 1] = e
      /\ curve = <<>> <=> n = 0
  BY <1>1, <1>2, SeqGrows DEF DrawdownInv, ReportInv, AccountInv, TypeOK
<1>4. ReportInv'
  BY ReportStep DEF DrawdownInv
<1>5. /\ peak \in Nat /\ peak' \in Nat
      /\ drawdown.of \in Nat /\ drawdown.loss \in Nat
      /\ drawdown'.of \in Nat /\ drawdown'.loss \in Nat
  BY <1>4 DEF DrawdownInv, ReportInv, AccountInv, TypeOK, Fraction
<1>6. e <= peak' /\ peak <= peak' /\ (peak' = e \/ peak' = peak)
  BY <1>1, <1>5 DEF Measure
<1>7. /\ drawdown'.of > 0 /\ drawdown'.loss <= drawdown'.of
      /\ drawdown.loss * drawdown'.of <= drawdown'.loss * drawdown.of
      /\ (peak' - e) * drawdown'.of <= drawdown'.loss * peak'
      /\ \/ drawdown'.loss = peak' - e /\ drawdown'.of = peak' /\ e < peak'
         \/ drawdown'.loss = drawdown.loss /\ drawdown'.of = drawdown.of
  <2>1. IF (peak' - e) * drawdown.of > drawdown.loss * peak'
        THEN drawdown'.loss = peak' - e /\ drawdown'.of = peak'
        ELSE drawdown'.loss = drawdown.loss /\ drawdown'.of = drawdown.of
    BY <1>1 DEF Measure
  <2>2. drawdown.of > 0 /\ drawdown.loss <= drawdown.of
    BY DEF DrawdownInv
  <2>3. PICK p \in Nat, l1 \in Nat, o1 \in Nat, l2 \in Nat, o2 \in Nat :
          /\ p = peak' /\ l1 = drawdown.loss /\ o1 = drawdown.of
          /\ l2 = drawdown'.loss /\ o2 = drawdown'.of
    BY <1>5
  <2>4. /\ e <= p /\ o1 > 0 /\ l1 <= o1
        /\ IF (p - e) * o1 > l1 * p THEN l2 = p - e /\ o2 = p ELSE l2 = l1 /\ o2 = o1
    BY <1>6, <2>1, <2>2, <2>3, Zenon
  <2>5. /\ o2 > 0 /\ l2 <= o2
        /\ l1 * o2 <= l2 * o1
        /\ (p - e) * o2 <= l2 * p
        /\ \/ l2 = p - e /\ o2 = p /\ e < p
           \/ l2 = l1 /\ o2 = o1
    BY <2>4, KeptFraction
  <2> QED BY <2>3, <2>5, Zenon
<1>8. \A k \in 1 .. n + 1 : k \in 1 .. n \/ k = n + 1
  OBVIOUS
<1>9. /\ \A k \in 1 .. n + 1 : curve'[k] \in Nat /\ curve'[k] <= peak'
      /\ \E j \in 1 .. n + 1 : curve'[j] = peak'
  <2>1. CASE n = 0
    <3>1. peak = e
      BY <1>1, <1>3, <2>1 DEF DrawdownInv, IsPeak, Equity
    <3>2. n + 1 \in 1 .. n + 1 /\ \A k \in 1 .. n + 1 : k = n + 1
      BY <2>1
    <3> QED BY <1>3, <1>5, <1>6, <3>1, <3>2
  <2>2. CASE n # 0
    <3>1. /\ \A k \in 1 .. n : curve[k] <= peak
          /\ \E j \in 1 .. n : curve[j] = peak
      BY <1>3, <2>2 DEF DrawdownInv, IsPeak
    <3>2. \A k \in 1 .. n : curve'[k] \in Nat /\ curve'[k] <= peak'
      BY <1>3, <1>5, <1>6, <3>1
    <3>3. \E j \in 1 .. n + 1 : curve'[j] = peak'
      BY <1>3, <1>6, <3>1
    <3> QED BY <1>3, <1>6, <1>8, <3>2, <3>3
  <2> QED BY <2>1, <2>2
<1>10. IsPeak'
  BY <1>3, <1>9 DEF IsPeak
<1>11. IsWorst'
  <2> SUFFICES ASSUME NEW j \in 1 .. n + 1, NEW k \in 1 .. n + 1, j <= k
               PROVE  (curve'[j] - curve'[k]) * drawdown'.of <= drawdown'.loss * curve'[j]
    BY <1>3 DEF IsWorst
  <2>1. curve'[j] \in Nat /\ curve'[k] \in Nat /\ curve'[j] <= peak'
    BY <1>9
  <2>2. CASE k = n + 1
    <3>1. curve'[k] = e
      BY <1>3, <2>2
    <3> QED BY <1>5, <1>7, <2>1, <3>1, LowerPeak
  <2>3. CASE k # n + 1
    <3>1. j \in 1 .. n /\ k \in 1 .. n
      BY <2>3
    <3>2. (curve'[j] - curve'[k]) * drawdown.of <= drawdown.loss * curve'[j]
      BY <1>3, <3>1 DEF DrawdownInv, IsWorst
    <3>3. curve'[j] - curve'[k] \in Int /\ drawdown.of > 0
      BY <2>1 DEF DrawdownInv
    <3> QED BY <1>5, <1>7, <2>1, <3>2, <3>3, LargerFraction
  <2> QED BY <2>2, <2>3
<1>12. IsReached'
  <2>1. CASE drawdown'.loss = peak' - e /\ drawdown'.of = peak' /\ e < peak'
    <3>1. PICK j \in 1 .. n + 1 : curve'[j] = peak'
      BY <1>9
    <3>2. Lost(j, n + 1)'
      BY <1>3, <2>1, <3>1 DEF Lost
    <3>3. n + 1 \in DOMAIN curve' /\ j \in DOMAIN curve'
      BY <1>3, <3>1
    <3> QED BY <1>3, <2>1, <3>1, <3>2, <3>3 DEF IsReached
  <2>2. CASE drawdown'.loss = drawdown.loss /\ drawdown'.of = drawdown.of
    <3>1. \A j, k \in DOMAIN curve :
              /\ j \in DOMAIN curve' /\ k \in DOMAIN curve'
              /\ curve'[j] = curve[j] /\ curve'[k] = curve[k]
      BY <1>3
    <3> QED BY <2>2, <3>1 DEF DrawdownInv, IsReached, Lost
  <2> QED BY <1>7, <2>1, <2>2
<1> QED BY <1>3, <1>4, <1>7, <1>10, <1>11, <1>12 DEF DrawdownInv

THEOREM DrawdownInvariance == Spec => []DrawdownInv
<1>1. Init => DrawdownInv
  <2> SUFFICES ASSUME Init PROVE DrawdownInv
    OBVIOUS
  <2>1. ReportInv
    BY ReportInit
  <2> QED BY <2>1 DEF Init, DrawdownInv, IsPeak, IsWorst, IsReached, NoPosition
<1>2. DrawdownInv /\ [Next]_vars => DrawdownInv'
  <2>1. ASSUME DrawdownInv, UNCHANGED vars \/ Midnight PROVE DrawdownInv'
    BY <2>1, ReportUnchanged DEF vars, Midnight, DrawdownInv, IsPeak, IsWorst, IsReached, Lost
  <2> QED BY <2>1, WorstStep DEF Next
<1> QED BY <1>1, <1>2, PTL DEF Spec

----------------------------------------------------------------------------
(***************************************************************************)
(* Type correctness.                                                       *)
(***************************************************************************)
THEOREM TypeCorrect == Spec => []TypeOK
<1>1. ReportInv => TypeOK
  BY DEF ReportInv, AccountInv
<1> QED BY <1>1, ReportInvariance, PTL

(***************************************************************************)
(* A backtest makes no trade on the rest of the date it is run on once its *)
(* equity was down by the daily limit since the first candle of that date, *)
(* wherever midnight falls among the candles (risk.py:34-53,               *)
(* backtest.py:52-65).                                                     *)
(***************************************************************************)
THEOREM NoTradesWhileHalted == Spec => []NoTradeWhileHalted
<1>1. ReportInv => NoTradeWhileHalted
  BY DEF ReportInv
<1> QED BY <1>1, ReportInvariance, PTL

(***************************************************************************)
(* A grid sells above its entry or not at all (grid_strategy.py:42-46).    *)
(***************************************************************************)
THEOREM GridsNeverSellAtALoss == Spec => []GridNeverSellsAtALoss
<1>1. ReportInv => GridNeverSellsAtALoss
  BY DEF ReportInv
<1> QED BY <1>1, ReportInvariance, PTL

(***************************************************************************)
(* The drawdown of the report, kept in one pass, is the worst there is     *)
(* between any two points of the curve (backtest.py:99-102).               *)
(***************************************************************************)
THEOREM DrawdownsAreWorst == Spec => []DrawdownIsWorst
<1>1. DrawdownInv => DrawdownIsWorst
  BY DEF DrawdownInv, IsWorst, IsReached, DrawdownIsWorst, Lost
<1> QED BY <1>1, DrawdownInvariance, PTL

----------------------------------------------------------------------------
(***************************************************************************)
(* The books: cash and what was paid for the open position are what the    *)
(* account began with and the pnl of its sells.                            *)
(***************************************************************************)
SellsOf(t) == {i \in DOMAIN t : t[i].side = "sell"}
PnlOf(t)   == SumFunction([i \in SellsOf(t) |-> t[i].pnl])

Books == cash + position.amount * position.entry

BooksInv ==
    /\ ReportInv
    /\ ~position.open => position.amount = 0
    /\ Books = StartingEquity + PnlOf(trades)

LEMMA PaidAndGained ==
    ASSUME NEW a \in Int, NEW b \in Int, NEW c \in Int
    PROVE  a * b \in Int /\ a * (c - b) \in Int /\ a * c = a * b + a * (c - b)
OBVIOUS

LEMMA PnlInt ==
    ASSUME NEW t \in Seq(Trade)
    PROVE  IsFiniteSet(SellsOf(t)) /\ PnlOf(t) \in Int
<1>1. IsFiniteSet(SellsOf(t))
  <2> PICK n \in Nat : n = Len(t)
    OBVIOUS
  <2>1. IsFiniteSet(1 .. n)
    BY FS_Interval
  <2>2. SellsOf(t) \subseteq 1 .. n
    BY DEF SellsOf
  <2> QED BY <2>1, <2>2, FS_Subset
<1>2. \A i \in SellsOf(t) : t[i].pnl \in Int
  <2>1. \A i \in DOMAIN t : t[i] \in Trade
    OBVIOUS
  <2> QED BY <2>1 DEF SellsOf, Trade
<1> DEFINE f == [i \in SellsOf(t) |-> t[i].pnl]
<1>3. \A i \in SellsOf(t) : f[i] \in Int
  BY <1>2
<1>4. DOMAIN f = SellsOf(t)
  OBVIOUS
<1> HIDE DEF f
<1>5. SumFunctionOnSet(f, SellsOf(t)) \in Int
  BY <1>1, <1>3, SumInt
<1>6. SumFunction(f) \in Int
  BY <1>4, <1>5 DEF SumFunction
<1> QED BY <1>1, <1>6 DEF PnlOf, f

\* One more trade adds its pnl, if it is a sell.
LEMMA PnlOfAppend ==
    ASSUME NEW t \in Seq(Trade), NEW x \in Trade
    PROVE  PnlOf(Append(t, x)) = PnlOf(t) + (IF x.side = "sell" THEN x.pnl ELSE 0)
<1> PICK n \in Nat : n = Len(t)
  OBVIOUS
<1> PICK u : u = Append(t, x)
  OBVIOUS
<1>0. u \in Seq(Trade)
  OBVIOUS
<1>1. /\ DOMAIN t = 1 .. n /\ DOMAIN u = 1 .. n + 1
      /\ u[n + 1] = x /\ \A i \in 1 .. n : u[i] = t[i]
  OBVIOUS
<1>2. /\ n + 1 \notin SellsOf(t)
      /\ SellsOf(u) = IF x.side = "sell" THEN SellsOf(t) \cup {n + 1} ELSE SellsOf(t)
      /\ \A i \in SellsOf(t) : u[i] = t[i]
  <2>1. n + 1 \notin SellsOf(t) /\ \A i \in SellsOf(t) : i \in 1 .. n /\ u[i] = t[i]
    BY <1>1 DEF SellsOf
  <2>2. \A i : i \in 1 .. n + 1 <=> i \in 1 .. n \/ i = n + 1
    OBVIOUS
  <2>3. \A i : i \in SellsOf(u) <=> i \in SellsOf(t) \/ (i = n + 1 /\ x.side = "sell")
    BY <1>1, <2>2 DEF SellsOf
  <2> QED BY <2>1, <2>3
<1> DEFINE f == [i \in SellsOf(t) |-> t[i].pnl]
           g == [i \in SellsOf(u) |-> u[i].pnl]
<1>3. IsFiniteSet(SellsOf(t)) /\ PnlOf(t) \in Int
  BY PnlInt
<1>4. \A i \in SellsOf(u) : g[i] \in Int
  <2>1. \A i \in DOMAIN u : u[i] \in Trade
    BY <1>0
  <2> QED BY <2>1 DEF SellsOf, Trade
<1>5. \A i \in SellsOf(t) : g[i] = f[i]
  BY <1>2
<1>6. DOMAIN f = SellsOf(t) /\ DOMAIN g = SellsOf(u) /\ (x.side = "sell" => g[n + 1] = x.pnl)
  BY <1>1, <1>2
<1> HIDE DEF f, g
<1>7. SumFunctionOnSet(g, SellsOf(t)) = SumFunctionOnSet(f, SellsOf(t))
  BY <1>3, <1>5, SumSame
<1>8. PnlOf(t) = SumFunctionOnSet(f, SellsOf(t)) /\ PnlOf(u) = SumFunctionOnSet(g, SellsOf(u))
  BY <1>6 DEF PnlOf, SumFunction, f, g
<1>9. CASE x.side = "sell"
  <2>1. SumFunctionOnSet(g, SellsOf(t) \cup {n + 1}) = SumFunctionOnSet(g, SellsOf(t)) + g[n + 1]
    BY <1>2, <1>3, <1>4, <1>9, SumWith
  <2> QED BY <1>2, <1>6, <1>7, <1>8, <1>9, <2>1
<1>10. CASE x.side # "sell"
  BY <1>2, <1>3, <1>7, <1>8, <1>10
<1> QED BY <1>9, <1>10

\* What an action on a verdict writes into the books.
LEMMA ActBooks ==
    ASSUME AccountInv, ~position.open => position.amount = 0,
           NEW price \in Closes, NEW signal \in Signals, NEW v \in Verdicts,
           Act(price, signal, v)
    PROVE  /\ ~position'.open => position'.amount = 0
           /\ \/ Books' = Books /\ trades' = trades
              \/ \E x \in Trade : /\ trades' = Append(trades, x)
                                  /\ Books' = Books + (IF x.side = "sell" THEN x.pnl ELSE 0)
<1>1. /\ cash \in Nat /\ price \in Nat /\ Len(curve) + 1 \in Nat /\ v.amount \in Nat
      /\ position.amount \in Nat /\ position.entry \in Nat
  BY EquityNat DEF AccountInv, TypeOK, Position, Verdicts
<1>2. CASE CanBuy(price, signal, v) /\ Buy(price, v.amount)
  <2>1. PICK cost \in Nat : cost = v.amount * price
    BY <1>1, ProductNat
  <2>2. PICK x : x = TradeOf("buy", 0)
    OBVIOUS
  <2>3. x \in Trade /\ x.side = "buy"
    BY <1>1, <2>2 DEF TradeOf, Trade
  <2>4. /\ cash' = cash - cost /\ trades' = Append(trades, x) /\ position.amount = 0
        /\ position' = [open |-> TRUE, amount |-> v.amount, entry |-> price]
    BY <1>2, <2>1, <2>2 DEF Buy, CanBuy
  <2>5. position'.amount * position'.entry = cost /\ position.amount * position.entry = 0
    <3>1. position'.amount = v.amount /\ position'.entry = price
      BY <2>4
    <3>2. \A b \in Nat : 0 * b = 0
      OBVIOUS
    <3> QED BY <1>1, <2>1, <2>4, <3>1, <3>2
  <2>6. Books' = cash /\ Books = cash
    <3>1. Books' = cash' + cost /\ Books = cash + 0
      BY <2>5 DEF Books
    <3> QED BY <1>1, <2>1, <2>4, <3>1
  <2> QED BY <1>1, <2>3, <2>4, <2>6
<1>3. CASE CanSell(signal, v) /\ Sell(price)
  <2>1. PICK paid \in Int, pnl \in Int :
          /\ paid = position.amount * position.entry
          /\ pnl = position.amount * (price - position.entry)
          /\ position.amount * price = paid + pnl
    <3>1. position.amount \in Int /\ position.entry \in Int /\ price \in Int
      BY <1>1
    <3>2. /\ position.amount * position.entry \in Int
          /\ position.amount * (price - position.entry) \in Int
          /\ position.amount * price
               = position.amount * position.entry + position.amount * (price - position.entry)
      BY <3>1, PaidAndGained, Zenon
    <3> QED BY <3>2
  <2>2. PICK x : x = TradeOf("sell", pnl)
    OBVIOUS
  <2>3. x \in Trade /\ x.side = "sell" /\ x.pnl = pnl
    BY <1>1, <2>1, <2>2 DEF TradeOf, Trade
  <2>4. cash' = cash + (paid + pnl) /\ trades' = Append(trades, x) /\ position' = NoPosition
    BY <1>3, <2>1, <2>2 DEF Sell
  <2>5. Books' = cash + (paid + pnl) /\ Books = cash + paid
    BY <1>1, <2>1, <2>4 DEF Books, NoPosition
  <2>6. ~position'.open => position'.amount = 0
    BY <2>4 DEF NoPosition
  <2>7. Books' = Books + x.pnl
    BY <1>1, <2>1, <2>3, <2>5
  <2> QED BY <2>3, <2>4, <2>6, <2>7
<1>4. CASE UNCHANGED <<cash, position, trades>>
  BY <1>4 DEF Books
<1> QED BY <1>2, <1>3, <1>4 DEF Act

LEMMA BooksStep == BooksInv /\ [Next]_vars => BooksInv'
<1> SUFFICES ASSUME BooksInv, [Next]_vars PROVE BooksInv'
  OBVIOUS
<1>0. ReportInv /\ AccountInv /\ trades \in Seq(Trade) /\ StartingEquity \in Int
  BY BacktestAssumption DEF BooksInv, ReportInv, AccountInv, TypeOK
<1>1. ASSUME NEW price \in Closes, Candle(price) PROVE BooksInv'
  <2>1. ReportInv' /\ risk' \in RiskState
    BY <1>0, <1>1, ReportStep DEF ReportInv, AccountInv, TypeOK
  <2>2. PICK signal \in Decisions(price) :
          \E v \in Evaluate(risk', signal, Equity(price), price, position.entry) :
              Act(price, signal, v)
    BY <1>1 DEF Candle
  <2>3. signal \in Signals
    BY <2>2 DEF Decisions, GridDecide, Signals
  <2>4. Equity(price) \in Nat /\ price \in Nat /\ position.entry \in Nat
    BY <1>0, <1>1, EquityNat DEF AccountInv, TypeOK, Position
  <2>5. PICK v \in Verdicts : Act(price, signal, v)
    BY <2>1, <2>2, <2>3, <2>4, EvaluateVerdicts
  <2>6. /\ ~position'.open => position'.amount = 0
        /\ \/ Books' = Books /\ trades' = trades
           \/ \E x \in Trade : /\ trades' = Append(trades, x)
                               /\ Books' = Books + (IF x.side = "sell" THEN x.pnl ELSE 0)
    BY <1>0, <1>1, <2>3, <2>5, ActBooks DEF BooksInv
  <2>7. CASE Books' = Books /\ trades' = trades
    BY <2>1, <2>6, <2>7 DEF BooksInv
  <2>8. CASE \E x \in Trade : /\ trades' = Append(trades, x)
                              /\ Books' = Books + (IF x.side = "sell" THEN x.pnl ELSE 0)
    <3>1. PICK x \in Trade : /\ trades' = Append(trades, x)
                             /\ Books' = Books + (IF x.side = "sell" THEN x.pnl ELSE 0)
      BY <2>8
    <3>2. PICK gain \in Int : gain = IF x.side = "sell" THEN x.pnl ELSE 0
      BY <3>1 DEF Trade
    <3>3. PnlOf(trades') = PnlOf(trades) + gain
      BY <1>0, <3>1, <3>2, PnlOfAppend
    <3>4. PnlOf(trades) \in Int
      BY <1>0, PnlInt
    <3>5. Books' = StartingEquity + PnlOf(trades')
      BY <1>0, <3>1, <3>2, <3>3, <3>4 DEF BooksInv
    <3> QED BY <2>1, <2>6, <3>5 DEF BooksInv
  <2> QED BY <2>6, <2>7, <2>8
<1>2. CASE UNCHANGED vars \/ Midnight
  <2>1. ReportInv'
    BY <1>0, <1>2, ReportUnchanged
  <2> QED BY <1>2, <2>1 DEF vars, Midnight, BooksInv, Books
<1> QED BY <1>1, <1>2 DEF Next

LEMMA BooksInitial == Init => BooksInv
<1> SUFFICES ASSUME Init PROVE BooksInv
  OBVIOUS
<1>1. ReportInv
  BY ReportInit
<1>2. cash = StartingEquity /\ position = NoPosition /\ trades = <<>>
  BY DEF Init
<1>3. PnlOf(<<>>) = 0
  <2> DEFINE f == [i \in SellsOf(<<>>) |-> <<>>[i].pnl]
  <2>1. SellsOf(<<>>) = {} /\ DOMAIN f = {}
    BY DEF SellsOf
  <2>2. SumFunctionOnSet(f, {}) = 0
    <3> HIDE DEF f
    <3> QED BY SumZero, FS_EmptySet
  <2> HIDE DEF f
  <2>3. SumFunction(f) = 0
    BY <2>1, <2>2 DEF SumFunction
  <2> QED BY <2>3 DEF PnlOf, f
<1>4. Books = StartingEquity
  BY <1>2, BacktestAssumption DEF Books, NoPosition
<1> QED BY <1>1, <1>2, <1>3, <1>4, BacktestAssumption DEF BooksInv, NoPosition

LEMMA BooksInvariance == Spec => []BooksInv
  BY BooksInitial, BooksStep, PTL DEF Spec

(***************************************************************************)
(* The report's figures agree after every candle, because the books do.    *)
(***************************************************************************)
THEOREM ReportsBalance == Spec => []ReportBalances
<1>1. BooksInv => ReportBalances
  <2> SUFFICES ASSUME BooksInv PROVE ReportBalances
    OBVIOUS
  <2>1. /\ trades \in Seq(Trade) /\ cash \in Nat /\ closing \in Nat
        /\ position.amount \in Nat /\ position.entry \in Nat
        /\ ~position.open => position.amount = 0
    BY DEF BooksInv, ReportInv, AccountInv, TypeOK, Position
  <2>2. PICK pnl \in Int : pnl = PnlOf(trades)
    BY <2>1, PnlInt
  <2>3. PICK paid \in Int, gain \in Int :
          /\ paid = position.amount * position.entry
          /\ gain = position.amount * (closing - position.entry)
          /\ position.amount * closing = paid + gain
    <3>1. PICK a \in Int, b \in Int, c \in Int :
            a = position.amount /\ b = position.entry /\ c = closing
      BY <2>1
    <3>2. a * b \in Int /\ a * (c - b) \in Int /\ a * c = a * b + a * (c - b)
      BY <3>1, PaidAndGained
    <3> QED BY <3>1, <3>2
  <2>4. cash + paid = StartingEquity + pnl
    BY <2>2, <2>3 DEF BooksInv, Books
  <2>5. Equity(closing) = cash + (paid + gain)
    <3>1. CASE position.open
      BY <2>3, <3>1 DEF Equity
    <3>2. CASE ~position.open
      <4>1. paid + gain = 0
        BY <2>1, <2>3, <3>2
      <4> QED BY <2>1, <3>2, <4>1 DEF Equity
    <3> QED BY <3>1, <3>2
  <2>6. Equity(closing) = StartingEquity + pnl + gain
    BY <2>1, <2>2, <2>3, <2>4, <2>5, BacktestAssumption
  <2> QED BY <2>1, <2>2, <2>3, <2>6 DEF ReportBalances, PnlOf, SellsOf, Sells
<1> QED BY <1>1, BooksInvariance, PTL
=============================================================================
