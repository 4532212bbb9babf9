----------------------------- MODULE RiskRules -----------------------------
(***************************************************************************)
(* The decision rules of RiskManager (backend/app/services/risk.py) as     *)
(* operators on a risk record, shared by every module that drives a        *)
(* RiskManager: the manager on its own, the strategy runner, the backtest. *)
(*                                                                         *)
(* Money, prices and amounts are natural numbers and percentages are       *)
(* compared by cross-multiplication, so no rounding is introduced.         *)
(***************************************************************************)
EXTENDS Integers

CONSTANTS
    MaxPositionPct,       \* MAX_POSITION_SIZE_PCT, in percent
    MaxDailyDrawdownPct,  \* MAX_DAILY_DRAWDOWN_PCT, in percent
    StopLossPct,          \* DEFAULT_STOP_LOSS_PCT, in percent
    TakeProfitPct,        \* DEFAULT_TAKE_PROFIT_PCT, in percent
    MaxAmount             \* bound on the amounts an order may have

ASSUME RiskAssumption ==
    /\ MaxPositionPct \in Nat
    /\ MaxDailyDrawdownPct \in Nat
    /\ StopLossPct \in Nat
    /\ TakeProfitPct \in Nat
    /\ MaxAmount \in Nat

Signals == {"buy", "sell", "hold"}

(***************************************************************************)
(* The mutable part of a RiskManager.  Days are numbered from 1; day 0 is  *)
(* the None of a fresh manager, and start = 0 stands for both the None and *)
(* the zero equity that check_drawdown treats alike (risk.py:45).          *)
(***************************************************************************)
RiskState == [day : Nat, start : Nat, halted : BOOLEAN]

NewRisk == [day |-> 0, start |-> 0, halted |-> FALSE]

\* Wrong: a new day takes a new baseline and keeps the halt.
RollDayKeepsHalt(r, today, equity) ==
    IF r.day # today THEN [r EXCEPT !.day = today, !.start = equity] ELSE r

\* _roll_day_if_needed: the first check of a day takes its equity as the
\* day's baseline and lifts yesterday's halt.
RollDay(r, today, equity) ==
    IF r.day # today
    THEN [day |-> today, start |-> equity, halted |-> FALSE]
    ELSE r

\* Wrong: a loss of exactly the limit is let pass.
BreachesBeyond(start, equity) ==
    /\ start # 0
    /\ (start - equity) * 100 > MaxDailyDrawdownPct * start

\* drawdown >= max_daily_drawdown_pct, with the zero baseline excluded.
Breaches(start, equity) ==
    /\ start # 0
    /\ (start - equity) * 100 >= MaxDailyDrawdownPct * start

\* Wrong: the halt lasts only as long as the drawdown.
CheckDrawdownForgets(r, today, equity) ==
    LET rolled == RollDay(r, today, equity)
    IN  [rolled EXCEPT !.halted = Breaches(rolled.start, equity)]

\* check_drawdown: roll the day, then trip the breaker on a breach.
CheckDrawdown(r, today, equity) ==
    LET rolled == RollDay(r, today, equity)
    IN  IF Breaches(rolled.start, equity)
        THEN [rolled EXCEPT !.halted = TRUE]
        ELSE rolled

(***************************************************************************)
(* evaluate.  A decision's confidence lies in (0, 1], so a BUY may be      *)
(* sized at any amount whose notional is within the position limit; when   *)
(* no amount is, the code's "Sized amount is zero" veto applies.  Amounts  *)
(* are whole units of the smallest lot.                                    *)
(***************************************************************************)
Verdicts ==
    [approved : BOOLEAN,
     amount   : Nat,
     reason   : {"halted", "hold", "zero", "stop_loss", "take_profit", "strategy"}]

\* Wrong: an approved amount is a lot short.
ApproveShort(why, amt) == [approved |-> TRUE, amount |-> amt - 1, reason |-> why]

Veto(why)         == [approved |-> FALSE, amount |-> 0, reason |-> why]
Approve(why, amt) == [approved |-> TRUE, amount |-> amt, reason |-> why]

\* Wrong: the size is rounded up to the next lot.
SizedAmountsRoundedUp(equity, price) ==
    IF price > 0
    THEN {a \in 1 .. MaxAmount : (a - 1) * price * 100 < equity * MaxPositionPct}
    ELSE {}

SizedAmounts(equity, price) ==
    IF price > 0
    THEN {a \in 1 .. MaxAmount : a * price * 100 <= equity * MaxPositionPct}
    ELSE {}

\* The label of an approved SELL, from the price change since entry.
SellReason(price, entry) ==
    IF (price - entry) * 100 <= -(StopLossPct * entry) THEN "stop_loss"
    ELSE IF (price - entry) * 100 >= TakeProfitPct * entry THEN "take_profit"
    ELSE "strategy"

\* evaluate divides by the entry price: it raises for a position recorded
\* at price 0 (a live fill whose price the exchange did not report).
EvaluateRaises(r, signal, holds, entry) ==
    ~r.halted /\ signal = "sell" /\ holds /\ entry = 0

\* Wrong: the halt is not looked at.
EvaluateWhileHalted(r, signal, equity, price, entry) ==
    IF signal = "buy" THEN {Approve("strategy", a) : a \in SizedAmounts(equity, price)}
    ELSE {Veto("hold")}

\* The verdicts evaluate may return, in the order of its early returns;
\* entry = 0 stands for no open position.
Evaluate(r, signal, equity, price, entry) ==
    IF r.halted THEN {Veto("halted")}
    ELSE IF signal = "hold" THEN {Veto("hold")}
    ELSE IF signal = "sell"
    THEN {Approve(IF entry = 0 THEN "strategy" ELSE SellReason(price, entry), 0)}
    ELSE IF SizedAmounts(equity, price) = {} THEN {Veto("zero")}
    ELSE {Approve("strategy", a) : a \in SizedAmounts(equity, price)}
============================================================================
