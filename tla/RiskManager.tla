---------------------------- MODULE RiskManager ----------------------------
(***************************************************************************)
(* One RiskManager object (backend/app/services/risk.py) under every       *)
(* sequence of calls: check_drawdown with an equity reading, evaluate with *)
(* a strategy's decision, and the wall clock moving to the next day        *)
(* between calls.                                                          *)
(***************************************************************************)
EXTENDS RiskRules, Sequences, FiniteSets

CONSTANTS
    Equities,   \* portfolio values a check may be given
    Prices,     \* close prices a decision may be evaluated at
    MaxDay,     \* bound: days the clock runs through
    MaxChecks   \* bound: checks per day

ASSUME ManagerAssumption ==
    /\ Equities \subseteq Nat
    /\ Prices \subseteq Nat \ {0}
    /\ MaxDay \in Nat \ {0}
    /\ MaxChecks \in Nat

VARIABLES
    today,     \* date.today()
    risk,      \* the manager's mutable fields
    asked,     \* the arguments of the latest evaluate since the latest check
    verdict,   \* its result
    readings   \* history: every equity reading with the day it was taken on

vars == <<today, risk, asked, verdict, readings>>

NotAsked == [signal |-> "hold", equity |-> 0, price |-> 0, entry |-> 0]
Unasked  == Veto("hold")

Reading  == [day : Nat, equity : Nat]
Question == [signal : Signals, equity : Nat, price : Nat, entry : Nat]

TypeOK ==
    /\ today \in Nat \ {0}
    /\ risk \in RiskState
    /\ asked \in Question
    /\ verdict \in Verdicts
    /\ readings \in Seq(Reading)

Init ==
    /\ today = 1
    /\ risk = NewRisk
    /\ asked = NotAsked
    /\ verdict = Unasked
    /\ readings = <<>>

ChecksToday == {i \in DOMAIN readings : readings[i].day = today}

Last(s) == s[Len(s)]

\* check_drawdown(current_equity), once per tick.
Check(equity) ==
    /\ Cardinality(ChecksToday) < MaxChecks
    /\ risk' = CheckDrawdown(risk, today, equity)
    /\ readings' = Append(readings, [day |-> today, equity |-> equity])
    /\ asked' = NotAsked
    /\ verdict' = Unasked
    /\ UNCHANGED today

\* evaluate(decision, portfolio_value, current_price, position_entry_price):
\* both callers pass the equity they have just checked (strategy_runner.py:86-102,
\* backtest.py:57-62), once after that check.
Ask(signal, price, entry) ==
    LET equity == Last(readings).equity IN
    /\ readings # <<>> /\ asked = NotAsked
    /\ asked' = [signal |-> signal, equity |-> equity, price |-> price, entry |-> entry]
    /\ verdict' \in Evaluate(risk, signal, equity, price, entry)
    /\ UNCHANGED <<today, risk, readings>>

\* Midnight passes between two calls.
NextDay ==
    /\ today < MaxDay
    /\ today' = today + 1
    /\ UNCHANGED <<risk, asked, verdict, readings>>

CheckSome == \E equity \in Equities : Check(equity)

AskSome ==
    \E signal \in Signals, price \in Prices, entry \in Prices \cup {0} :
        Ask(signal, price, entry)

Next == CheckSome \/ AskSome \/ NextDay

Spec == Init /\ [][Next]_vars

(***************************************************************************)
(* The clock advances and the scheduler keeps ticking, whatever the bot    *)
(* decides.                                                                *)
(***************************************************************************)
FairSpec == Spec /\ WF_vars(NextDay) /\ WF_vars(CheckSome)

----------------------------------------------------------------------------
\* The first reading of the manager's current day.
IsFirstOfDay(i) ==
    /\ readings[i].day = risk.day
    /\ \A k \in 1 .. i - 1 : readings[k].day # risk.day

\* From the baseline start, a reading of equity loses the daily limit.
LosesTheLimit(start, equity) ==
    start > 0 /\ 100 * (start - equity) >= MaxDailyDrawdownPct * start

\* Some reading of the manager's current day lost the daily limit against
\* the first reading of that day.
LostTheLimit ==
    \E i, j \in DOMAIN readings :
        /\ i <= j
        /\ IsFirstOfDay(i)
        /\ readings[j].day = risk.day
        /\ LosesTheLimit(readings[i].equity, readings[j].equity)

(***************************************************************************)
(* The breaker is exactly as tripped as the day's readings say: it is      *)
(* halted if and only if some reading of the day breached the limit        *)
(* relative to the day's first reading -- a later recovery does not lift   *)
(* it, and no reading of another day trips it (risk.py:34-53).             *)
(***************************************************************************)
HaltExactly == risk.halted <=> LostTheLimit

(***************************************************************************)
(* No decision is approved while the day's readings have lost the limit,   *)
(* and an approved BUY never exceeds the position limit (risk.py:70-90).   *)
(***************************************************************************)
ApprovedWithinLimits ==
    verdict.approved =>
        /\ ~LostTheLimit
        /\ asked.signal = "buy" =>
              /\ verdict.amount > 0
              /\ verdict.amount * asked.price * 100 <= asked.equity * MaxPositionPct

(***************************************************************************)
(* "Trading halted until tomorrow" (risk.py:52): a tripped breaker is      *)
(* lifted once the clock has another day to offer.                         *)
(***************************************************************************)
HaltLifts == (risk.halted /\ today < MaxDay) ~> ~risk.halted

(***************************************************************************)
(* Stop-loss as a rule of the RiskManager rather than of the strategy:     *)
(* with the breaker closed, a position at or below the stop-loss threshold *)
(* is approved for selling whatever the strategy asks for.  README.md:13   *)
(* lists stop-loss/take-profit among the rules that work "independently    *)
(* of any strategy's own logic".                                           *)
(***************************************************************************)
StopLossIndependent ==
    (asked.entry > 0 /\ SellReason(asked.price, asked.entry) = "stop_loss")
        => verdict.reason \in {"stop_loss", "halted"}
============================================================================
