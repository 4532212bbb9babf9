--------------------------- MODULE StrategyRunner ---------------------------
(***************************************************************************)
(* run_bot_tick (backend/app/workers/strategy_runner.py) for several bots  *)
(* in one worker process, with the trade ledger in Postgres and the        *)
(* exchange account the orders go to.                                      *)
(*                                                                         *)
(* A tick is split where run_bot_tick awaits: it reads the open position   *)
(* from the ledger, fetches candles and the portfolio value, decides, and  *)
(* places, acknowledges and records an order.  What lies between two       *)
(* awaits is one action.  Ticks of different bots interleave; APScheduler  *)
(* runs at most one tick of a bot at a time (max_instances = 1, keyed by   *)
(* the job id, which is the bot id).                                       *)
(*                                                                         *)
(* Strategies are pluggable, so any signal may be asked for at any time.   *)
(* The portfolio value is any member of Equities here; PaperExchange       *)
(* models how it is computed.                                              *)
(***************************************************************************)
EXTENDS RiskRules, Sequences, FiniteSets, Functions

CONSTANTS
    Bots,        \* bot ids
    Ticks,       \* executions of run_bot_tick that may be in flight
    SymbolOf,    \* the symbol each bot trades
    Mode,        \* settings.TRADING_MODE
    BotMode,     \* the mode column of each bot
    Equities,    \* portfolio values a tick may read
    Prices,      \* prices of candles and fills
    Faults,      \* the faults that may happen, see below
    MaxDay,      \* bound: days the clock runs through
    MaxTrades,   \* bound: ledger rows per bot
    MaxCoins,    \* bound: no tick starts with more coins in the account
    MaxCrashes   \* bound: restarts of the worker

(***************************************************************************)
(* crash     the worker process dies and is started again                  *)
(* db        a commit of the ledger row fails                              *)
(* delete    a bot without trades is deleted through the API               *)
(* partial   the live exchange fills less than was ordered                 *)
(* noprice   the live exchange does not report the fill price              *)
(* timeout   the answer to a filled live order is lost                     *)
(***************************************************************************)
AllFaults == {"crash", "db", "delete", "partial", "noprice", "timeout"}

ASSUME RunnerAssumption ==
    /\ Bots # {} /\ IsFiniteSet(Bots)
    /\ SymbolOf \in [Bots -> STRING]
    /\ Mode \in {"paper", "live"}
    /\ BotMode \in [Bots -> {"paper", "live"}]
    /\ Equities \subseteq Nat
    /\ Prices \subseteq Nat \ {0}
    /\ Faults \subseteq AllFaults
    /\ MaxDay \in Nat \ {0}
    /\ MaxTrades \in Nat
    /\ MaxCoins \in Nat
    /\ MaxCrashes \in Nat

VARIABLES
    today,    \* date.today()
    row,      \* is the bot's row in the bots table?
    trades,   \* per bot, its rows of the trades table by executed_at
    coins,    \* per symbol, the base-asset balance of the exchange account
    risk,     \* _risk_managers: per bot, its RiskManager
    tick,     \* the executions of run_bot_tick
    tripped,  \* history: per bot, the last day its breaker tripped on
    crashes,  \* restarts so far
    lost      \* history: has a fill been lost to the ledger?

vars == <<today, row, trades, coins, risk, tick, tripped, crashes, lost>>

Symbols == Range(SymbolOf)

TradeRow == [side : {"buy", "sell"}, amount : Nat, price : Nat]
Position == [open : BOOLEAN, amount : Nat, entry : Nat]
Tick     == [pc : {"idle", "value", "order", "ack", "record"},
             bot : Bots, position : Position,
             side : {"buy", "sell"}, amount : Nat, price : Nat]

NoPosition == [open |-> FALSE, amount |-> 0, entry |-> 0]

TypeOK ==
    /\ today \in Nat \ {0}
    /\ row \in [Bots -> BOOLEAN]
    /\ trades \in [Bots -> Seq(TradeRow)]
    /\ coins \in [Symbols -> Nat]
    /\ risk \in [Bots -> RiskState]
    /\ tick \in [Ticks -> Tick]
    /\ tripped \in [Bots -> Nat]
    /\ crashes \in Nat
    /\ lost \in BOOLEAN

IdleTick(b) ==
    [pc |-> "idle", bot |-> b, position |-> NoPosition,
     side |-> "buy", amount |-> 0, price |-> 0]

\* The record an execution leaves when it returns or raises.
Idle == IdleTick(CHOOSE b \in Bots : TRUE)

Init ==
    /\ today = 1
    /\ row = [b \in Bots |-> TRUE]
    /\ trades = [b \in Bots |-> <<>>]
    /\ coins = [s \in Symbols |-> 0]
    /\ risk = [b \in Bots |-> NewRisk]
    /\ tick = [t \in Ticks |-> Idle]
    /\ tripped = [b \in Bots |-> 0]
    /\ crashes = 0
    /\ lost = FALSE

----------------------------------------------------------------------------
Busy(t) == tick[t].pc # "idle"

\* An order of the tick has been filled and is not in the ledger yet.
Filled(t) == tick[t].pc \in {"ack", "record"}

\* Wrong: looks at the oldest trade.
OpenPositionOfFirst(b) ==
    IF trades[b] = <<>> \/ trades[b][1].side # "buy" THEN NoPosition
    ELSE [open |-> TRUE, amount |-> trades[b][1].amount, entry |-> trades[b][1].price]

\* _get_open_position: open if the bot's most recent trade was a BUY.
OpenPosition(b) ==
    IF trades[b] = <<>> THEN NoPosition
    ELSE LET last == trades[b][Len(trades[b])]
         IN  IF last.side = "buy"
             THEN [open |-> TRUE, amount |-> last.amount, entry |-> last.price]
             ELSE NoPosition

\* Wrong: executions of a bot's job overlap (max_instances > 1).
StartTickOverlapping(t, b) ==
    /\ ~Busy(t)
    /\ tick' = [tick EXCEPT ![t] =
                  [IdleTick(b) EXCEPT !.pc = "value", !.position = OpenPosition(b)]]
    /\ UNCHANGED <<today, row, trades, coins, risk, tripped, crashes, lost>>

\* APScheduler starts the bot's job unless an execution of it is running;
\* the tick reads the open position.
StartTick(t, b) ==
    /\ ~Busy(t)
    /\ \A u \in Ticks : Busy(u) => tick[u].bot # b
    /\ tick' = [tick EXCEPT ![t] =
                  [IdleTick(b) EXCEPT !.pc = "value", !.position = OpenPosition(b)]]
    /\ UNCHANGED <<today, row, trades, coins, risk, tripped, crashes, lost>>

\* The tick returns or raises: no candles, an exchange call that fails, or
\* (live) an order the exchange refuses.
GiveUp(t) ==
    /\ tick[t].pc \in {"value", "order"}
    /\ tick' = [tick EXCEPT ![t] = Idle]
    /\ UNCHANGED <<today, row, trades, coins, risk, tripped, crashes, lost>>

\* Wrong: buys although a position is open.
OrdersWithoutPositionCheck(r, signal, equity, price, position) ==
    {[side |-> signal,
      amount |-> IF signal = "buy" THEN v.amount ELSE position.amount] :
        v \in {v \in Evaluate(r, signal, equity, price, position.entry) :
                 v.approved /\ (signal = "sell" => position.open /\ position.entry # 0)}}

\* The tick's order, when the risk manager approves the strategy's signal
\* and it fits the position; {} when the tick only publishes or raises.
Orders(r, signal, equity, price, position) ==
    {[side |-> signal,
      amount |-> IF signal = "buy" THEN v.amount ELSE position.amount] :
        v \in {v \in Evaluate(r, signal, equity, price, position.entry) :
                 /\ ~EvaluateRaises(r, signal, position.open, position.entry)
                 /\ v.approved
                 /\ signal = (IF position.open THEN "sell" ELSE "buy")}}

(***************************************************************************)
(* get_portfolio_value returns; drawdown check, halt, decision and risk    *)
(* evaluation run without an await, up to the order.                       *)
(***************************************************************************)
Decide(t, equity, price, signal) ==
    LET b  == tick[t].bot
        r  == CheckDrawdown(risk[b], today, equity)
        os == Orders(r, signal, equity, price, tick[t].position)
    IN
    /\ tick[t].pc = "value"
    /\ risk' = [risk EXCEPT ![b] = r]
    /\ tripped' = [tripped EXCEPT ![b] = IF r.halted THEN today ELSE @]
    /\ \/ /\ os = {}
          /\ tick' = [tick EXCEPT ![t] = Idle]
       \/ \E o \in os :
             tick' = [tick EXCEPT ![t].pc = "order",
                                  ![t].side = o.side, ![t].amount = o.amount]
    /\ UNCHANGED <<today, row, trades, coins, crashes, lost>>

\* Wrong: the sides are swapped.
FillSwapped(t, filled) ==
    coins' = [coins EXCEPT ![SymbolOf[tick[t].bot]] =
                IF tick[t].side = "buy" THEN @ - filled ELSE @ + filled]

\* The balance an order of this size and side leaves behind.
Covered(t, filled) == tick[t].side = "sell" => coins[SymbolOf[tick[t].bot]] >= filled

Fill(t, filled) ==
    coins' = [coins EXCEPT ![SymbolOf[tick[t].bot]] =
                IF tick[t].side = "buy" THEN @ + filled ELSE @ - filled]

(***************************************************************************)
(* PaperExchange.place_market_order, after its price lookup: it fills the  *)
(* whole order at once, and rejects a SELL the account does not cover.  (A *)
(* BUY beyond the USDT balance is rejected too; that is a GiveUp here.)    *)
(***************************************************************************)
PaperOrder(t, price) ==
    /\ Mode = "paper"
    /\ tick[t].pc = "order"
    /\ Covered(t, tick[t].amount)
    /\ Fill(t, tick[t].amount)
    /\ tick' = [tick EXCEPT ![t].pc = "record", ![t].price = price]
    /\ UNCHANGED <<today, row, trades, risk, tripped, crashes, lost>>

\* The live exchange executes the order; the answer is still under way.  It
\* refuses an order for nothing.
LiveOrder(t, filled) ==
    /\ Mode = "live"
    /\ tick[t].pc = "order"
    /\ tick[t].amount > 0
    /\ filled <= tick[t].amount
    /\ filled = tick[t].amount \/ "partial" \in Faults
    /\ Covered(t, filled)
    /\ Fill(t, filled)
    /\ tick' = [tick EXCEPT ![t].pc = "ack", ![t].amount = filled]
    /\ lost' = (lost \/ (tick[t].side = "sell" /\ filled < tick[t].amount))
    /\ UNCHANGED <<today, row, trades, risk, tripped, crashes>>

\* LiveExchange.place_market_order returns the fill; a price the exchange
\* does not report becomes 0.0.
LiveAck(t, price) ==
    /\ tick[t].pc = "ack"
    /\ price > 0 \/ "noprice" \in Faults
    /\ tick' = [tick EXCEPT ![t].pc = "record", ![t].price = price]
    /\ UNCHANGED <<today, row, trades, coins, risk, tripped, crashes, lost>>

\* create_order raises although the order was executed: it is reported as
\* REJECTED and the tick records nothing.
LiveAckLost(t) ==
    /\ tick[t].pc = "ack"
    /\ "timeout" \in Faults
    /\ tick' = [tick EXCEPT ![t] = Idle]
    /\ lost' = TRUE
    /\ UNCHANGED <<today, row, trades, coins, risk, tripped, crashes>>

\* _record_trade commits; notification and publication end the tick.
Record(t) ==
    LET b == tick[t].bot IN
    /\ tick[t].pc = "record"
    /\ row[b]
    /\ trades' = [trades EXCEPT ![b] =
                    Append(@, [side |-> tick[t].side, amount |-> tick[t].amount,
                               price |-> tick[t].price])]
    /\ tick' = [tick EXCEPT ![t] = Idle]
    /\ UNCHANGED <<today, row, coins, risk, tripped, crashes, lost>>

\* The commit raises: the bot's row is gone (foreign key) or the database is.
RecordFails(t) ==
    /\ tick[t].pc = "record"
    /\ ~row[tick[t].bot] \/ "db" \in Faults
    /\ tick' = [tick EXCEPT ![t] = Idle]
    /\ lost' = TRUE
    /\ UNCHANGED <<today, row, trades, coins, risk, tripped, crashes>>

----------------------------------------------------------------------------
\* DELETE /bots/{id}: the foreign key of trades keeps a bot that has traded.
DeleteBot(b) ==
    /\ "delete" \in Faults
    /\ row[b]
    /\ trades[b] = <<>>
    /\ row' = [row EXCEPT ![b] = FALSE]
    /\ UNCHANGED <<today, trades, coins, risk, tick, tripped, crashes, lost>>

(***************************************************************************)
(* The worker dies and comes back.  What the process kept in memory is     *)
(* gone: ticks, the risk managers (strategy_runner.py:32-35) and, in paper *)
(* mode, the account (paper.py:27).                                        *)
(***************************************************************************)
Crash ==
    /\ "crash" \in Faults
    /\ crashes < MaxCrashes
    /\ crashes' = crashes + 1
    /\ tick' = [t \in Ticks |-> Idle]
    /\ risk' = [b \in Bots |-> NewRisk]
    /\ coins' = IF Mode = "paper" THEN [s \in Symbols |-> 0] ELSE coins
    /\ lost' = (lost \/ coins' # coins \/ \E t \in Ticks : Filled(t))
    /\ UNCHANGED <<today, row, trades, tripped>>

NextDay ==
    /\ today < MaxDay
    /\ today' = today + 1
    /\ UNCHANGED <<row, trades, coins, risk, tick, tripped, crashes, lost>>

----------------------------------------------------------------------------
MayTrade(b) == Len(trades[b]) < MaxTrades /\ coins[SymbolOf[b]] <= MaxCoins

DecideSome(t) ==
    \E equity \in Equities, price \in Prices, signal \in Signals :
        Decide(t, equity, price, signal)

LiveOrderSome(t) == \E filled \in 0 .. MaxAmount : LiveOrder(t, filled)

LiveAckSome(t) == \E price \in Prices \cup {0} : LiveAck(t, price)

TickStep(t) ==
    \/ \E b \in Bots : MayTrade(b) /\ StartTick(t, b)
    \/ GiveUp(t)
    \/ DecideSome(t)
    \/ \E price \in Prices : PaperOrder(t, price)
    \/ LiveOrderSome(t)
    \/ LiveAckSome(t)
    \/ LiveAckLost(t)
    \/ Record(t)
    \/ RecordFails(t)

Next ==
    \/ \E t \in Ticks : TickStep(t)
    \/ \E b \in Bots : DeleteBot(b)
    \/ Crash
    \/ NextDay

Spec == Init /\ [][Next]_vars

----------------------------------------------------------------------------
\* From approval until the tick ends, an order is the tick's to carry out.
Ordering(t) == tick[t].pc \in {"order", "ack", "record"}

\* A BUY, then a SELL of no more than was bought, and so on.
MayFollow(x, last) ==
    /\ x.side # last.side
    /\ x.side = "sell" => x.amount <= last.amount

RoundTrips(rows) ==
    \A i \in DOMAIN rows :
        IF i = 1 THEN rows[i].side = "buy" ELSE MayFollow(rows[i], rows[i - 1])

(***************************************************************************)
(* The ledger of a bot is a sequence of round trips, whatever else fails:  *)
(* _get_open_position (strategy_runner.py:38-49) relies on it when it      *)
(* looks at the last row only.                                             *)
(***************************************************************************)
LedgerAlternates == \A b \in Bots : RoundTrips(trades[b])

(***************************************************************************)
(* The position a tick read before its exchange calls is still the open    *)
(* position of the ledger while its order is carried out (read at          *)
(* strategy_runner.py:77, used up to line 138).                            *)
(***************************************************************************)
PositionNotStale ==
    \A t \in Ticks : Ordering(t) => tick[t].position = OpenPosition(tick[t].bot)

(***************************************************************************)
(* "Trading halted until tomorrow" (risk.py:52): once a bot's breaker has  *)
(* tripped, no order of it is under way for the rest of that day.          *)
(***************************************************************************)
HaltedUntilTomorrow ==
    \A t \in Ticks : Ordering(t) => tripped[tick[t].bot] # today

\* What the ledger says a bot holds, and what its order in flight has moved
\* that the ledger does not say yet.
Held(b) == OpenPosition(b).amount

Moved(b) ==
    LET ts == {t \in Ticks : Filled(t) /\ tick[t].bot = b}
        sign(t) == IF tick[t].side = "buy" THEN 1 ELSE -1
    IN  SumFunctionOnSet([t \in Ticks |-> sign(t) * tick[t].amount], ts)

(***************************************************************************)
(* "A worker crash or redeploy can't desync 'what we think we're holding'  *)
(* from 'what actually happened'" (README.md:16): for every symbol the     *)
(* account holds what the ledgers of its bots say, up to orders in flight. *)
(***************************************************************************)
LedgerMatchesAccount ==
    \A s \in Symbols :
        coins[s] = SumFunctionOnSet([b \in Bots |-> Held(b) + Moved(b)],
                                    {b \in Bots : SymbolOf[b] = s})

(***************************************************************************)
(* There are no other ways to lose a fill than those the model names: a    *)
(* restart, an answer or a commit that fails, a partly filled SELL.  Up to *)
(* the first of them ledger and account agree, and no other failure (a     *)
(* tick that raises, a deleted bot, an unreported price, a partial BUY)    *)
(* takes them apart.                                                       *)
(***************************************************************************)
LedgerMatchesUntilLoss == ~lost => LedgerMatchesAccount

(***************************************************************************)
(* A bot's orders go to the kind of exchange its mode names                *)
(* (models.py:60, "paper | live").                                         *)
(***************************************************************************)
OrdersFollowBotMode ==
    \A t \in Ticks : Ordering(t) => BotMode[tick[t].bot] = Mode
=============================================================================
