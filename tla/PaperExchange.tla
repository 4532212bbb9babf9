--------------------------- MODULE PaperExchange ---------------------------
(***************************************************************************)
(* PaperExchange (backend/app/services/exchange/paper.py): the simulated   *)
(* account that every bot of the worker process trades on.                 *)
(*                                                                         *)
(* place_market_order reads no balance before its only await, the price    *)
(* lookup, so an order is one action.  get_portfolio_value awaits a price  *)
(* for every asset in the balances while other bots' orders are filled.    *)
(*                                                                         *)
(* Prices are whole units of the quote asset; cash is in thousandths, so   *)
(* that the fee of 0.1% of a cost is exact.                                *)
(***************************************************************************)
EXTENDS Integers, Sequences, FiniteSetsExt

CONSTANTS
    Assets,        \* base assets that are traded against the quote asset
    Valuations,    \* callers of get_portfolio_value, each with one call at a time
    StartingCash,  \* starting_balance, in thousandths
    Amounts,       \* amounts of orders
    Prices,        \* prices of an asset
    TickerFails,   \* may the price lookup of a valuation fail?
    MaxFees        \* bound: no order is placed once this much has been paid

ASSUME PaperAssumption ==
    /\ IsFiniteSet(Assets)
    /\ StartingCash \in Nat
    /\ Amounts \subseteq Nat \ {0}
    /\ Prices \subseteq Nat \ {0} /\ Prices # {}
    /\ TickerFails \in BOOLEAN
    /\ MaxFees \in Nat

VARIABLES
    cash,     \* _balances["USDT"]
    coins,    \* _balances of the base assets, 0 where there is no key
    keys,     \* the base assets that are keys of _balances, in dict order
    price,    \* the market
    fees,     \* history: fees paid
    val,      \* the calls of get_portfolio_value
    raised    \* history: per caller, its valuations that have raised

vars == <<cash, coins, keys, price, fees, val, raised>>

\* What an account is worth, in thousandths.
WorthOf(c, holdings, p) == 1000 * SumFunction([a \in Assets |-> holdings[a] * p[a]]) + c

Worth == WorthOf(cash, coins, price)

Valuation ==
    [pc     : {"idle", "asking", "done"},
     at     : Nat,        \* position in keys of the asset being priced
     amount : Int,        \* its balance when the loop came to it
     total  : Int,        \* the sum so far
     size   : Nat,        \* size of the dict when the loop began
     lo     : Int,        \* history: least worth of the account since then
     hi     : Int,        \* history: greatest worth since then
     traded : Nat,        \* history: what orders have turned over since then
     steady : BOOLEAN,    \* history: has no price moved since then?
     whole  : BOOLEAN]    \* history: has no lookup failed since then?

TypeOK ==
    /\ cash \in Int
    /\ coins \in [Assets -> Int]
    /\ keys \in Seq(Assets)
    /\ price \in [Assets -> Prices]
    /\ fees \in Nat
    /\ val \in [Valuations -> Valuation]
    /\ raised \in [Valuations -> Nat]

NoValuation == [pc |-> "idle", at |-> 0, amount |-> 0, total |-> 0, size |-> 0, lo |-> 0, hi |-> 0,
                traded |-> 0, steady |-> TRUE, whole |-> TRUE]

Init ==
    /\ cash = StartingCash
    /\ coins = [a \in Assets |-> 0]
    /\ keys = <<>>
    /\ price \in [Assets -> Prices]
    /\ fees = 0
    /\ val = [v \in Valuations |-> NoValuation]
    /\ raised = [v \in Valuations |-> 0]

----------------------------------------------------------------------------
\* Valuations in flight have seen the account at this worth, too, after an
\* order of this cost, or after the market moved.
Witnessed(worth, cost, moved) ==
    [v \in Valuations |->
        IF val[v].pc = "asking"
        THEN [val[v] EXCEPT !.lo = IF worth < @ THEN worth ELSE @,
                            !.hi = IF worth > @ THEN worth ELSE @,
                            !.traded = @ + cost,
                            !.steady = @ /\ ~moved]
        ELSE val[v]]

\* Wrong: the fee is not covered.
CanBuyWithoutFee(a, amount) == cash >= 1000 * amount * price[a]

Cost(a, amount) == 1000 * amount * price[a]
Fee(a, amount)  == amount * price[a]

CanBuy(a, amount)  == cash >= Cost(a, amount) + Fee(a, amount)
CanSell(a, amount) == coins[a] >= amount

\* Wrong: a SELL earns its fee.
SellEarnsFee(a, amount) ==
    /\ CanSell(a, amount)
    /\ coins' = [coins EXCEPT ![a] = @ - amount]
    /\ cash' = cash + Cost(a, amount) + Fee(a, amount)
    /\ fees' = fees + Fee(a, amount)
    /\ val' = Witnessed(WorthOf(cash', coins', price), Cost(a, amount), FALSE)
    /\ UNCHANGED <<keys, price, raised>>

\* place_market_order fills a BUY; without the cash it is REJECTED and
\* nothing changes.
Buy(a, amount) ==
    /\ CanBuy(a, amount)
    /\ cash' = cash - Cost(a, amount) - Fee(a, amount)
    /\ coins' = [coins EXCEPT ![a] = @ + amount]
    /\ keys' = IF \E i \in DOMAIN keys : keys[i] = a THEN keys ELSE Append(keys, a)
    /\ fees' = fees + Fee(a, amount)
    /\ val' = Witnessed(WorthOf(cash', coins', price), Cost(a, amount), FALSE)
    /\ UNCHANGED <<price, raised>>

\* Wrong: an asset sold out loses its key.
SellDropsKey(a, amount) ==
    /\ CanSell(a, amount)
    /\ coins' = [coins EXCEPT ![a] = @ - amount]
    /\ cash' = cash + Cost(a, amount) - Fee(a, amount)
    /\ keys' = IF coins'[a] = 0 THEN SelectSeq(keys, LAMBDA k : k # a) ELSE keys
    /\ fees' = fees + Fee(a, amount)
    /\ val' = Witnessed(WorthOf(cash', coins', price), Cost(a, amount), FALSE)
    /\ UNCHANGED <<price, raised>>

\* place_market_order fills a SELL; an asset sold out keeps its key.
Sell(a, amount) ==
    /\ CanSell(a, amount)
    /\ coins' = [coins EXCEPT ![a] = @ - amount]
    /\ cash' = cash + Cost(a, amount) - Fee(a, amount)
    /\ fees' = fees + Fee(a, amount)
    /\ val' = Witnessed(WorthOf(cash', coins', price), Cost(a, amount), FALSE)
    /\ UNCHANGED <<keys, price, raised>>

MarketMoves ==
    /\ price' \in [Assets -> Prices]
    /\ price' # price
    /\ val' = Witnessed(WorthOf(cash, coins, price'), 0, TRUE)
    /\ UNCHANGED <<cash, coins, keys, fees, raised>>

\* Wrong: stops at the first empty balance.
ContinuedToGap(r, i, total) ==
    IF i = Len(keys) THEN [r EXCEPT !.pc = "done", !.at = 0, !.amount = 0, !.total = total]
    ELSE IF coins[keys[i + 1]] = 0
    THEN [r EXCEPT !.pc = "done", !.at = 0, !.amount = 0, !.total = total]
    ELSE [r EXCEPT !.pc = "asking", !.at = i + 1, !.amount = coins[keys[i + 1]], !.total = total]

\* The loop of get_portfolio_value goes on behind position i of the dict:
\* it passes over empty balances up to the next await, or returns.
Continued(r, i, total) ==
    LET further == {j \in i + 1 .. Len(keys) : coins[keys[j]] # 0}
    IN  IF further = {} THEN [r EXCEPT !.pc = "done", !.at = 0, !.amount = 0, !.total = total]
        ELSE [r EXCEPT !.pc = "asking", !.at = Min(further),
                       !.amount = coins[keys[Min(further)]], !.total = total]

\* get_portfolio_value is called.
StartValue(v) ==
    /\ val[v].pc = "idle"
    /\ val' = [val EXCEPT ![v] =
                 Continued([NoValuation EXCEPT !.size = Len(keys), !.lo = Worth, !.hi = Worth],
                           0, cash)]
    /\ UNCHANGED <<cash, coins, keys, price, fees, raised>>

\* The price of the asset arrives.
Priced(v) ==
    /\ val[v].pc = "asking"
    /\ Len(keys) = val[v].size
    /\ val' = [val EXCEPT ![v] =
                 Continued(@, @.at, @.total + 1000 * @.amount * price[keys[@.at]])]
    /\ UNCHANGED <<cash, coins, keys, price, fees, raised>>

\* The lookup fails; the asset is left out of the sum.
Skipped(v) ==
    /\ TickerFails
    /\ val[v].pc = "asking"
    /\ Len(keys) = val[v].size
    /\ val' = [val EXCEPT ![v] = Continued([@ EXCEPT !.whole = FALSE], @.at, @.total)]
    /\ UNCHANGED <<cash, coins, keys, price, fees, raised>>

\* A first BUY of another asset has grown the dict under the iterator:
\* RuntimeError, and the tick is lost.
ValueRaises(v) ==
    /\ val[v].pc = "asking"
    /\ Len(keys) # val[v].size
    /\ val' = [val EXCEPT ![v] = NoValuation]
    /\ raised' = [raised EXCEPT ![v] = @ + 1]
    /\ UNCHANGED <<cash, coins, keys, price, fees>>

\* The caller has used the value.
Returned(v) ==
    /\ val[v].pc = "done"
    /\ val' = [val EXCEPT ![v] = NoValuation]
    /\ UNCHANGED <<cash, coins, keys, price, fees, raised>>

OrderStep(a, amount) ==
    /\ fees < MaxFees
    /\ Buy(a, amount) \/ Sell(a, amount)

Next ==
    \/ \E a \in Assets, amount \in Amounts : OrderStep(a, amount)
    \/ MarketMoves
    \/ \E v \in Valuations :
          StartValue(v) \/ Priced(v) \/ Skipped(v) \/ ValueRaises(v) \/ Returned(v)

Spec == Init /\ [][Next]_vars

----------------------------------------------------------------------------
(***************************************************************************)
(* However the orders of several bots interleave, no balance is overdrawn  *)
(* (paper.py:58, 71).                                                      *)
(***************************************************************************)
Solvent == cash >= 0 /\ \A a \in Assets : coins[a] >= 0

(***************************************************************************)
(* A trade changes the account's worth by its fee and nothing else, in     *)
(* either direction (paper.py:68-69, 81-82).                               *)
(***************************************************************************)
TradesCostTheirFee ==
    [][price' = price => Worth' = Worth - (fees' - fees)]_vars

(***************************************************************************)
(* The RuntimeError of a dict that grows under get_portfolio_value's       *)
(* iterator (paper.py:101) does not go on costing ticks: only the first    *)
(* BUY of an asset in the life of the process grows the dict, since an     *)
(* asset sold out keeps its key (paper.py:81).  So a caller loses fewer    *)
(* valuations to it than there are assets, however often bots buy and sell *)
(* them while it runs, and one that has the account's only coin loses none.*)
(***************************************************************************)
RaisesAreFew == \A v \in Valuations : raised[v] > 0 => raised[v] < Cardinality(Assets)

(***************************************************************************)
(* A valuation that is torn by other bots' orders (paper.py:99-109) errs   *)
(* by no more than those orders turned over while it ran, and by nothing   *)
(* when there were none; a failed lookup only lowers it.  That is as far   *)
(* as a torn value can trip the breaker or hide a loss from it, as long as *)
(* prices stand still.                                                     *)
(***************************************************************************)
TornByTurnover ==
    \A v \in Valuations :
        val[v].pc = "done" /\ val[v].steady =>
            /\ val[v].total <= val[v].hi + val[v].traded
            /\ val[v].whole => val[v].total >= val[v].lo - val[v].traded

(***************************************************************************)
(* What get_portfolio_value returns is a "current portfolio value"         *)
(* (risk.py:43): the account was worth no less and no more at some moment  *)
(* of the call.                                                            *)
(***************************************************************************)
ValueIsCurrent ==
    \A v \in Valuations :
        val[v].pc = "done" => val[v].lo <= val[v].total /\ val[v].total <= val[v].hi
=============================================================================
