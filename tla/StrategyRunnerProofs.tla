------------------------ MODULE StrategyRunnerProofs ------------------------
(***************************************************************************)
(* Proofs about StrategyRunner for any number of bots and ticks.           *)
(*                                                                         *)
(* The ledger alternates whatever fails, because a bot has one tick at a   *)
(* time (OneTickPerBot): nobody else writes the bot's ledger between the   *)
(* read of its position and the order (Fresh), so the side a tick orders   *)
(* is the one the ledger expects next (OrderFits).                         *)
(*                                                                         *)
(* The halt lasts until midnight as long as the worker does not restart:   *)
(* a breaker that tripped today is still tripped (StillTripped), and an    *)
(* order is under way only for a bot whose breaker is closed.              *)
(*                                                                         *)
(* Ledgers and account agree until a fill is lost, because a whole fill    *)
(* moves the account of a symbol and the ledgers with their orders in      *)
(* flight by the same amount (AccountInv), and a tick that sells sells all *)
(* of its position (SellsAll).                                             *)
(***************************************************************************)
EXTENDS StrategyRunner, SharedLemmas

OneTickPerBot ==
    \A t, u \in Ticks :
        Busy(t) /\ Busy(u) /\ tick[t].bot = tick[u].bot => t = u

Fresh == \A t \in Ticks : Busy(t) => tick[t].position = OpenPosition(tick[t].bot)

OrderFits ==
    \A t \in Ticks : Ordering(t) =>
        IF tick[t].position.open
        THEN tick[t].side = "sell" /\ tick[t].amount <= tick[t].position.amount
        ELSE tick[t].side = "buy"

LedgerInv ==
    /\ TypeOK
    /\ OneTickPerBot
    /\ Fresh
    /\ OrderFits
    /\ LedgerAlternates

StillTripped ==
    \A b \in Bots :
        /\ tripped[b] <= today
        /\ tripped[b] = today => risk[b].day = today /\ risk[b].halted

ClosedBreaker == \A t \in Ticks : Ordering(t) => ~risk[tick[t].bot].halted

HaltInv == LedgerInv /\ StillTripped /\ ClosedBreaker

----------------------------------------------------------------------------
LEMMA IdleIsTick == Idle \in Tick /\ Idle.pc = "idle"
<1>1. (CHOOSE b \in Bots : TRUE) \in Bots
  BY RunnerAssumption
<1> QED BY <1>1 DEF Idle, IdleTick, NoPosition, Position, Tick

LEMMA OpenPositionType ==
    ASSUME TypeOK, NEW b \in Bots
    PROVE  OpenPosition(b) \in Position
<1>1. trades[b] \in Seq(TradeRow)
  BY DEF TypeOK
<1>2. CASE trades[b] = <<>>
  BY <1>2 DEF OpenPosition, NoPosition, Position
<1>3. CASE trades[b] # <<>>
  <2>1. trades[b][Len(trades[b])] \in TradeRow
    BY <1>1, <1>3
  <2> QED BY <1>3, <2>1 DEF OpenPosition, NoPosition, Position, TradeRow
<1> QED BY <1>2, <1>3

\* An order the tick may place: approved by a closed breaker, on the side
\* the position allows, and for no more than the position.
LEMMA OrdersFit ==
    ASSUME NEW r \in RiskState, NEW sig \in Signals, NEW eq \in Nat,
           NEW price \in Nat, NEW pos \in Position,
           NEW o \in Orders(r, sig, eq, price, pos)
    PROVE  /\ ~r.halted
           /\ o.side = (IF pos.open THEN "sell" ELSE "buy")
           /\ o.amount \in Nat
           /\ pos.open => o.amount = pos.amount
<1>1. pos.entry \in Nat /\ pos.amount \in Nat
  BY DEF Position
<1>2. PICK v \in Evaluate(r, sig, eq, price, pos.entry) :
        /\ v.approved
        /\ sig = (IF pos.open THEN "sell" ELSE "buy")
        /\ o = [side |-> sig, amount |-> IF sig = "buy" THEN v.amount ELSE pos.amount]
  BY DEF Orders
<1>3. v \in Verdicts /\ ~r.halted
  BY <1>1, <1>2, EvaluateVerdicts
<1>4. v.amount \in Nat
  BY <1>3 DEF Verdicts
<1> QED BY <1>1, <1>2, <1>3, <1>4

\* A row that may follow the last one extends a ledger of round trips.
LEMMA AppendRoundTrips ==
    ASSUME NEW rows \in Seq(TradeRow), NEW x \in TradeRow,
           IF rows = <<>> THEN x.side = "buy"
           ELSE RoundTrips(rows) /\ MayFollow(x, rows[Len(rows)])
    PROVE  RoundTrips(Append(rows, x))
<1> PICK n \in Nat : n = Len(rows)
  OBVIOUS
<1> PICK new : new = Append(rows, x)
  OBVIOUS
<1>1. /\ DOMAIN new = 1 .. n + 1 /\ DOMAIN rows = 1 .. n
      /\ new[n + 1] = x
      /\ \A i \in 1 .. n : new[i] = rows[i]
      /\ rows = <<>> <=> n = 0
  OBVIOUS
<1> SUFFICES ASSUME NEW i \in 1 .. n + 1
             PROVE  IF i = 1 THEN new[i].side = "buy" ELSE MayFollow(new[i], new[i - 1])
  BY <1>1 DEF RoundTrips
<1>2. CASE i = n + 1
  <2>1. i # 1 => n \in 1 .. n /\ i - 1 = n /\ new[i - 1] = rows[n]
    BY <1>1, <1>2
  <2> QED BY <1>1, <1>2, <2>1
<1>3. CASE i \in 1 .. n
  <2>1. i # 1 => i - 1 \in 1 .. n /\ new[i - 1] = rows[i - 1]
    BY <1>1, <1>3
  <2> QED BY <1>1, <1>3, <2>1 DEF RoundTrips
<1> QED BY <1>2, <1>3

LEMMA LedgerInit == Init => LedgerInv
<1> SUFFICES ASSUME Init PROVE LedgerInv
  OBVIOUS
<1>1. TypeOK
  <2>1. lost \in BOOLEAN
    BY DEF Init
  <2>2. /\ row \in [Bots -> BOOLEAN] /\ risk \in [Bots -> RiskState]
        /\ trades \in [Bots -> Seq(TradeRow)] /\ coins \in [Symbols -> Nat]
    BY DEF Init, NewRisk, RiskState
  <2>3. /\ tick \in [Ticks -> Tick] /\ tripped \in [Bots -> Nat]
        /\ today \in Nat \ {0} /\ crashes \in Nat
    BY IdleIsTick DEF Init
  <2> QED BY <2>1, <2>2, <2>3 DEF TypeOK
<1>2. \A t \in Ticks : ~Busy(t) /\ ~Ordering(t)
  BY IdleIsTick DEF Init, Busy, Ordering
<1> QED BY <1>1, <1>2 DEF LedgerInv, OneTickPerBot, Fresh, OrderFits, LedgerAlternates,
           RoundTrips, Init

----------------------------------------------------------------------------
(***************************************************************************)
(* The two ways most steps touch a tick: it ends, or it moves on with the  *)
(* same bot and position.                                                  *)
(***************************************************************************)
LEMMA TickEnds ==
    ASSUME LedgerInv, NEW t \in Ticks,
           tick' = [tick EXCEPT ![t] = Idle],
           UNCHANGED <<today, row, trades, coins, crashes>>, lost' \in BOOLEAN,
           risk' \in [Bots -> RiskState], tripped' \in [Bots -> Nat]
    PROVE  LedgerInv'
<1> USE DEF LedgerInv
<1>1. tick \in [Ticks -> Tick]
  BY DEF TypeOK
<1>2. \A u \in Ticks : Busy(u)' => u # t /\ Busy(u) /\ tick'[u] = tick[u]
  BY <1>1, IdleIsTick DEF Busy
<1>3. TypeOK'
  BY <1>1, IdleIsTick DEF TypeOK
<1>4. OneTickPerBot'
  BY <1>2 DEF OneTickPerBot
<1>5. Fresh'
  BY <1>2 DEF Fresh, OpenPosition
<1>6. OrderFits'
  BY <1>1, <1>2 DEF OrderFits, Ordering, Busy
<1>7. LedgerAlternates'
  BY DEF LedgerAlternates
<1> QED BY <1>3, <1>4, <1>5, <1>6, <1>7

LEMMA TickGoesOn ==
    ASSUME LedgerInv, NEW t \in Ticks, Busy(t), NEW new \in Tick,
           tick' = [tick EXCEPT ![t] = new],
           new.bot = tick[t].bot, new.position = tick[t].position,
           new.pc \in {"order", "ack", "record"},
           IF new.position.open
           THEN new.side = "sell" /\ new.amount <= new.position.amount
           ELSE new.side = "buy",
           UNCHANGED <<today, row, trades, crashes>>, lost' \in BOOLEAN,
           coins' \in [Symbols -> Nat], risk' \in [Bots -> RiskState],
           tripped' \in [Bots -> Nat]
    PROVE  LedgerInv'
<1> USE DEF LedgerInv
<1>1. tick \in [Ticks -> Tick]
  BY DEF TypeOK
<1>2. /\ tick'[t] = new
      /\ \A u \in Ticks : u # t => tick'[u] = tick[u]
  BY <1>1
<1>3. TypeOK'
  BY <1>1 DEF TypeOK
<1>4. OneTickPerBot'
  BY <1>2 DEF OneTickPerBot, Busy
<1>5. Fresh'
  <2> SUFFICES ASSUME NEW u \in Ticks, Busy(u)'
               PROVE  tick'[u].position = OpenPosition(tick[u].bot) /\ tick'[u].bot = tick[u].bot
    BY DEF Fresh, OpenPosition
  <2>1. CASE u = t
    BY <1>2, <2>1 DEF Fresh
  <2>2. CASE u # t
    BY <1>2, <2>2 DEF Fresh, Busy
  <2> QED BY <2>1, <2>2
<1>6. OrderFits'
  BY <1>2 DEF OrderFits, Ordering
<1>7. LedgerAlternates'
  BY DEF LedgerAlternates
<1> QED BY <1>3, <1>4, <1>5, <1>6, <1>7

----------------------------------------------------------------------------
LEMMA StartTickInv ==
    ASSUME LedgerInv, NEW t \in Ticks, NEW b \in Bots, StartTick(t, b)
    PROVE  LedgerInv'
<1> USE DEF LedgerInv
<1> DEFINE new == [IdleTick(b) EXCEPT !.pc = "value", !.position = OpenPosition(b)]
<1>1. /\ ~Busy(t) /\ \A u \in Ticks : Busy(u) => tick[u].bot # b
      /\ tick' = [tick EXCEPT ![t] = new]
      /\ UNCHANGED <<today, row, trades, coins, risk, tripped, crashes, lost>>
      /\ tick \in [Ticks -> Tick]
  BY DEF StartTick, TypeOK
<1>2. /\ new \in Tick /\ new.pc = "value" /\ new.bot = b
      /\ new.position = OpenPosition(b)
  BY OpenPositionType DEF IdleTick, NoPosition, Position, Tick
<1> HIDE DEF new
<1>3. /\ tick'[t] = new
      /\ \A u \in Ticks : u # t => tick'[u] = tick[u]
  BY <1>1
<1>4. TypeOK'
  BY <1>1, <1>2 DEF TypeOK
<1>5. OneTickPerBot'
  BY <1>1, <1>2, <1>3 DEF OneTickPerBot, Busy
<1>6. Fresh'
  <2> SUFFICES ASSUME NEW u \in Ticks, Busy(u)'
               PROVE  (tick[u].position = OpenPosition(tick[u].bot))'
    BY DEF Fresh
  <2>1. CASE u = t
    BY <1>1, <1>2, <1>3, <2>1 DEF OpenPosition
  <2>2. CASE u # t
    <3>1. tick'[u] = tick[u] /\ Busy(u)
      BY <1>3, <2>2 DEF Busy
    <3> QED BY <1>1, <3>1 DEF Fresh, OpenPosition
  <2> QED BY <2>1, <2>2
<1>7. OrderFits'
  BY <1>2, <1>3 DEF OrderFits, Ordering
<1>8. LedgerAlternates'
  BY <1>1 DEF LedgerAlternates
<1> QED BY <1>4, <1>5, <1>6, <1>7, <1>8

\* What a decision does: the check, and the order it may lead to.
LEMMA DecideStep ==
    ASSUME LedgerInv, NEW t \in Ticks, NEW equity \in Equities,
           NEW price \in Prices, NEW signal \in Signals,
           Decide(t, equity, price, signal)
    PROVE  /\ Busy(t)
           /\ CheckDrawdown(risk[tick[t].bot], today, equity) \in RiskState
           /\ risk' = [risk EXCEPT ![tick[t].bot] = CheckDrawdown(@, today, equity)]
           /\ UNCHANGED <<today, row, trades, coins, crashes, lost>>
           /\ tripped' = [tripped EXCEPT ![tick[t].bot] =
                             IF risk'[tick[t].bot].halted THEN today ELSE @]
           /\ \/ tick' = [tick EXCEPT ![t] = Idle]
              \/ \E new \in Tick :
                    /\ tick' = [tick EXCEPT ![t] = new]
                    /\ new.bot = tick[t].bot /\ new.position = tick[t].position
                    /\ new.pc = "order"
                    /\ IF new.position.open
                       THEN new.side = "sell" /\ new.amount = new.position.amount
                       ELSE new.side = "buy"
                    /\ ~risk'[tick[t].bot].halted
<1> USE DEF LedgerInv
<1> PICK b \in Bots : b = tick[t].bot
  BY DEF TypeOK, Tick
<1> PICK pos \in Position : pos = tick[t].position
  BY DEF TypeOK, Tick
<1> DEFINE r == CheckDrawdown(risk[b], today, equity)
<1>1. /\ equity \in Nat /\ price \in Nat /\ today \in Nat /\ risk[b] \in RiskState
      /\ tick[t] \in Tick /\ risk \in [Bots -> RiskState] /\ tick \in [Ticks -> Tick]
  BY RunnerAssumption DEF TypeOK
<1>2. r \in RiskState
  BY <1>1, CheckDrawdownType
<1>3. Busy(t)
  BY DEF Decide, Busy
<1>4. /\ risk' = [risk EXCEPT ![b] = r]
      /\ tripped' = [tripped EXCEPT ![b] = IF r.halted THEN today ELSE @]
      /\ UNCHANGED <<today, row, trades, coins, crashes, lost>>
      /\ \/ tick' = [tick EXCEPT ![t] = Idle]
         \/ \E o \in Orders(r, signal, equity, price, pos) :
               tick' = [tick EXCEPT ![t].pc = "order",
                                    ![t].side = o.side, ![t].amount = o.amount]
  BY DEF Decide
<1> HIDE DEF r
<1>5. risk'[b] = r
  BY <1>1, <1>4
<1>6. ASSUME NEW o \in Orders(r, signal, equity, price, pos),
             tick' = [tick EXCEPT ![t].pc = "order",
                                  ![t].side = o.side, ![t].amount = o.amount]
      PROVE  \E new \in Tick :
                    /\ tick' = [tick EXCEPT ![t] = new]
                    /\ new.bot = b /\ new.position = pos
                    /\ new.pc = "order"
                    /\ IF new.position.open
                       THEN new.side = "sell" /\ new.amount = new.position.amount
                       ELSE new.side = "buy"
                    /\ ~risk'[b].halted
  <2>1. /\ ~r.halted /\ o.side = (IF pos.open THEN "sell" ELSE "buy")
        /\ o.amount \in Nat /\ (pos.open => o.amount = pos.amount)
    BY <1>1, <1>2, OrdersFit
  <2> DEFINE new == [tick[t] EXCEPT !.pc = "order", !.side = o.side, !.amount = o.amount]
  <2>2. /\ new \in Tick /\ new.bot = b /\ new.position = pos /\ new.pc = "order"
        /\ new.side = o.side /\ new.amount = o.amount
    BY <1>1, <2>1 DEF Tick
  <2>3. tick' = [tick EXCEPT ![t] = new]
    BY <1>1, <1>6
  <2>4. pos.open => new.amount = pos.amount
    BY <2>1, <2>2
  <2> HIDE DEF new
  <2> QED BY <1>5, <2>1, <2>2, <2>3, <2>4
<1>7. risk' = [risk EXCEPT ![b] = CheckDrawdown(@, today, equity)]
  BY <1>1, <1>4 DEF r
<1>8. tripped' = [tripped EXCEPT ![b] = IF risk'[b].halted THEN today ELSE @]
  BY <1>4, <1>5
<1>9. r = CheckDrawdown(risk[b], today, equity)
  BY DEF r
<1> QED BY <1>2, <1>3, <1>4, <1>6, <1>7, <1>8, <1>9

LEMMA DecideInv ==
    ASSUME LedgerInv, NEW t \in Ticks, NEW equity \in Equities,
           NEW price \in Prices, NEW signal \in Signals,
           Decide(t, equity, price, signal)
    PROVE  LedgerInv'
<1>1. /\ tick[t].bot \in Bots /\ risk \in [Bots -> RiskState]
      /\ tripped \in [Bots -> Nat] /\ today \in Nat /\ coins \in [Symbols -> Nat]
      /\ lost \in BOOLEAN
  BY DEF LedgerInv, TypeOK, Tick
<1>2. /\ Busy(t)
      /\ UNCHANGED <<today, row, trades, coins, crashes, lost>>
      /\ risk' \in [Bots -> RiskState]
      /\ tripped' \in [Bots -> Nat]
      /\ lost' \in BOOLEAN
  BY <1>1, DecideStep
<1>3. CASE tick' = [tick EXCEPT ![t] = Idle]
  BY <1>2, <1>3, TickEnds
<1>4. CASE tick' # [tick EXCEPT ![t] = Idle]
  <2>1. PICK new \in Tick :
            /\ tick' = [tick EXCEPT ![t] = new]
            /\ new.bot = tick[t].bot /\ new.position = tick[t].position
            /\ new.pc = "order"
            /\ IF new.position.open
               THEN new.side = "sell" /\ new.amount = new.position.amount
               ELSE new.side = "buy"
    BY <1>4, DecideStep
  <2>2. new.amount = new.position.amount => new.amount <= new.position.amount
    BY DEF Tick, Position
  <2> QED BY <1>1, <1>2, <2>1, <2>2, TickGoesOn
<1> QED BY <1>3, <1>4

\* The account balance an order leaves is never negative.
LEMMA FillType ==
    ASSUME TypeOK, NEW t \in Ticks, NEW filled \in Nat, Covered(t, filled), Fill(t, filled)
    PROVE  coins' \in [Symbols -> Nat]
<1> PICK s : s = SymbolOf[tick[t].bot]
  OBVIOUS
<1> PICK sum : sum = IF tick[t].side = "buy" THEN coins[s] + filled ELSE coins[s] - filled
  OBVIOUS
<1>1. coins' = [coins EXCEPT ![s] = sum]
  BY DEF Fill
<1>2. coins \in [Symbols -> Nat] /\ tick[t].side \in {"buy", "sell"}
  BY DEF TypeOK, Tick
<1>3. tick[t].side = "sell" => coins[s] >= filled
  BY DEF Covered
<1>4. s \in Symbols => sum \in Nat
  BY <1>2, <1>3
<1> QED BY <1>1, <1>2, <1>4

\* The tick keeps its side and does not grow its amount.
LEMMA FillInv ==
    ASSUME LedgerInv, NEW t \in Ticks, Ordering(t),
           NEW new \in Tick,
           tick' = [tick EXCEPT ![t] = new],
           new.bot = tick[t].bot, new.position = tick[t].position,
           new.pc \in {"ack", "record"},
           new.side = tick[t].side, new.amount <= tick[t].amount,
           coins' \in [Symbols -> Nat], lost' \in BOOLEAN,
           UNCHANGED <<today, row, trades, risk, tripped, crashes>>
    PROVE  LedgerInv'
<1>1. /\ tick[t] \in Tick /\ Busy(t)
      /\ risk' \in [Bots -> RiskState] /\ tripped' \in [Bots -> Nat]
  BY DEF LedgerInv, TypeOK, Ordering, Busy
<1>2. IF new.position.open
      THEN new.side = "sell" /\ new.amount <= new.position.amount
      ELSE new.side = "buy"
  <2>1. tick[t].position.amount \in Nat /\ tick[t].amount \in Nat /\ new.amount \in Nat
    BY <1>1 DEF Tick, Position
  <2> QED BY <2>1 DEF LedgerInv, OrderFits
<1> QED BY <1>1, <1>2, TickGoesOn

LEMMA PaperOrderInv ==
    ASSUME LedgerInv, NEW t \in Ticks, NEW price \in Prices, PaperOrder(t, price)
    PROVE  LedgerInv'
<1> DEFINE new == [tick[t] EXCEPT !.pc = "record", !.price = price]
<1>1. tick \in [Ticks -> Tick] /\ tick[t] \in Tick /\ price \in Nat /\ tick[t].amount \in Nat
  BY RunnerAssumption DEF LedgerInv, TypeOK, Tick
<1>2. /\ new \in Tick /\ new.bot = tick[t].bot /\ new.position = tick[t].position
      /\ new.pc = "record" /\ new.side = tick[t].side /\ new.amount = tick[t].amount
  BY <1>1 DEF Tick
<1>3. tick' = [tick EXCEPT ![t] = new]
  BY <1>1 DEF PaperOrder
<1> HIDE DEF new
<1>4. coins' \in [Symbols -> Nat]
  BY <1>1, FillType DEF PaperOrder, LedgerInv
<1>5. Ordering(t) /\ UNCHANGED <<today, row, trades, risk, tripped, crashes>>
  BY DEF PaperOrder, Ordering
<1>6. new.amount <= tick[t].amount
  BY <1>1, <1>2
<1>7. lost' \in BOOLEAN
  BY DEF PaperOrder, LedgerInv, TypeOK
<1> QED BY <1>2, <1>3, <1>4, <1>5, <1>6, <1>7, FillInv

LEMMA LiveOrderInv ==
    ASSUME LedgerInv, NEW t \in Ticks, NEW filled \in Nat, LiveOrder(t, filled)
    PROVE  LedgerInv'
<1> DEFINE new == [tick[t] EXCEPT !.pc = "ack", !.amount = filled]
<1>1. tick \in [Ticks -> Tick] /\ tick[t] \in Tick
  BY DEF LedgerInv, TypeOK
<1>2. /\ new \in Tick /\ new.bot = tick[t].bot /\ new.position = tick[t].position
      /\ new.pc = "ack" /\ new.side = tick[t].side /\ new.amount = filled
  BY <1>1 DEF Tick
<1>3. tick' = [tick EXCEPT ![t] = new]
  BY <1>1 DEF LiveOrder
<1> HIDE DEF new
<1>4. coins' \in [Symbols -> Nat]
  BY <1>1, FillType DEF LiveOrder, LedgerInv
<1>5. Ordering(t) /\ UNCHANGED <<today, row, trades, risk, tripped, crashes>>
  BY DEF LiveOrder, Ordering
<1>6. new.amount <= tick[t].amount
  BY <1>2 DEF LiveOrder
<1>7. lost' \in BOOLEAN
  BY DEF LiveOrder, LedgerInv, TypeOK
<1> QED BY <1>2, <1>3, <1>4, <1>5, <1>6, <1>7, FillInv

LEMMA LiveAckInv ==
    ASSUME LedgerInv, NEW t \in Ticks, NEW price \in Prices \cup {0}, LiveAck(t, price)
    PROVE  LedgerInv'
<1> DEFINE new == [tick[t] EXCEPT !.pc = "record", !.price = price]
<1>1. tick \in [Ticks -> Tick] /\ tick[t] \in Tick /\ price \in Nat /\ tick[t].amount \in Nat
  BY RunnerAssumption DEF LedgerInv, TypeOK, Tick
<1>2. /\ new \in Tick /\ new.bot = tick[t].bot /\ new.position = tick[t].position
      /\ new.pc = "record" /\ new.side = tick[t].side /\ new.amount = tick[t].amount
  BY <1>1 DEF Tick
<1>3. tick' = [tick EXCEPT ![t] = new]
  BY <1>1 DEF LiveAck
<1> HIDE DEF new
<1>4. coins' \in [Symbols -> Nat]
  BY DEF LiveAck, LedgerInv, TypeOK
<1>5. Ordering(t) /\ UNCHANGED <<today, row, trades, risk, tripped, crashes>>
  BY DEF LiveAck, Ordering
<1>6. new.amount <= tick[t].amount
  BY <1>1, <1>2
<1>7. lost' \in BOOLEAN
  BY DEF LiveAck, LedgerInv, TypeOK
<1> QED BY <1>2, <1>3, <1>4, <1>5, <1>6, <1>7, FillInv

(***************************************************************************)
(* Recording appends exactly the row the alternation expects: the tick's   *)
(* position is the ledger's, and no other tick of the bot is running.      *)
(***************************************************************************)
LEMMA RecordInv ==
    ASSUME LedgerInv, NEW t \in Ticks, Record(t)
    PROVE  LedgerInv'
<1> USE DEF LedgerInv
<1> PICK b \in Bots : b = tick[t].bot
  BY DEF TypeOK, Tick
<1> PICK x : x = [side |-> tick[t].side, amount |-> tick[t].amount, price |-> tick[t].price]
  OBVIOUS
<1>1. /\ tick \in [Ticks -> Tick] /\ tick[t] \in Tick /\ Busy(t) /\ Ordering(t)
      /\ trades \in [Bots -> Seq(TradeRow)] /\ trades[b] \in Seq(TradeRow)
      /\ Len(trades[b]) \in Nat
      /\ trades' = [trades EXCEPT ![b] = Append(trades[b], x)]
      /\ tick' = [tick EXCEPT ![t] = Idle]
      /\ UNCHANGED <<today, row, coins, risk, tripped, crashes, lost>>
  BY DEF Record, TypeOK, Busy, Ordering
<1>2. x \in TradeRow
  BY <1>1 DEF Tick, TradeRow
<1>3. /\ trades'[b] = Append(trades[b], x)
      /\ \A c \in Bots : c # b => trades'[c] = trades[c]
      /\ trades' \in [Bots -> Seq(TradeRow)]
  BY <1>1, <1>2
<1>4. \A u \in Ticks : Busy(u)' => /\ u # t /\ Busy(u) /\ tick'[u] = tick[u]
                                   /\ tick[u].bot # b
  BY <1>1, IdleIsTick DEF Busy, OneTickPerBot
<1>5. TypeOK'
  BY <1>1, <1>3, IdleIsTick DEF TypeOK
<1>6. OneTickPerBot'
  BY <1>4 DEF OneTickPerBot
<1>7. Fresh'
  <2> SUFFICES ASSUME NEW u \in Ticks, Busy(u)'
               PROVE  (tick[u].position = OpenPosition(tick[u].bot))'
    BY DEF Fresh
  <2>1. tick'[u] = tick[u] /\ Busy(u) /\ tick[u].bot \in Bots /\ tick[u].bot # b
    BY <1>1, <1>4 DEF Tick
  <2>2. trades'[tick[u].bot] = trades[tick[u].bot]
    BY <1>3, <2>1
  <2> QED BY <2>1, <2>2 DEF Fresh, OpenPosition
<1>8. OrderFits'
  BY <1>4 DEF OrderFits, Ordering, Busy
<1>9. LedgerAlternates'
  <2>1. tick[t].position = OpenPosition(b)
    BY <1>1 DEF Fresh
  <2>2. CASE trades[b] = <<>>
    <3>1. x.side = "buy"
      BY <1>1, <2>1, <2>2 DEF OrderFits, OpenPosition, NoPosition
    <3>2. RoundTrips(trades'[b])
      BY <1>1, <1>2, <1>3, <2>2, <3>1, AppendRoundTrips
    <3> QED BY <1>3, <3>2 DEF LedgerAlternates
  <2>3. CASE trades[b] # <<>>
    <3> PICK last \in TradeRow : last = trades[b][Len(trades[b])]
      BY <1>1, <2>3
    <3>1. /\ OpenPosition(b).open <=> last.side = "buy"
          /\ last.side = "buy" => OpenPosition(b).amount = last.amount
      BY <2>3 DEF OpenPosition, NoPosition, TradeRow
    <3>2. MayFollow(x, last)
      BY <1>1, <2>1, <3>1 DEF OrderFits, MayFollow, TradeRow
    <3>3. RoundTrips(trades[b])
      BY DEF LedgerAlternates
    <3>4. RoundTrips(trades'[b])
      BY <1>1, <1>2, <1>3, <2>3, <3>2, <3>3, AppendRoundTrips
    <3> QED BY <1>3, <3>4 DEF LedgerAlternates
  <2> QED BY <2>2, <2>3
<1> QED BY <1>5, <1>6, <1>7, <1>8, <1>9

LEMMA LedgerStep == LedgerInv /\ [Next]_vars => LedgerInv'
<1> SUFFICES ASSUME LedgerInv, [Next]_vars PROVE LedgerInv'
  OBVIOUS
<1>1. ASSUME NEW t \in Ticks, TickStep(t) PROVE LedgerInv'
  <2>0. risk \in [Bots -> RiskState] /\ tripped \in [Bots -> Nat] /\ lost \in BOOLEAN
    BY DEF LedgerInv, TypeOK
  <2>1. CASE \E b \in Bots : MayTrade(b) /\ StartTick(t, b)
    BY <2>1, StartTickInv
  <2>2. CASE GiveUp(t)
    BY <2>0, <2>2, TickEnds DEF GiveUp
  <2>3. CASE DecideSome(t)
    BY <2>3, DecideInv DEF DecideSome
  <2>4. CASE \E price \in Prices : PaperOrder(t, price)
    BY <2>4, PaperOrderInv
  <2>5. CASE LiveOrderSome(t)
    BY <2>5, LiveOrderInv, RiskAssumption DEF LiveOrderSome
  <2>6. CASE LiveAckSome(t)
    BY <2>6, LiveAckInv DEF LiveAckSome
  <2>7. CASE LiveAckLost(t)
    BY <2>0, <2>7, TickEnds DEF LiveAckLost
  <2>8. CASE Record(t)
    BY <2>8, RecordInv
  <2>9. CASE RecordFails(t)
    BY <2>0, <2>9, TickEnds DEF RecordFails
  <2> QED BY <1>1, <2>1, <2>2, <2>3, <2>4, <2>5, <2>6, <2>7, <2>8, <2>9 DEF TickStep
<1>2. ASSUME NEW b \in Bots, DeleteBot(b) PROVE LedgerInv'
  BY <1>2 DEF DeleteBot, LedgerInv, TypeOK, OneTickPerBot, Fresh, OrderFits,
              LedgerAlternates, Busy, Ordering, OpenPosition
<1>3. CASE Crash
  <2>1. \A t \in Ticks : ~Busy(t)' /\ ~Ordering(t)'
    BY <1>3, IdleIsTick DEF Crash, Busy, Ordering
  <2>2. TypeOK'
    BY <1>3, IdleIsTick DEF Crash, LedgerInv, TypeOK, NewRisk, RiskState
  <2>3. LedgerAlternates'
    BY <1>3 DEF Crash, LedgerInv, LedgerAlternates
  <2> QED BY <2>1, <2>2, <2>3 DEF LedgerInv, OneTickPerBot, Fresh, OrderFits
<1>4. CASE NextDay
  BY <1>4 DEF NextDay, LedgerInv, TypeOK, OneTickPerBot, Fresh, OrderFits,
              LedgerAlternates, Busy, Ordering, OpenPosition
<1>5. CASE UNCHANGED vars
  BY <1>5 DEF vars, LedgerInv, TypeOK, OneTickPerBot, Fresh, OrderFits,
              LedgerAlternates, Busy, Ordering, OpenPosition
<1> QED BY <1>1, <1>2, <1>3, <1>4, <1>5 DEF Next

THEOREM LedgerInvariance == Spec => []LedgerInv
<1> QED BY LedgerInit, LedgerStep, PTL DEF Spec

(***************************************************************************)
(* Type correctness under every combination of faults; in particular no    *)
(* account balance of a symbol is ever negative.                           *)
(***************************************************************************)
THEOREM TypeCorrect == Spec => []TypeOK
<1>1. LedgerInv => TypeOK
  BY DEF LedgerInv
<1> QED BY <1>1, LedgerInvariance, PTL

(***************************************************************************)
(* A bot's ledger is a sequence of round trips whatever fails and however  *)
(* many bots trade (strategy_runner.py:38-49, 119-147).                    *)
(***************************************************************************)
THEOREM LedgersAlternate == Spec => []LedgerAlternates
<1>1. LedgerInv => LedgerAlternates
  BY DEF LedgerInv
<1> QED BY <1>1, LedgerInvariance, PTL

(***************************************************************************)
(* The position read at the start of a tick is still the ledger's when the *)
(* tick orders and records (strategy_runner.py:77, 119-147).               *)
(***************************************************************************)
THEOREM PositionsNotStale == Spec => []PositionNotStale
<1>1. LedgerInv => PositionNotStale
  BY DEF LedgerInv, Fresh, PositionNotStale, Busy, Ordering
<1> QED BY <1>1, LedgerInvariance, PTL

----------------------------------------------------------------------------
(***************************************************************************)
(* Ledgers and account.  A tick whose order is filled moves the account,   *)
(* one that records moves its bot's ledger; in between the fill counts as  *)
(* the bot's own (Moved).  So what a bot holds changes only with a fill,   *)
(* and by as much as the account (HoldingFollows).  A recorded SELL closes *)
(* the position, which is right as long as it sold all of it (SellsAll):   *)
(* that is what a partial fill breaks, and why it counts as a loss.        *)
(***************************************************************************)
SellsAll ==
    \A t \in Ticks :
        Ordering(t) /\ tick[t].position.open => tick[t].amount = tick[t].position.amount

AccountInv == LedgerInv /\ (~lost => LedgerMatchesAccount /\ SellsAll)

Holding(b) == Held(b) + Moved(b)

BotsOf(s) == {b \in Bots : SymbolOf[b] = s}

\* Held and Moved as functions of a ledger and of the ticks, so that what is
\* said of them can be said of a state and of its successor.
HeldIn(rows) ==
    IF rows = <<>> THEN 0
    ELSE IF rows[Len(rows)].side = "buy" THEN rows[Len(rows)].amount ELSE 0

FilledFor(ts, b) == {t \in Ticks : ts[t].pc \in {"ack", "record"} /\ ts[t].bot = b}

Signed(x) == IF x.side = "buy" THEN x.amount ELSE -x.amount

LEMMA HeldRows ==
    ASSUME NEW rows \in Seq(TradeRow)
    PROVE  HeldIn(rows) \in Nat
<1>1. CASE rows = <<>>
  BY <1>1 DEF HeldIn
<1>2. CASE rows # <<>>
  <2>1. rows[Len(rows)] \in TradeRow
    BY <1>2
  <2> QED BY <1>2, <2>1 DEF HeldIn, TradeRow
<1> QED BY <1>1, <1>2

\* With one tick per bot, a bot's moves are the fill of that tick, if any.
LEMMA MovesOfOneTick ==
    ASSUME NEW ts \in [Ticks -> Tick], NEW b \in Bots,
           \A t, u \in FilledFor(ts, b) : t = u
    PROVE  LET sign(t) == IF ts[t].side = "buy" THEN 1 ELSE -1
               sum == SumFunctionOnSet([t \in Ticks |-> sign(t) * ts[t].amount], FilledFor(ts, b))
           IN  /\ \A t \in FilledFor(ts, b) : sum = Signed(ts[t])
               /\ FilledFor(ts, b) = {} => sum = 0
               /\ sum \in Int
<1> DEFINE sign(t) == IF ts[t].side = "buy" THEN 1 ELSE -1
           f == [t \in Ticks |-> sign(t) * ts[t].amount]
           S == FilledFor(ts, b)
<1>1. CASE S = {}
  <2>1. SumFunctionOnSet(f, S) = 0
    BY <1>1, FS_EmptySet, SumZero
  <2> QED BY <1>1, <2>1
<1>2. CASE S # {}
  <2>1. PICK t \in Ticks : S = {t}
    BY <1>2 DEF FilledFor
  <2>2. f[t] = Signed(ts[t]) /\ f[t] \in Int
    <3>1. ts[t].amount \in Int
      BY DEF Tick
    <3> QED BY <3>1 DEF Signed
  <2> HIDE DEF f, S
  <2>3. /\ IsFiniteSet(S) /\ IsFiniteSet({}) /\ t \in S /\ S \ {t} = {}
        /\ \A x \in S : f[x] \in Int
    BY <2>1, <2>2, FS_Singleton, FS_EmptySet
  <2>4. SumFunctionOnSet(f, S) = f[t] + SumFunctionOnSet(f, S \ {t})
    BY <2>3, SumWithout
  <2>5. SumFunctionOnSet(f, {}) = 0
    BY <2>3, SumZero
  <2>6. SumFunctionOnSet(f, S) = Signed(ts[t])
    BY <2>2, <2>3, <2>4, <2>5
  <2> QED BY <2>1, <2>2, <2>6 DEF f, S
<1> QED BY <1>1, <1>2

\* What the account of a step needs of a state: values of the sums.
LEMMA HoldingValue ==
    ASSUME NEW ts \in [Ticks -> Tick], NEW rows \in [Bots -> Seq(TradeRow)],
           \A t, u \in Ticks : ts[t].pc # "idle" /\ ts[u].pc # "idle"
                               /\ ts[t].bot = ts[u].bot => t = u,
           NEW b \in Bots
    PROVE  LET sign(t) == IF ts[t].side = "buy" THEN 1 ELSE -1
               moved == SumFunctionOnSet([t \in Ticks |-> sign(t) * ts[t].amount], FilledFor(ts, b))
           IN  /\ HeldIn(rows[b]) \in Int /\ moved \in Int
               /\ \A t \in FilledFor(ts, b) : moved = Signed(ts[t])
               /\ FilledFor(ts, b) = {} => moved = 0
<1>1. \A t, u \in FilledFor(ts, b) : t = u
  BY DEF FilledFor
<1>2. HeldIn(rows[b]) \in Int
  BY HeldRows
<1> QED BY <1>1, <1>2, MovesOfOneTick

\* A bot's holding now, and after a step.
LEMMA HoldingNow ==
    ASSUME LedgerInv, NEW b \in Bots
    PROVE  /\ Held(b) = HeldIn(trades[b]) /\ Held(b) \in Int /\ Moved(b) \in Int
           /\ \A t \in FilledFor(tick, b) : Moved(b) = Signed(tick[t])
           /\ FilledFor(tick, b) = {} => Moved(b) = 0
<1>1. /\ tick \in [Ticks -> Tick] /\ trades \in [Bots -> Seq(TradeRow)]
      /\ \A t, u \in Ticks : tick[t].pc # "idle" /\ tick[u].pc # "idle"
                             /\ tick[t].bot = tick[u].bot => t = u
  BY DEF LedgerInv, TypeOK, OneTickPerBot, Busy
<1>2. Held(b) = HeldIn(trades[b])
  BY DEF Held, HeldIn, OpenPosition, NoPosition
<1>3. {t \in Ticks : Filled(t) /\ tick[t].bot = b} = FilledFor(tick, b)
  BY DEF Filled, FilledFor
<1> QED BY <1>1, <1>2, <1>3, HoldingValue DEF Moved

LEMMA HoldingNext ==
    ASSUME LedgerInv', NEW b \in Bots
    PROVE  /\ Held(b)' = HeldIn(trades'[b]) /\ Held(b)' \in Int /\ Moved(b)' \in Int
           /\ \A t \in FilledFor(tick', b) : Moved(b)' = Signed(tick'[t])
           /\ FilledFor(tick', b) = {} => Moved(b)' = 0
<1>1. /\ tick' \in [Ticks -> Tick] /\ trades' \in [Bots -> Seq(TradeRow)]
      /\ \A t, u \in Ticks : tick'[t].pc # "idle" /\ tick'[u].pc # "idle"
                             /\ tick'[t].bot = tick'[u].bot => t = u
  BY DEF LedgerInv, TypeOK, OneTickPerBot, Busy
<1>2. Held(b)' = HeldIn(trades'[b])
  BY DEF Held, HeldIn, OpenPosition, NoPosition
<1>3. {t \in Ticks : Filled(t)' /\ tick'[t].bot = b} = FilledFor(tick', b)
  BY DEF Filled, FilledFor
<1> QED BY <1>1, <1>2, <1>3, HoldingValue DEF Moved

\* The account keeps up when it moves by as much as one bot's holding.
LEMMA AccountFollows ==
    ASSUME NEW f \in [Bots -> Int], NEW g \in [Bots -> Int], NEW c \in [Symbols -> Int],
           NEW b \in Bots, \A a \in Bots : a # b => g[a] = f[a],
           \A s \in Symbols : c[s] = SumFunctionOnSet(f, BotsOf(s)),
           NEW d, d = [c EXCEPT ![SymbolOf[b]] = @ + (g[b] - f[b])]
    PROVE  \A s \in Symbols : d[s] = SumFunctionOnSet(g, BotsOf(s))
<1> SUFFICES ASSUME NEW s \in Symbols PROVE d[s] = SumFunctionOnSet(g, BotsOf(s))
  OBVIOUS
<1>1. IsFiniteSet(BotsOf(s)) /\ \A a \in BotsOf(s) : f[a] \in Int /\ g[a] \in Int
  BY FS_Subset, RunnerAssumption DEF BotsOf
<1>2. CASE SymbolOf[b] = s
  <2>1. b \in BotsOf(s) /\ \A a \in BotsOf(s) : a # b => g[a] = f[a]
    BY <1>2 DEF BotsOf
  <2>2. SumFunctionOnSet(g, BotsOf(s)) = SumFunctionOnSet(f, BotsOf(s)) + g[b] - f[b]
    BY <1>1, <2>1, SumMoves
  <2>3. d[s] = c[s] + (g[b] - f[b])
    BY <1>2
  <2>4. SumFunctionOnSet(f, BotsOf(s)) \in Int
    BY <1>1, SumInt
  <2> QED BY <2>2, <2>3, <2>4
<1>3. CASE SymbolOf[b] # s
  <2>1. \A a \in BotsOf(s) : f[a] = g[a]
    BY <1>3 DEF BotsOf
  <2>2. SumFunctionOnSet(f, BotsOf(s)) = SumFunctionOnSet(g, BotsOf(s))
    BY <1>1, <2>1, SumSame
  <2>3. d[s] = c[s]
    BY <1>3
  <2> QED BY <2>2, <2>3
<1> QED BY <1>2, <1>3

LEMMA HoldingFollows ==
    ASSUME LedgerInv, LedgerInv', LedgerMatchesAccount, NEW b \in Bots,
           \A a \in Bots : a # b => Holding(a)' = Holding(a),
           coins' = [coins EXCEPT ![SymbolOf[b]] = @ + (Holding(b)' - Holding(b))]
    PROVE  LedgerMatchesAccount'
<1> DEFINE f == [a \in Bots |-> Holding(a)]
           g == [a \in Bots |-> Holding(a)']
<1>1. f \in [Bots -> Int] /\ g \in [Bots -> Int]
  <2>1. ASSUME NEW a \in Bots PROVE Holding(a) \in Int /\ Holding(a)' \in Int
    <3>1. Held(a) \in Int /\ Moved(a) \in Int
      BY HoldingNow
    <3>2. Held(a)' \in Int /\ Moved(a)' \in Int
      BY HoldingNext
    <3> QED BY <3>1, <3>2 DEF Holding
  <2> QED BY <2>1
<1>2. \A s \in Symbols : coins[s] = SumFunctionOnSet(f, BotsOf(s))
  BY DEF LedgerMatchesAccount, Holding, BotsOf
<1>3. coins \in [Symbols -> Int]
  BY DEF LedgerInv, TypeOK
<1>4. /\ \A a \in Bots : a # b => g[a] = f[a]
      /\ coins' = [coins EXCEPT ![SymbolOf[b]] = @ + (g[b] - f[b])]
  OBVIOUS
<1>5. \A s \in Symbols : coins'[s] = SumFunctionOnSet(g, BotsOf(s))
  <2> HIDE DEF f, g
  <2> QED BY <1>1, <1>2, <1>3, <1>4, AccountFollows
<1> QED BY <1>5 DEF LedgerMatchesAccount, Holding, BotsOf

\* A bot whose ledger and fills a step leaves alone.
LEMMA SameHolding ==
    ASSUME LedgerInv, LedgerInv', NEW b \in Bots,
           trades'[b] = trades[b], FilledFor(tick', b) = FilledFor(tick, b),
           \A t \in FilledFor(tick, b) : Signed(tick'[t]) = Signed(tick[t])
    PROVE  Holding(b)' = Holding(b) /\ Holding(b) \in Int
<1>1. /\ Held(b) = HeldIn(trades[b]) /\ Held(b) \in Int /\ Moved(b) \in Int
      /\ \A t \in FilledFor(tick, b) : Moved(b) = Signed(tick[t])
      /\ FilledFor(tick, b) = {} => Moved(b) = 0
  BY HoldingNow
<1>2. /\ Held(b)' = HeldIn(trades'[b])
      /\ \A t \in FilledFor(tick', b) : Moved(b)' = Signed(tick'[t])
      /\ FilledFor(tick', b) = {} => Moved(b)' = 0
  BY HoldingNext
<1>3. Moved(b)' = Moved(b)
  BY <1>1, <1>2
<1> QED BY <1>1, <1>2, <1>3 DEF Holding

\* A step that fills nothing and records nothing leaves every holding alone.
LEMMA QuietAccount ==
    ASSUME LedgerInv, LedgerInv', LedgerMatchesAccount,
           UNCHANGED <<trades, coins>>,
           \A b \in Bots : /\ FilledFor(tick', b) = FilledFor(tick, b)
                           /\ \A t \in FilledFor(tick, b) : Signed(tick'[t]) = Signed(tick[t])
    PROVE  LedgerMatchesAccount'
<1>1. ASSUME NEW b \in Bots PROVE Holding(b)' = Holding(b) /\ Holding(b) \in Int
  BY SameHolding
<1>2. PICK b \in Bots : TRUE
  BY RunnerAssumption
<1>3. SymbolOf[b] \in Symbols => coins[SymbolOf[b]] \in Int
  BY DEF LedgerInv, TypeOK
<1>4. coins' = [coins EXCEPT ![SymbolOf[b]] = @ + (Holding(b)' - Holding(b))]
  BY <1>1, <1>3 DEF LedgerInv, TypeOK
<1> QED BY <1>1, <1>4, HoldingFollows

\* The tick whose order this is has filled nothing before.
LEMMA FillAccount ==
    ASSUME LedgerInv, LedgerInv', LedgerMatchesAccount,
           NEW t \in Ticks, tick[t].pc = "order", NEW filled \in Nat, Fill(t, filled),
           NEW new \in Tick, tick' = [tick EXCEPT ![t] = new],
           new.pc \in {"ack", "record"}, new.bot = tick[t].bot,
           new.side = tick[t].side, new.amount = filled, UNCHANGED trades
    PROVE  LedgerMatchesAccount'
<1> PICK b \in Bots : b = tick[t].bot
  BY DEF LedgerInv, TypeOK, Tick
<1>1. /\ tick'[t] = new
      /\ \A u \in Ticks : u # t => tick'[u] = tick[u]
      /\ \A u \in Ticks : Busy(u) /\ tick[u].bot = b => u = t
      /\ tick[t].side \in {"buy", "sell"}
  BY DEF LedgerInv, TypeOK, OneTickPerBot, Busy, Tick
<1>2. FilledFor(tick, b) = {} /\ FilledFor(tick', b) = {t}
  BY <1>1 DEF FilledFor, Busy
<1>3. ASSUME NEW a \in Bots, a # b PROVE Holding(a)' = Holding(a)
  <2>1. FilledFor(tick', a) = FilledFor(tick, a)
    BY <1>1, <1>3 DEF FilledFor
  <2>2. \A u \in FilledFor(tick, a) : tick'[u] = tick[u]
    BY <1>1, <1>3 DEF FilledFor
  <2> QED BY <2>1, <2>2, SameHolding
<1>4. Holding(b)' - Holding(b) = Signed(new) /\ Signed(new) \in Int
  <2>1. Held(b) = HeldIn(trades[b]) /\ Held(b) \in Int /\ Moved(b) = 0
    BY <1>2, HoldingNow
  <2>2. Held(b)' = HeldIn(trades'[b]) /\ Moved(b)' = Signed(tick'[t])
    BY <1>2, HoldingNext
  <2>3. Signed(new) \in Int
    BY DEF Signed, Tick
  <2> QED BY <1>1, <2>1, <2>2, <2>3 DEF Holding
<1>5. coins' = [coins EXCEPT ![SymbolOf[b]] = @ + (Holding(b)' - Holding(b))]
  <2> PICK s \in Symbols : s = SymbolOf[b]
    BY RunnerAssumption DEF Symbols, Range
  <2>1. coins[s] \in Nat
    BY DEF LedgerInv, TypeOK
  <2>2. coins' = [coins EXCEPT ![s] =
                    IF tick[t].side = "buy" THEN coins[s] + filled ELSE coins[s] - filled]
    BY DEF Fill
  <2>3. (IF tick[t].side = "buy" THEN coins[s] + filled ELSE coins[s] - filled)
          = coins[s] + Signed(new)
    BY <2>1 DEF Signed
  <2> QED BY <1>4, <2>2, <2>3
<1> QED BY <1>3, <1>5, HoldingFollows

\* A tick that ends without a fill.
LEMMA EndAccount ==
    ASSUME AccountInv, LedgerInv', NEW t \in Ticks, ~Filled(t),
           tick' = [tick EXCEPT ![t] = Idle], UNCHANGED <<trades, coins, lost>>
    PROVE  AccountInv'
<1>1. /\ tick'[t].pc = "idle"
      /\ \A u \in Ticks : u # t => tick'[u] = tick[u]
  BY IdleIsTick DEF AccountInv, LedgerInv, TypeOK
<1> SUFFICES ASSUME ~lost PROVE LedgerMatchesAccount' /\ SellsAll'
  BY DEF AccountInv
<1>2. \A b \in Bots : /\ FilledFor(tick', b) = FilledFor(tick, b)
                      /\ \A u \in FilledFor(tick, b) : Signed(tick'[u]) = Signed(tick[u])
  BY <1>1 DEF FilledFor, Filled
<1>3. LedgerMatchesAccount'
  BY <1>2, QuietAccount DEF AccountInv
<1>4. SellsAll'
  BY <1>1 DEF AccountInv, SellsAll, Ordering
<1> QED BY <1>3, <1>4

\* A tick that goes on without a fill: it orders, or its fill is answered.
LEMMA GoOnAccount ==
    ASSUME AccountInv, LedgerInv', NEW t \in Ticks, NEW new \in Tick,
           tick' = [tick EXCEPT ![t] = new], new.bot = tick[t].bot,
           \/ ~Filled(t) /\ new.pc \in {"value", "order"}
           \/ /\ Filled(t) /\ new.pc = "record"
              /\ new.side = tick[t].side /\ new.amount = tick[t].amount,
           new.pc # "value" /\ new.position.open => new.amount = new.position.amount \/ lost,
           UNCHANGED <<trades, coins, lost>>
    PROVE  AccountInv'
<1>1. /\ tick'[t] = new
      /\ \A u \in Ticks : u # t => tick'[u] = tick[u]
  BY DEF AccountInv, LedgerInv, TypeOK
<1> SUFFICES ASSUME ~lost PROVE LedgerMatchesAccount' /\ SellsAll'
  BY DEF AccountInv
<1>2. ASSUME NEW b \in Bots
      PROVE  /\ FilledFor(tick', b) = FilledFor(tick, b)
             /\ \A u \in FilledFor(tick, b) : Signed(tick'[u]) = Signed(tick[u])
  <2>1. ASSUME NEW u \in Ticks
        PROVE  /\ u \in FilledFor(tick', b) <=> u \in FilledFor(tick, b)
               /\ u \in FilledFor(tick, b) => Signed(tick'[u]) = Signed(tick[u])
    <3>1. CASE u = t
      BY <1>1, <3>1 DEF FilledFor, Filled, Signed
    <3>2. CASE u # t
      BY <1>1, <3>2 DEF FilledFor
    <3> QED BY <3>1, <3>2
  <2> QED BY <2>1 DEF FilledFor
<1>3. LedgerMatchesAccount'
  BY <1>2, QuietAccount DEF AccountInv
<1>4. SellsAll'
  BY <1>1 DEF AccountInv, SellsAll, Ordering
<1> QED BY <1>3, <1>4

(***************************************************************************)
(* Recording moves what the tick has filled from the order in flight to    *)
(* the ledger: a BUY opens a position of what it bought, a SELL closes the *)
(* position it sold.                                                       *)
(***************************************************************************)
LEMMA RecordAccount ==
    ASSUME AccountInv, LedgerInv', NEW t \in Ticks, Record(t)
    PROVE  AccountInv'
<1> USE DEF AccountInv
<1> PICK b \in Bots : b = tick[t].bot
  BY DEF LedgerInv, TypeOK, Tick
<1> PICK x : x = [side |-> tick[t].side, amount |-> tick[t].amount, price |-> tick[t].price]
  OBVIOUS
<1>1. /\ tick \in [Ticks -> Tick] /\ tick[t] \in Tick /\ Busy(t) /\ Filled(t) /\ Ordering(t)
      /\ trades \in [Bots -> Seq(TradeRow)]
      /\ trades' = [trades EXCEPT ![b] = Append(trades[b], x)]
      /\ tick' = [tick EXCEPT ![t] = Idle]
      /\ UNCHANGED <<coins, lost>>
  BY DEF Record, LedgerInv, TypeOK, Busy, Filled, Ordering
<1>2. /\ tick'[t].pc = "idle"
      /\ \A u \in Ticks : u # t => tick'[u] = tick[u]
      /\ \A u \in Ticks : Busy(u) /\ tick[u].bot = b => u = t
      /\ \A a \in Bots : a # b => trades'[a] = trades[a]
      /\ trades'[b] = Append(trades[b], x)
  BY <1>1, IdleIsTick DEF LedgerInv, OneTickPerBot
<1> SUFFICES ASSUME ~lost PROVE LedgerMatchesAccount' /\ SellsAll'
  BY <1>1
<1>3. ASSUME NEW a \in Bots, a # b PROVE Holding(a)' = Holding(a)
  <2>1. FilledFor(tick', a) = FilledFor(tick, a)
    BY <1>2, <1>3 DEF FilledFor
  <2>2. \A u \in FilledFor(tick, a) : tick'[u] = tick[u]
    BY <1>2, <1>3 DEF FilledFor
  <2>3. trades'[a] = trades[a]
    BY <1>2, <1>3
  <2> QED BY <2>1, <2>2, <2>3, SameHolding
<1>4. Holding(b)' = Holding(b) /\ Holding(b) \in Int
  <2>1. FilledFor(tick, b) = {t} /\ FilledFor(tick', b) = {}
    BY <1>1, <1>2, IdleIsTick DEF FilledFor, Filled, Busy
  <2>2. Held(b) \in Int /\ Moved(b) = Signed(tick[t]) /\ Moved(b) \in Int
    BY <2>1, HoldingNow
  <2>3. Held(b)' = HeldIn(trades'[b]) /\ Moved(b)' = 0
    BY <2>1, HoldingNext
  <2>4. Held(b)' = IF tick[t].side = "buy" THEN tick[t].amount ELSE 0
    <3>1. /\ trades'[b] # <<>>
          /\ trades'[b][Len(trades'[b])] = x
      <4>1. trades[b] \in Seq(TradeRow) /\ x \in TradeRow
        BY <1>1 DEF Tick, TradeRow
      <4> QED BY <1>2, <4>1
    <3> QED BY <2>3, <3>1 DEF HeldIn
  <2>5. tick[t].position = OpenPosition(b) /\ tick[t].amount \in Nat
    BY <1>1 DEF LedgerInv, Fresh, Tick
  <2>6. IF tick[t].side = "buy" THEN Held(b) = 0 ELSE Held(b) = tick[t].amount
    <3>1. IF OpenPosition(b).open
          THEN tick[t].side = "sell" /\ tick[t].amount = OpenPosition(b).amount
          ELSE tick[t].side = "buy"
      BY <1>1, <2>5 DEF LedgerInv, OrderFits, SellsAll
    <3>2. ~OpenPosition(b).open => OpenPosition(b).amount = 0
      BY DEF OpenPosition, NoPosition
    <3> QED BY <3>1, <3>2 DEF Held
  <2> QED BY <2>2, <2>3, <2>4, <2>5, <2>6 DEF Holding, Signed
<1>5. coins' = [coins EXCEPT ![SymbolOf[b]] = @ + (Holding(b)' - Holding(b))]
  BY <1>1, <1>4 DEF LedgerInv, TypeOK
<1>6. LedgerMatchesAccount'
  BY <1>3, <1>5, HoldingFollows
<1>7. SellsAll'
  BY <1>2 DEF SellsAll, Ordering
<1> QED BY <1>6, <1>7

LEMMA AccountInitial == Init => AccountInv
<1> SUFFICES ASSUME Init PROVE LedgerMatchesAccount /\ SellsAll
  BY LedgerInit DEF AccountInv
<1>1. \A t \in Ticks : ~Filled(t) /\ ~Ordering(t)
  BY IdleIsTick DEF Init, Filled, Ordering
<1>2. SellsAll
  BY <1>1 DEF SellsAll
<1>3. ASSUME NEW b \in Bots PROVE Held(b) + Moved(b) = 0
  <2>1. FilledFor(tick, b) = {} /\ trades[b] = <<>>
    BY <1>1 DEF FilledFor, Filled, Init
  <2>2. Held(b) = HeldIn(trades[b]) /\ Moved(b) = 0
    BY <2>1, LedgerInit, HoldingNow
  <2> QED BY <2>1, <2>2 DEF HeldIn
<1>4. ASSUME NEW s \in Symbols
      PROVE  coins[s] = SumFunctionOnSet([b \in Bots |-> Held(b) + Moved(b)], BotsOf(s))
  <2> DEFINE f == [b \in Bots |-> Held(b) + Moved(b)]
  <2>1. IsFiniteSet(BotsOf(s)) /\ \A b \in BotsOf(s) : f[b] = 0
    BY <1>3, FS_Subset, RunnerAssumption DEF BotsOf
  <2> HIDE DEF f
  <2>2. SumFunctionOnSet(f, BotsOf(s)) = 0
    BY <2>1, SumZero
  <2> QED BY <2>2 DEF Init, f
<1> QED BY <1>2, <1>4 DEF LedgerMatchesAccount, BotsOf

LEMMA DecideAccount ==
    ASSUME AccountInv, LedgerInv', NEW t \in Ticks, DecideSome(t)
    PROVE  AccountInv'
<1> PICK equity \in Equities, price \in Prices, signal \in Signals :
        Decide(t, equity, price, signal)
  BY DEF DecideSome
<1>1. LedgerInv /\ ~Filled(t) /\ UNCHANGED <<trades, coins, lost>>
  BY DEF AccountInv, Decide, Filled
<1>2. CASE tick' = [tick EXCEPT ![t] = Idle]
  BY <1>1, <1>2, EndAccount
<1>3. CASE tick' # [tick EXCEPT ![t] = Idle]
  <2>1. PICK new \in Tick :
            /\ tick' = [tick EXCEPT ![t] = new]
            /\ new.bot = tick[t].bot /\ new.position = tick[t].position
            /\ new.pc = "order"
            /\ IF new.position.open
               THEN new.side = "sell" /\ new.amount = new.position.amount
               ELSE new.side = "buy"
    BY <1>1, <1>3, DecideStep
  <2> QED BY <1>1, <2>1, GoOnAccount
<1> QED BY <1>2, <1>3

\* A live order loses something exactly when it is a SELL filled in part.
LEMMA LiveOrderLoss ==
    ASSUME NEW t \in Ticks, NEW filled \in Nat, tick[t].amount \in Nat, LiveOrder(t, filled)
    PROVE  /\ lost \/ (tick[t].side = "sell" /\ filled # tick[t].amount) <=> lost'
           /\ filled <= tick[t].amount
           /\ "partial" \notin Faults => filled = tick[t].amount
<1>1. /\ lost' = (lost \/ (tick[t].side = "sell" /\ filled < tick[t].amount))
      /\ filled <= tick[t].amount
      /\ filled = tick[t].amount \/ "partial" \in Faults
  BY DEF LiveOrder
<1>2. filled < tick[t].amount <=> filled # tick[t].amount
  BY <1>1
<1>3. lost \/ (tick[t].side = "sell" /\ filled < tick[t].amount) <=> lost'
  BY <1>1, Zenon
<1> QED BY <1>1, <1>2, <1>3

LEMMA OrderAccount ==
    ASSUME AccountInv, LedgerInv', NEW t \in Ticks,
           (\E price \in Prices : PaperOrder(t, price)) \/ LiveOrderSome(t)
    PROVE  AccountInv'
<1> USE DEF AccountInv
<1>1. /\ tick \in [Ticks -> Tick] /\ tick[t] \in Tick /\ tick[t].amount \in Nat
      /\ tick[t].position \in Position
  BY DEF LedgerInv, TypeOK, Tick
<1>2. ASSUME NEW price \in Prices, PaperOrder(t, price) PROVE AccountInv'
  <2> DEFINE new == [tick[t] EXCEPT !.pc = "record", !.price = price]
  <2>1. /\ new \in Tick /\ new.pc = "record" /\ new.bot = tick[t].bot
        /\ new.side = tick[t].side /\ new.amount = tick[t].amount
        /\ new.position = tick[t].position
    BY <1>1, RunnerAssumption DEF Tick
  <2>2. /\ tick[t].pc = "order" /\ tick' = [tick EXCEPT ![t] = new]
        /\ Fill(t, tick[t].amount) /\ UNCHANGED <<trades, lost>>
    BY <1>1, <1>2 DEF PaperOrder
  <2> HIDE DEF new
  <2> SUFFICES ASSUME ~lost PROVE LedgerMatchesAccount' /\ SellsAll'
    BY <2>2
  <2>3. LedgerMatchesAccount'
    BY <1>1, <2>1, <2>2, FillAccount
  <2>4. SellsAll'
    BY <1>1, <2>1, <2>2 DEF SellsAll, Ordering
  <2> QED BY <2>3, <2>4
<1>3. ASSUME NEW filled \in 0 .. MaxAmount, LiveOrder(t, filled) PROVE AccountInv'
  <2> DEFINE new == [tick[t] EXCEPT !.pc = "ack", !.amount = filled]
  <2>0. filled \in Nat
    BY RiskAssumption
  <2>1. /\ new \in Tick /\ new.pc = "ack" /\ new.bot = tick[t].bot
        /\ new.side = tick[t].side /\ new.amount = filled
        /\ new.position = tick[t].position
    BY <1>1, <2>0 DEF Tick
  <2>2. /\ tick[t].pc = "order" /\ tick' = [tick EXCEPT ![t] = new]
        /\ Fill(t, filled) /\ filled <= tick[t].amount /\ UNCHANGED trades
        /\ ~lost' => ~lost /\ (tick[t].side = "sell" => filled = tick[t].amount)
    <3>1. /\ tick[t].pc = "order" /\ tick' = [tick EXCEPT ![t] = new]
          /\ Fill(t, filled) /\ UNCHANGED trades
      BY <1>1, <1>3 DEF LiveOrder
    <3>2. /\ lost \/ (tick[t].side = "sell" /\ filled # tick[t].amount) <=> lost'
          /\ filled <= tick[t].amount
      BY <1>1, <1>3, <2>0, LiveOrderLoss
    <3> QED BY <3>1, <3>2
  <2> HIDE DEF new
  <2> SUFFICES ASSUME ~lost' PROVE LedgerMatchesAccount' /\ SellsAll'
    OBVIOUS
  <2>3. LedgerMatchesAccount'
    BY <2>0, <2>1, <2>2, FillAccount
  <2>4. SellsAll'
    <3>1. tick[t].position.open => tick[t].side = "sell" /\ tick[t].amount = tick[t].position.amount
      BY <2>2 DEF LedgerInv, OrderFits, SellsAll, Ordering
    <3> QED BY <1>1, <2>1, <2>2, <3>1 DEF SellsAll, Ordering
  <2> QED BY <2>3, <2>4
<1> QED BY <1>2, <1>3 DEF LiveOrderSome

\* A restart that loses nothing finds no order in flight.
LEMMA CrashAccount ==
    ASSUME AccountInv, LedgerInv', Crash
    PROVE  AccountInv'
<1> SUFFICES ASSUME ~lost' PROVE LedgerMatchesAccount' /\ SellsAll'
  BY DEF AccountInv
<1>1. /\ ~lost /\ UNCHANGED <<trades, coins>>
      /\ \A t \in Ticks : ~Filled(t)
      /\ \A t \in Ticks : tick'[t].pc = "idle"
  BY IdleIsTick DEF Crash
<1>2. \A b \in Bots : FilledFor(tick, b) = {} /\ FilledFor(tick', b) = {}
  BY <1>1 DEF FilledFor, Filled
<1>3. LedgerMatchesAccount'
  BY <1>1, <1>2, QuietAccount DEF AccountInv
<1> QED BY <1>1, <1>3 DEF SellsAll, Ordering

LEMMA AccountStep == AccountInv /\ [Next]_vars => AccountInv'
<1> SUFFICES ASSUME AccountInv, [Next]_vars PROVE AccountInv'
  OBVIOUS
<1> LedgerInv'
  BY LedgerStep DEF AccountInv
<1>1. ASSUME NEW t \in Ticks, TickStep(t) PROVE AccountInv'
  <2>1. CASE \E b \in Bots : MayTrade(b) /\ StartTick(t, b)
    <3> PICK b \in Bots : StartTick(t, b)
      BY <2>1
    <3> DEFINE new == [IdleTick(b) EXCEPT !.pc = "value", !.position = OpenPosition(b)]
    <3>1. /\ tick' = [tick EXCEPT ![t] = new] /\ ~Busy(t)
          /\ UNCHANGED <<trades, coins, lost>> /\ tick' \in [Ticks -> Tick]
          /\ tick \in [Ticks -> Tick]
      BY DEF StartTick, AccountInv, LedgerInv, TypeOK
    <3>2. tick'[t] = new /\ new.pc = "value" /\ ~Filled(t)
      BY <3>1 DEF IdleTick, Filled, Busy
    <3>3. \A u \in Ticks : u # t => tick'[u] = tick[u]
      BY <3>1
    <3> HIDE DEF new
    <3> SUFFICES ASSUME ~lost PROVE LedgerMatchesAccount' /\ SellsAll'
      BY <3>1 DEF AccountInv
    <3>4. \A c \in Bots : /\ FilledFor(tick', c) = FilledFor(tick, c)
                          /\ \A u \in FilledFor(tick, c) : Signed(tick'[u]) = Signed(tick[u])
      BY <3>2, <3>3 DEF FilledFor, Filled
    <3>5. LedgerMatchesAccount'
      BY <3>1, <3>4, QuietAccount DEF AccountInv
    <3>6. SellsAll'
      BY <3>2, <3>3 DEF AccountInv, SellsAll, Ordering
    <3> QED BY <3>5, <3>6
  <2>2. CASE GiveUp(t)
    BY <2>2, EndAccount DEF GiveUp, Filled
  <2>3. CASE DecideSome(t)
    BY <2>3, DecideAccount
  <2>4. CASE (\E price \in Prices : PaperOrder(t, price)) \/ LiveOrderSome(t)
    BY <2>4, OrderAccount
  <2>5. CASE LiveAckSome(t)
    <3> PICK price \in Prices \cup {0} : LiveAck(t, price)
      BY <2>5 DEF LiveAckSome
    <3> DEFINE new == [tick[t] EXCEPT !.pc = "record", !.price = price]
    <3>1. tick \in [Ticks -> Tick] /\ tick[t] \in Tick /\ price \in Nat
      BY RunnerAssumption DEF AccountInv, LedgerInv, TypeOK
    <3>2. /\ new \in Tick /\ new.pc = "record" /\ new.bot = tick[t].bot
          /\ new.side = tick[t].side /\ new.amount = tick[t].amount
          /\ new.position = tick[t].position
      BY <3>1 DEF Tick
    <3>3. /\ tick[t].pc = "ack" /\ tick' = [tick EXCEPT ![t] = new]
          /\ UNCHANGED <<trades, coins, lost>>
      BY <3>1 DEF LiveAck
    <3> HIDE DEF new
    <3>4. new.position.open => new.amount = new.position.amount \/ lost
      BY <3>2, <3>3 DEF AccountInv, SellsAll, Ordering
    <3> QED BY <3>2, <3>3, <3>4, GoOnAccount DEF Filled
  <2>6. CASE LiveAckLost(t) \/ RecordFails(t)
    BY <2>6 DEF LiveAckLost, RecordFails, AccountInv
  <2>7. CASE Record(t)
    BY <2>7, RecordAccount
  <2> QED BY <1>1, <2>1, <2>2, <2>3, <2>4, <2>5, <2>6, <2>7 DEF TickStep
<1>2. CASE (\E b \in Bots : DeleteBot(b)) \/ NextDay \/ UNCHANGED vars
  <2>1. UNCHANGED <<trades, coins, tick, lost>>
    BY <1>2 DEF DeleteBot, NextDay, vars
  <2>2. LedgerMatchesAccount => LedgerMatchesAccount'
    BY <2>1, QuietAccount DEF AccountInv
  <2> QED BY <2>1, <2>2 DEF AccountInv, SellsAll, Ordering
<1>3. CASE Crash
  BY <1>3, CrashAccount
<1> QED BY <1>1, <1>2, <1>3 DEF Next

(***************************************************************************)
(* Up to the first fill that one of the named failures takes from the      *)
(* ledger (a restart, a lost answer, a failed commit, a partly filled      *)
(* SELL), the account holds for every symbol what the ledgers of its bots  *)
(* say, up to orders in flight (README.md:16): for any number of bots that *)
(* share symbols, any interleaving of their ticks, and both modes.         *)
(***************************************************************************)
THEOREM LedgersMatchUntilLoss == Spec => []LedgerMatchesUntilLoss
<1>1. AccountInv => LedgerMatchesUntilLoss
  BY DEF AccountInv, LedgerMatchesUntilLoss
<1> QED BY <1>1, AccountInitial, AccountStep, PTL DEF Spec

\* Where none of those failures can happen, nothing is lost.
NothingLost == ~lost /\ \A b \in Bots : row[b]

LEMMA NothingLostStep ==
    ASSUME Faults \subseteq {"noprice"}, LedgerInv, NothingLost, [Next]_vars
    PROVE  NothingLost'
<1>1. ASSUME NEW t \in Ticks, TickStep(t) PROVE NothingLost'
  <2>0. tick[t].bot \in Bots /\ tick[t].amount \in Nat
    BY DEF LedgerInv, TypeOK, Tick
  <2>1. ASSUME NEW filled \in 0 .. MaxAmount, LiveOrder(t, filled) PROVE NothingLost'
    <3>0. 0 .. MaxAmount \subseteq Nat /\ "partial" \notin Faults
      BY RiskAssumption
    <3>1. filled \in Nat /\ UNCHANGED row
      BY <2>1, <3>0 DEF LiveOrder
    <3>2. lost \/ (tick[t].side = "sell" /\ filled # tick[t].amount) <=> lost'
      BY <2>0, <2>1, <3>0, <3>1, LiveOrderLoss
    <3>3. filled = tick[t].amount
      BY <2>0, <2>1, <3>0, <3>1, LiveOrderLoss
    <3> QED BY <3>1, <3>2, <3>3 DEF NothingLost
  <2>2. ~LiveAckLost(t) /\ ~RecordFails(t)
    BY <2>0 DEF LiveAckLost, RecordFails, NothingLost
  <2>3. CASE \E b \in Bots : MayTrade(b) /\ StartTick(t, b)
    BY <2>3 DEF StartTick, NothingLost
  <2>4. CASE GiveUp(t) \/ Record(t)
    BY <2>4 DEF GiveUp, Record, NothingLost
  <2>5. CASE DecideSome(t)
    <3>1. UNCHANGED <<row, lost>>
      BY <2>5 DEF DecideSome, Decide
    <3> QED BY <3>1 DEF NothingLost
  <2>6. CASE \E price \in Prices : PaperOrder(t, price)
    BY <2>6 DEF PaperOrder, NothingLost
  <2>7. CASE LiveAckSome(t)
    BY <2>7 DEF LiveAckSome, LiveAck, NothingLost
  <2> QED BY <1>1, <2>1, <2>2, <2>3, <2>4, <2>5, <2>6, <2>7 DEF TickStep, LiveOrderSome
<1>2. ~Crash /\ \A b \in Bots : ~DeleteBot(b)
  BY DEF Crash, DeleteBot
<1>3. CASE NextDay \/ UNCHANGED vars
  BY <1>3 DEF NextDay, vars, NothingLost
<1> QED BY <1>1, <1>2, <1>3 DEF Next

(***************************************************************************)
(* "can't desync" (README.md:16) holds of every state, in both modes, as   *)
(* long as the process and the database stay up, no bot is deleted, and    *)
(* the exchange answers every order and fills it whole.                    *)
(***************************************************************************)
THEOREM LedgersMatchAccount ==
    ASSUME Faults \subseteq {"noprice"} PROVE Spec => []LedgerMatchesAccount
<1>1. Init => AccountInv /\ NothingLost
  BY AccountInitial DEF Init, NothingLost
<1>2. AccountInv /\ NothingLost /\ [Next]_vars => AccountInv' /\ NothingLost'
  BY AccountStep, NothingLostStep DEF AccountInv
<1>3. AccountInv /\ NothingLost => LedgerMatchesAccount
  BY DEF AccountInv, NothingLost
<1> QED BY <1>1, <1>2, <1>3, PTL DEF Spec

----------------------------------------------------------------------------
\* A decision trips the breaker or leaves it closed; an order follows only
\* when it is closed after the check.
LEMMA DecideHalt ==
    ASSUME HaltInv, NEW t \in Ticks, NEW equity \in Equities,
           NEW price \in Prices, NEW signal \in Signals,
           Decide(t, equity, price, signal)
    PROVE  StillTripped' /\ ClosedBreaker'
<1> USE DEF HaltInv
<1> PICK b \in Bots : b = tick[t].bot
  BY DEF LedgerInv, TypeOK, Tick
<1> PICK r \in RiskState : r = CheckDrawdown(risk[b], today, equity)
  BY DecideStep
<1>1. /\ Busy(t)
      /\ risk' = [risk EXCEPT ![b] = r]
      /\ today' = today
      /\ tripped' = [tripped EXCEPT ![b] = IF risk'[b].halted THEN today ELSE @]
      /\ risk \in [Bots -> RiskState] /\ tripped \in [Bots -> Nat]
      /\ tick \in [Ticks -> Tick] /\ today \in Nat /\ equity \in Nat
  BY DecideStep, RunnerAssumption DEF LedgerInv, TypeOK
<1>2. risk'[b] = r /\ \A c \in Bots : c # b => risk'[c] = risk[c] /\ tripped'[c] = tripped[c]
  BY <1>1
<1>3. r.day = today /\ (risk[b].day = today /\ risk[b].halted => r.halted)
  BY <1>1, CheckDrawdownDay
<1>4. StillTripped'
  <2> SUFFICES ASSUME NEW c \in Bots
               PROVE  /\ tripped'[c] <= today
                      /\ tripped'[c] = today => risk'[c].day = today /\ risk'[c].halted
    BY <1>1 DEF StillTripped
  <2>1. CASE c # b
    BY <1>2, <2>1 DEF StillTripped
  <2>2. CASE c = b
    <3>1. tripped'[b] = IF r.halted THEN today ELSE tripped[b]
      BY <1>1, <1>2
    <3>2. tripped[b] <= today /\ (tripped[b] = today => r.halted)
      BY <1>3 DEF StillTripped
    <3> QED BY <1>1, <1>2, <1>3, <2>2, <3>1, <3>2
  <2> QED BY <2>1, <2>2
<1>5. ClosedBreaker'
  <2> SUFFICES ASSUME NEW u \in Ticks, Ordering(u)'
               PROVE  ~risk'[tick'[u].bot].halted
    BY DEF ClosedBreaker
  <2>1. CASE u = t
    <3>1. tick' # [tick EXCEPT ![t] = Idle]
      BY <1>1, <2>1, IdleIsTick DEF Ordering
    <3>2. /\ ~risk'[b].halted
          /\ \E new \in Tick : tick' = [tick EXCEPT ![t] = new] /\ new.bot = b
      BY <3>1, DecideStep
    <3> QED BY <1>1, <2>1, <3>2
  <2>2. CASE u # t
    <3>1. tick'[u] = tick[u] /\ Ordering(u) /\ Busy(u)
      BY <1>1, <2>2, DecideStep DEF Ordering, Busy
    <3>2. tick[u].bot # b /\ tick[u].bot \in Bots
      BY <1>1, <2>2, <3>1 DEF LedgerInv, OneTickPerBot, Tick
    <3> QED BY <1>2, <3>1, <3>2 DEF ClosedBreaker
  <2> QED BY <2>1, <2>2
<1> QED BY <1>4, <1>5

\* Steps that leave the breakers alone and put no further order under way.
LEMMA QuietHalt ==
    ASSUME HaltInv, UNCHANGED <<risk, tripped>>, today' \in Nat, today' >= today,
           \A t \in Ticks : Ordering(t)' => Ordering(t) /\ tick'[t].bot = tick[t].bot
    PROVE  StillTripped' /\ ClosedBreaker'
<1>1. tripped \in [Bots -> Nat] /\ today \in Nat
  BY DEF HaltInv, LedgerInv, TypeOK
<1>2. StillTripped'
  <2> SUFFICES ASSUME NEW b \in Bots
               PROVE  /\ tripped[b] <= today'
                      /\ tripped[b] = today' => risk[b].day = today' /\ risk[b].halted
    BY DEF StillTripped
  <2>1. /\ tripped[b] <= today /\ tripped[b] \in Nat
        /\ tripped[b] = today => risk[b].day = today /\ risk[b].halted
    BY <1>1 DEF HaltInv, StillTripped
  <2> QED BY <1>1, <2>1
<1>3. ClosedBreaker'
  BY DEF HaltInv, ClosedBreaker
<1> QED BY <1>2, <1>3

LEMMA HaltStep ==
    ASSUME "crash" \notin Faults, HaltInv, [Next]_vars
    PROVE  HaltInv'
<1>1. LedgerInv' /\ LedgerInv /\ today \in Nat /\ tick \in [Ticks -> Tick]
  BY LedgerStep DEF HaltInv, LedgerInv, TypeOK
<1>2. ASSUME NEW t \in Ticks, TickStep(t) PROVE StillTripped' /\ ClosedBreaker'
  <2>1. CASE \E b \in Bots : MayTrade(b) /\ StartTick(t, b)
    BY <1>1, <2>1, QuietHalt DEF StartTick, Ordering, IdleTick
  <2>2. CASE GiveUp(t)
    BY <1>1, <2>2, QuietHalt, IdleIsTick DEF GiveUp, Ordering
  <2>3. CASE DecideSome(t)
    BY <2>3, DecideHalt DEF DecideSome
  <2>4. CASE \E price \in Prices : PaperOrder(t, price)
    BY <1>1, <2>4, QuietHalt DEF PaperOrder, Ordering
  <2>5. CASE LiveOrderSome(t)
    BY <1>1, <2>5, QuietHalt DEF LiveOrderSome, LiveOrder, Ordering
  <2>6. CASE LiveAckSome(t)
    BY <1>1, <2>6, QuietHalt DEF LiveAckSome, LiveAck, Ordering
  <2>7. CASE LiveAckLost(t)
    BY <1>1, <2>7, QuietHalt, IdleIsTick DEF LiveAckLost, Ordering
  <2>8. CASE Record(t)
    BY <1>1, <2>8, QuietHalt, IdleIsTick DEF Record, Ordering
  <2>9. CASE RecordFails(t)
    BY <1>1, <2>9, QuietHalt, IdleIsTick DEF RecordFails, Ordering
  <2> QED BY <1>2, <2>1, <2>2, <2>3, <2>4, <2>5, <2>6, <2>7, <2>8, <2>9 DEF TickStep
<1>3. ASSUME NEW b \in Bots, DeleteBot(b) PROVE StillTripped' /\ ClosedBreaker'
  BY <1>1, <1>3, QuietHalt DEF DeleteBot, Ordering
<1>4. CASE NextDay
  BY <1>1, <1>4, QuietHalt DEF NextDay, Ordering, HaltInv
<1>5. CASE UNCHANGED vars
  BY <1>1, <1>5, QuietHalt DEF vars, Ordering, HaltInv
<1>6. ~Crash
  BY DEF Crash
<1> QED BY <1>1, <1>2, <1>3, <1>4, <1>5, <1>6 DEF Next, HaltInv

(***************************************************************************)
(* A tripped breaker keeps a bot's orders away until midnight, under every *)
(* fault but a restart of the worker (risk.py:42-53,                       *)
(* strategy_runner.py:85-96).                                              *)
(***************************************************************************)
THEOREM HaltLastsTheDay ==
    ASSUME "crash" \notin Faults
    PROVE  Spec => []HaltedUntilTomorrow
<1>1. Init => HaltInv
  <2> SUFFICES ASSUME Init PROVE HaltInv
    OBVIOUS
  <2>1. LedgerInv
    BY LedgerInit
  <2> QED BY <2>1, IdleIsTick DEF Init, HaltInv, StillTripped, ClosedBreaker, Ordering
<1>2. HaltInv /\ [Next]_vars => HaltInv'
  BY HaltStep
<1>3. HaltInv => HaltedUntilTomorrow
  BY DEF HaltInv, LedgerInv, TypeOK, Tick, StillTripped, ClosedBreaker, HaltedUntilTomorrow
<1> QED BY <1>1, <1>2, <1>3, PTL DEF Spec
=============================================================================
