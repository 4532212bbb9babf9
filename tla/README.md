# TradeSentinel in TLA+

TLA+ models of the TradeSentinel backend (`src/backend/app`): what its bots,
their worker, the trade ledger, the paper account, the bot endpoints, sessions
and the live feed do when requests, ticks, polls, broadcasts and crashes
interleave, and what a backtest reports. TLC checks the models on small
instances; the TLA+ proof system (TLAPS) proves the main safety properties for
all values of the constants. `PROJECT.json` maps every definition to the lines
it translates, lists the runs, the hazards they are aimed at, the mutants each
property catches and the theorems.

Paths like `strategy_runner.py:77` are relative to the obvious directory of
`src/backend/app` (`workers/`, `services/`, `services/exchange/`, `api/v1/`,
`models/`, `core/`) or of `src/frontend/src`; `README.md:16` is the repository's own
README.

## 1. The system

Two Python processes share a Postgres database, and a Redis channel:

- the **API** (`main.py`): FastAPI handlers, all in one event loop;
- the **worker** (`python -m app.workers.scheduler`): APScheduler, with one job per
  active bot and one job that reconciles the jobs with the `bots` table.

Neither calls the other. The API writes `bots`; the worker reads it every 15
seconds and writes `trades`; ticks are published on Redis for the dashboard.

**At this commit the worker does not start.** `strategy_runner.py:23` imports `Signal`
from `services/exchange/base.py`, which does not define it (it is in
`services/strategies/base.py`), and `scheduler.py:22` imports `strategy_runner`: the
process ends with an ImportError, although `README.md:78` says that `docker-compose up`
starts it. No test imports the worker. `StrategyRunner`, `Scheduler` and `BotService`
model the worker as its authors mean it, with `Signal` from `strategies/base.py`.

| part | state | operations | how it interacts | hard behaviour |
|---|---|---|---|---|
| RiskManager (`services/risk.py`) | day, day-start equity, halt flag, per bot, in memory | `check_drawdown`, `evaluate` | called by the tick and by the backtest | midnight between calls, limits, restarts |
| Tick (`workers/strategy_runner.py`) | none across ticks but the risk managers | `run_bot_tick` | reads the ledger, asks the exchange, strategy and risk manager, orders, records | an await at every step, ticks of other bots, crash or failure between fill and commit |
| Trade ledger (`models.py:72-86`) | rows per bot, by time | `_record_trade`, `_get_open_position` | the only durable record of positions | must stay in step with the account |
| Scheduler (`workers/scheduler.py`) | jobs and their timers, in memory | `main`, `reconcile`, job starts | polls `bots.is_active` | stale query results, two reconcile coroutines, failures, restarts |
| Bot endpoints (`api/v1/routes_bots.py`) | rows of `bots` | create, start, pause, stop, delete, list, get | the worker sees the result | concurrent requests between load and commit |
| PaperExchange (`services/exchange/paper.py`) | balances, in memory, one account for all bots | `place_market_order`, `get_portfolio_value`, tickers | called by ticks | valuation across awaits, shared cash |
| LiveExchange (`services/exchange/live.py`) | none; the exchange's account | same interface | calls the real exchange | lost answers, partial fills, missing prices |
| Worker start-up | imported modules | the import statements | | a failing import ends the process |
| Live feed (`ws_manager.py`, `routes_ws.py`) | set of connections, listener task | connect, disconnect, broadcast, publish | Redis to browsers | connections that change during a broadcast, sends that fail |
| Sessions (`routes_auth.py`, `deps.py`, `security.py`) | `users`, `refresh_tokens`; tokens at the clients | register, login, refresh, logout | guards the endpoints | concurrent registration, login against logout, expiry |
| Backtest (`services/backtest.py`) | cash, position, risk manager, curve, for one call | `run_backtest` | uses strategies and RiskManager | calendar day against simulated time, running figures |
| Strategies (`services/strategies/`) | none | `decide` | called by tick and backtest | boundary values |
| Dashboard (`frontend/`) | tick list, connection | `useLiveFeed` | WebSocket | reconnects, frames under way |
| Notifier, market endpoints, metrics, logging, config, schemas, migrations, containers | | | | no protocol of their own |

What makes each part correct:

- **RiskManager**: the breaker is tripped exactly when a reading of the day lost the
  limit; nothing is approved then; an approved BUY respects the position limit; a
  halt ends.
- **Tick and ledger**: a bot's ledger is a sequence of round trips; a position that
  was read before the awaits is still the open one when the order is placed; a
  halt lasts the day; ledger and account agree.
- **Scheduler**: edits of the bots take effect; the jobs become the active bots and
  stay so; stopped bots fall silent; scheduled bots keep ticking whatever the
  polls do.
- **Bot endpoints**: only the owner changes a bot; a bot with trades stays; a deleted
  bot stays deleted; the two columns `is_active` and `status` agree; calls follow
  the lifecycle of the tests.
- **PaperExchange**: no overdraft; trades cost their fee; a valuation is something
  the account was really worth, or errs by no more than what was traded meanwhile.
- **Sessions**: one account per address; every refresh token has its row; renewals
  end with the row; a logout revokes every session there was, and only its
  user's.
- **Live feed**: a connection gets every message from its joining on, once and in
  order, which holds of finished broadcasts only, since the listener may die in one;
  dashboards show ticks in order; what was queued arrives as long as the listener lives.
- **Backtest**: the report's figures agree; no trade is made while trading is halted,
  and a halt is due to the day it falls on (it is not: `BacktestDays`); the drawdown is
  the worst of the curve; a grid sells with a gain only.

The complete list of what is hard to test, line by line, is `hazards` in
`PROJECT.json`.

## 2. Modules

| module | models | uses |
|---|---|---|
| `RiskRules` | the rules of `risk.py` as operators on a risk record | |
| `RiskManager` | one manager under any sequence of calls and midnights | EXTENDS `RiskRules` |
| `StrategyRunner` | `run_bot_tick` for several bots, ledger, account, faults | EXTENDS `RiskRules` |
| `BotLifecycle` | abstract: the life of a bot, one step per call | |
| `BotApi` | the endpoints over the `bots` table, split at round trips | INSTANCE `BotLifecycle` |
| `Scheduler` | the worker's jobs and reconcile coroutines | |
| `BotService` | API and worker together | EXTENDS `BotApi`, INSTANCE `Scheduler` |
| `PaperExchange` | the simulated account and its valuation | |
| `AuthSessions` | the handlers of `routes_auth.py` over their two tables, tokens, the clock | |
| `LiveFeed` | publisher, Redis queue, listener, connections, the dashboards' hooks | |
| `Backtest` | `run_backtest` with the grid strategy or any other | EXTENDS `RiskRules` |
| `MC*` | small instances for TLC | |
| `*Proofs` | theorems and proofs; those on `BotApi` and `Scheduler` are in `BotServiceProofs` | EXTENDS the module of that name |
| `SharedLemmas` | lemmas on the risk rules and on sums over finite sets | EXTENDS `RiskRules` |

### How state and actions correspond to the code

**RiskRules / RiskManager.** `RiskState` is the dataclass's mutable part; day 0 is the
`None` of a fresh manager. `CheckDrawdown`, `RollDay` and `Evaluate` follow the
methods' early returns in order. Percentages are compared by
cross-multiplication. A strategy's confidence only scales an order down, so
`SizedAmounts` is every positive amount within the limit. `readings` is history: it lets
`HaltExactly` say what the breaker should know without using the breaker's own
fields.

**StrategyRunner.** A tick moves through `value` (position read, waiting for candles
and portfolio value), `order` (decision taken), `ack` (live order executed, answer
under way) and `record` (waiting for the commit). Everything between two awaits is
one action: `Decide` is the drawdown check, the halt, the strategy, `evaluate` and
the choice of the order (`strategy_runner.py:86-134`). Which signal a strategy gives
and which portfolio value is read are arbitrary. `GiveUp` is every early return or
exception before an order is executed. The faults in the constant `Faults` switch
on `Crash`, a failing commit, `DeleteBot`, partial fills, unreported prices and lost
answers. `coins` is the account's base-asset balance: it survives a crash in live
mode and not in paper mode (`paper.py:27`). `tripped` and `lost` are
history: `lost` says whether a fill has been lost to the ledger, by a restart with an
order in flight (or, in paper mode, with coins), a lost answer, a failed commit or a
SELL that was filled in part.
Trades are appended in commit order, which is the order of `executed_at` as long as
the clock does not step back.

**BotApi.** A handler loads the caller's bot (`Load`, with the ownership filter and
pause's check of the status), commits (`CommitUpdate`, `CommitStale`, `CommitDelete`) and
refreshes. The handler remembers the columns as loaded, because SQLAlchemy's
UPDATE contains only the columns that differ from them (`Written`). An UPDATE of a
row that is gone raises; a DELETE of one does not. The foreign key of `trades`
protects a bot that has traded.

**Scheduler.** `Elapse` lets 15 seconds pass: due jobs start, the reconcile job among
them, unless an instance is still running (`max_instances` is 1). `Read` is the
answer of the query, `Apply` the rest of `reconcile`; the two are separate since the
result is applied after an await. `wait` counts the cycles to a bot's next tick.
`applied` and `edits` are history. `SlowBoot` says whether `main`'s own first
`reconcile` may outlast an interval.

**BotService.** `ActiveBots`, computed from the table of `BotApi`, is substituted for the
`active` of `Scheduler`. The steps of `BotApi` count the edits; ticks in flight may
record trades.

**PaperExchange.** Prices are whole, cash is in thousandths, so that 0.1 % is exact.
An order is one action, because no balance is read before its only await.
`get_portfolio_value` is one action per asset. `lo`, `hi`, `traded`, `steady` and `whole`
are history: the least and the greatest worth of the account during the call, what
orders turned over meanwhile, whether no price moved and whether no lookup failed.
`ValueRaises` is Python's RuntimeError for a dict that grew under its
iterator, and `raised` counts them for each caller: a balance once entered stays in the
dict, so that a caller cannot fail this way as often as there are assets
(`RaisesAreFew`).

**AuthSessions.** A handler is split at its database round trips: `Register` is the check
for the address, `InsertUser` the commit; `Login` mints the tokens, `IssueTokenPair`
commits the session's row and answers; `Refresh` and `MintAccess` lie on both sides of
the SELECT of the user; `Logout` is `get_current_user`, `LoadSessions` the SELECT of the
sessions and `Revoke` the commit. `CommitFails` is a commit that raises, the unique violation
included. A token is its claims (type, subject, expiry): two tokens minted for a user
in one unit of time are the same. The row of a session has a `jti` of its own that is
not in the token (`routes_auth.py:41-47`), so that it is found by user and expiry.
`tokens` is what clients hold, and clients may use any of them at any time. Requests
that are refused without a write have no step. `count` and `ended` are history: which
rows there were when a logout began.

**LiveFeed.** `Take` starts a broadcast, and `Sent` and `SendFails` are the two ways an
`await ws.send_text` ends, each with the rest of the loop (`Loop`) up to the next send.
Python checks at each step of the iteration whether the set's size has changed;
if so, RuntimeError ends the listener task (`dead`), for good, since only `startup` makes
one. If members left and joined in equal number the loop goes on: old members that are
still there are visited, new ones may be. `Join` is the `add` behind the await of
`accept`; `Disconnect` the `discard` of the endpoint, some time after the browser has
closed. `Connect`, `Close` and `Receive` are the hook. Messages are numbered in the order
Redis hands them over. `got` and `since` are history: what was sent on a connection,
and from which message on it was in the set. `NoGapsWhileListening` speaks of finished
broadcasts: one that ends in a RuntimeError is lost for the connections yet to be served,
and so is all that follows, for everyone. That the code's documents promise more is what
`FeedDies` shows.

**Backtest.** One action, `Candle`, is the body of the loop: `CheckDrawdown` and `Evaluate` are
the operators of `RiskRules`, the same that the runner uses, as the code uses the same
class. The strategy is `grid`, computed by `GridDecide`, or `any`, for which every signal is
possible. `_roll_day_if_needed` reads `date.today()` at every candle, the date on which the backtest
is run: `today` here, which moves on at `Midnight`, between any two candles. `dates` is
history: the date each candle was run on. The days of the history are groups of
`CandlesPerDay` candles (`DayOf`), which the code never looks at. `curve` is the equity
curve; a trade's timestamp is the position of its candle in that curve.

## 3. Runs

Passing:

| run | instance | distinct states | shows |
|---|---|---|---|
| `RiskManager` | equities 0, 950, 1000; prices 94, 97, 100, 106; 2 days, 3 checks a day | 99,920 | the breaker is exact (`HaltExactly`), approvals respect breaker and limit (`ApprovedWithinLimits`), halts end (`HaltLifts`) |
| `RunnerPaper` | 2 bots, one symbol, 2 ticks in flight, 2 days, 3 rows a bot, no faults | about 34,500 | halts last the day, ledger and account agree at every moment |
| `RunnerFaults` | the same in live mode on one day, all six faults, one crash | about 567,000 | round trips and no stale position in spite of every fault; ledger and account agree up to the first fill that is lost |
| `BotApiRaces` | 1 bot, 2 users, 3 concurrent requests | 554,333 | ownership, foreign key and deletion survive every race; a request that was not raced leaves the row as it should, whatever earlier races did to it |
| `Scheduler` | 2 bots, ticks every 2nd cycle, 3 edits, 1 crash, failing queries, slow boot allowed | 22,094 | convergence, silence of stopped bots, ticking of scheduled ones |
| `ServiceSerial` | 2 bots, 1 user, 1 request at a time, 3 edits, 1 crash | 95,086 | the endpoints implement `BotLifecycle`; the columns agree; a poll gives jobs to exactly the bots whose status is running, and the worker follows the status |
| `PaperAccount` | 2 coins, amounts and prices 1 to 2, cash for one order of 4 but not for its fee, a valuation, failing lookups | 181,510 | no overdraft, trades cost their fee, a torn valuation errs by no more than was traded meanwhile, valuations fail fewer times than there are assets |
| `AuthRaces` | 2 addresses, 2 requests in flight, 2 sessions, 4 units of time | 619,842 | accounts are unique, sessions listed, renewals end, a logout revokes all sessions of its user and no others |
| `LiveFeed` | 2 dashboards, one of which may reconnect, 3 messages, 2 ticks kept, one restart | 169,908 | no gaps in finished broadcasts, no repetitions on a connection, ticks in order; queued messages arrive while the listener lives |
| `Backtest` | closes 40 to 140, 6 candles, 2 dates, a grid from 40 to 120 with 4 levels, or any strategy | 1,252,623 | the report balances, no trade on the rest of a date after a breach, the drawdown is the worst, a grid never sells at a loss |

(With symmetry, the number of states TLC counts varies slightly.)

Violations, each a disagreement between the code and what its documents say
(`findings` in `PROJECT.json` quotes them):

| run | property | what happens |
|---|---|---|
| `RunnerLiveCrash` | `LedgerMatchesAccount` | a crash between a live fill and its ledger row; `README.md:16` says a crash cannot desync the two |
| `ServiceRace` | `StatusSilences` | a start and a stop of a paused bot at the same time leave it stopped and active: it ticks for ever |

More counterexamples can be reproduced with configurations that are not among
the runs. Each violates its property:

| configuration | module | property |
|---|---|---|
| `RiskManagerStopLoss` | `MCRiskManager` | `StopLossIndependent`: stop-loss only labels a SELL the strategy asks for (`risk.py:76`) |
| `RunnerPaperCrash` | `MCStrategyRunner` | `LedgerMatchesAccount`: the paper account does not survive a restart |
| `RunnerHaltCrash` | `MCStrategyRunner` | `HaltedUntilTomorrow`: a restart forgets the halt (`strategy_runner.py:32-35` calls that safe) |
| `RunnerLiveTimeout` | `MCStrategyRunner` | `LedgerMatchesAccount`: a lost answer is recorded as a rejection |
| `RunnerLivePartial` | `MCStrategyRunner` | `LedgerMatchesAccount`: a partly filled SELL closes the position |
| `RunnerDelete` | `MCStrategyRunner` | `LedgerMatchesAccount`: a bot deleted during its first tick |
| `RunnerBotMode` | `MCStrategyRunner` | `OrdersFollowBotMode`: the `mode` column of a bot is never looked at |
| `BotApiStopRace` | `MCBotApi` | `StoppedIsInactive` |
| `BotApiPauseRace` | `MCBotApi` | `PausedOnlyWhileRunning` |
| `BotApiActiveDoc` | `MCBotApi` | `ActiveUnlessStopped`: a paused bot is inactive, `models.py:64` says otherwise |
| `SchedulerSlowBoot` | `MCScheduler` | `EditsTakeEffect`, when `main`'s reconcile outlasts an interval; the next poll repairs it |
| `PaperTickerFault` | `MCPaperExchange` | `ValueIsCurrent`: an asset whose lookup fails counts as nothing |
| `PaperTornValue` | `MCPaperExchange` | `ValueIsCurrent`: a valuation that another bot's order interrupts returns a value the account never had (`risk.py:43` wants the current one) |
| `BacktestDays` | `MCBacktest` | `HaltedByItsDay`: a halt lasts to the end of the run, whatever days its candles belong to, though `risk.py:52` halts trading "until tomorrow" and a backtest "actually predicts live behavior" (`backtest.py:2-5`, `README.md:14`) |
| `AuthLogout` | `MCAuthSessions` | `LogoutEndsSessions`: refresh does not look at `revoked`; `README.md:17` says logout can revoke all of a user's sessions |
| `FeedDies` | `MCLiveFeed` | `FeedStaysLive`: a connection that joins or leaves during a broadcast ends the listener; `ws_manager.py:8` says the dashboard stays live |
| `FeedRepeats` | `MCLiveFeed` | `NoTickTwice`: a dashboard that reconnects during a broadcast may show the message twice |
| `FeedWorker` | `MCLiveFeed` | `WorkerPublishes`: the worker's manager was never started, and nothing is published (`ws_manager.py:4-5`) |

### Bounds

- `MaxDay`, `MaxChecks`: two days are yesterday and today, which is all `_roll_day_if_needed`
  tells apart; three checks are a baseline, a breach and a recovery.
- Of the manager's equities one is down by exactly the 5 % limit and one by more, of the
  prices one lies at the 3 % threshold, one at the 6 % threshold and one at the 10 %
  position limit, the others beside them: a comparison that is strict where the code's is
  not, or a size rounded up, is found. The runner's equities lie on both sides of the limit. The runner needs one price, since
  nothing it checks depends on the price once an order has been sized.
- `MaxTrades` 3 is a round trip and the start of the next; `_get_open_position` looks at
  one row only. `MaxCoins` bounds the account when a tick starts. `MaxAmount` 2
  allows a partial fill.
- Two bots and two executions are the least for ticks of different bots to
  interleave; the same symbol makes them share a balance. Bots and executions are
  symmetric in the safety runs of the runner; runs with liveness use no symmetry.
- `MaxEdits` 3 and `MaxCrashes` 1 in the worker: an edit before, during and after a poll.
  `TickCycles` is 4 in the code (60 s / 15 s); 2 keeps what matters, that a tick is
  rarer than a poll.
- Three requests are the least in which a race of two is followed, or crossed, by a
  third. The row's identity is never reused, as UUIDs are not.
- `MaxFees` bounds the trades of the paper account.
- `AuthSessions`: two requests race; with `MaxSessions` 2 a user has two sessions or two
  users have one each. `AccessLife` 0 and `RefreshLife` 1 are the shortest lives with a renewal
  after the first access token has expired; `MaxTime` 3 goes past every expiry, with a
  delay (`MaxDelay` 1) of login and of refresh.
- `LiveFeed`: three messages, one more than the hook keeps; one dashboard reconnects once, so
  that two connections of one dashboard and a third one can be in the set; one
  restart. That the set is not rehashed while it is iterated on is assumed.
- `Backtest`: six candles are two round trips and a candle on either side. The closes take a
  position of a tenth of the equity over the 5 % limit in one candle, to the grid's
  targets, to its edges and out of it. Two dates are the one of the halt and the next;
  days of two candles are enough for a halt to outlast its day.

Deadlock is checked where the system cannot stop; the configurations with
`CHECK_DEADLOCK FALSE` run into their bounds, or their only bot has been deleted.

### Fairness

- RiskManager: the clock runs and the scheduler keeps checking (`WF` of `NextDay` and
  `CheckSome`). Nothing is assumed of decisions.
- Scheduler: the clock of a running worker runs (`WF` of `Elapse`), a started query is
  answered or fails, and a tick returns or raises, since everything it awaits does
  (the exchange client and the notifier have timeouts). Nothing in
  `docker-compose.yml` restarts a dead worker, so that is no fairness: where it is
  needed, `WorkerReturns` is a hypothesis of the property. That a query asked again
  and again succeeds in the end is the hypothesis `DatabaseAnswers`; `ScheduledBotsTick`
  does without it.
- LiveFeed: the event loop runs the listener, and a send returns or raises
  (`WF` of `ListenerStep`); browsers read their sockets (`WF` of `Receive`). Publication,
  connections and restarts have no fairness.
- BotService: the worker's fairness, with a database that answers in the end. Users
  have none: they need not do anything.

## 4. Proofs

Eight modules hold theorems: `SharedLemmas` (the operators of `RiskRules`, and sums over
finite sets), `RiskManagerProofs`, `StrategyRunnerProofs`, `BotServiceProofs` (which covers
`BotApi`, `Scheduler` and `BotService`), `PaperExchangeProofs`, `LiveFeedProofs`,
`AuthSessionsProofs` and `BacktestProofs`. The assumptions on the constants are the named
`ASSUME`s of the modules; further hypotheses are stated in the theorem. Bots, assets and
dashboards are assumed to be finitely many, since they are summed over or iterated on.

Every invariant and every action property that a passing run checks is stated by a theorem:
TLC checks it on the instance of the run, the proof holds for every value of the constants.
The type invariants that no run checks are proved as well.
The theorems on `Scheduler` are about its instance `Worker`, in which the active bots are
those of the table of `BotApi`. Its `EditsTakeEffect` is false if the boot is slow, as the
`Scheduler` run allows; it is proved for the prompt boot, and `ServiceSerial` checks what it
means for the users (`JobsFollowStatus`).

| theorems | argument |
|---|---|
| `RiskManager`: `TypeCorrect`, `BreakerExact`, `ApprovalsWithinLimits` | `IInv` ties the manager's fields to the history: the baseline is the day's first reading, days in the history do not exceed today's, the verdict fits the question. Without the baseline conjunct the breaker could not be compared with the readings. |
| `StrategyRunner`: `TypeCorrect`, `LedgersAlternate`, `PositionsNotStale` | `LedgerInv`: a bot has at most one tick, every busy tick's position is the ledger's (`Fresh`), an order fits its position (`OrderFits`), ledgers alternate. The first conjunct keeps the second true when a row is appended; the second and third make the new row fit the last one. Every fault is included. |
| `StrategyRunner`: `HaltLastsTheDay` | hypothesis: no restarts. A breaker that has tripped today is still halted in memory (`StillTripped`), and only a tick with a closed breaker orders (`ClosedBreaker`). `RunnerHaltCrash` shows why the hypothesis is needed. |
| `StrategyRunner`: `LedgersMatchUntilLoss` | `AccountInv` adds to `LedgerInv` that, until a fill is lost, account and ledgers agree and a tick that sells sells its whole position (`SellsAll`). What a bot holds, by its ledger and its order in flight, changes only with a fill and by as much as the account (`HoldingFollows`); the sum over the bots of a symbol follows. Without `SellsAll` a recorded SELL, which closes the position, would lose what it did not sell. |
| `StrategyRunner`: `LedgersMatchAccount` | hypothesis: no fault but missing prices. Then no fill is ever lost (`NothingLost`), and the claim of `README.md:16` holds in every state. `RunnerLiveCrash` and the configurations of section 3 show that it fails with the other faults. |
| `BotApi`: `TypeCorrect`, `TradesPinTheirBot`, `DeletedForGood`, `OwnersChangeTheirBots`, `UnracedCommitsTake` | `ApiInv`: a handler past its SELECT works on a bot that exists or existed and that its user owns (`Owned`). `WrittenRow` says what an UPDATE of the changed columns leaves: with an unchanged row, what the endpoint assigned. Any number of concurrent requests. |
| `BotApi`: `SerialColumnsAgree`, `SerialRefinement` | hypothesis: one request at a time. `SerialInv` adds that what a handler loaded is still in its row (`Fresh`); then a commit writes what its endpoint says, and every step maps to a step of `BotLifecycle` or a stutter. With two requests both fail (`BotApiStopRace`, `BotApiPauseRace`). |
| `Scheduler`: `WorkerTypeCorrect` | inductive as it stands, for slow boots too. |
| `Scheduler`: `PolledEditsTakeEffect` | hypothesis: `main`'s reconcile does not outlast an interval (`~SlowBoot`). Then only one reconcile is in flight at a time, results are applied in the order they were read, and a result with the latest stamp is the present set. |
| `BotService`: `ServiceImplementsApi`, `ServiceImplementsScheduler` | every step of the service is a step of `BotApi` or leaves its variables alone, and an edit, a step or a stutter of `Scheduler`: however requests race, a request changes the worker's input and nothing else of it. Both are about the specifications without fairness. |
| `BotService`: `ServiceEditsTakeEffect`, `ServiceColumnsAgree`, `ServiceJobsFollowStatus` | what was proved of each half holds of the whole, by these refinements, under the hypotheses of the halves (`~SlowBoot`; one request at a time). Together: with both, the jobs are the bots whose status is running from the moment the latest change has been polled. |
| `PaperExchange`: `NeverOverdrawn` | `AccountInv`: types, balances not negative, and what the model's sequence of keys must be to stand for a dict (`KeysCoverCoins`). For any number of valuations in flight. |
| `PaperExchange`: `RaisesBounded` | `RaiseInv`: a caller's failures are fewer than the keys of the dict and, while its next valuation is under way, fewer than the keys that one began with; when it fails, the dict has grown past that number. Keys being distinct, they are no more than the assets. The bound alone says nothing of the valuation under way. |
| `PaperExchange`: `TypeCorrect`, `ValuationsTornByTurnover`, `TradesCostFees` | `TornInv` bounds what a valuation is heading for (`Expected`): its total, the balance it has read at the asset's price, and the present worth of the assets still to come. A trade moves an asset's worth by no more than its own value, which is what `traded` grows by; a lookup that fails can only lower the result. The bound on the finished value alone is not inductive. |
| `AuthSessions`: `TypeCorrect`, `AccountsUnique`, `SessionsListed`, `RenewalsBounded`, `LogoutsRevokeAll`, `OwnersRevoke` | `AuthInv`: what a handler has learnt from the tables (`HandlerOK`) and the rows a token rests on (`Vouched`). Every step keeps the tables or extends them and changes rows by revoking only (`Kept`), so what one handler has learnt stays true while others run. `LoadedOK` is the heart of `LogoutsRevokeAll`: of the rows there were when the logout began, those it did not load are revoked already. `HandlerOK` also bounds how late a handler mints, without which `RenewalsBounded` is not inductive. Any number of requests, users and sessions. |
| `LiveFeed`: `TypeCorrect`, `FinishedBroadcastsReachAll` | `FeedInv`: the queue goes on where the listener is (`Numbered`), a new connection is not one the loop still holds (`Known`), a connection leaves the set only when it has ended (`Held`). `Delivered` says how far a connection in the set has been served (`Reach`): up to the listener's message between broadcasts; during one, behind by at most that message, and only while the loop has yet to send it. Any number of dashboards, reconnections and restarts. |
| `LiveFeed`: `TicksStayInOrder` | `TicksInv`: what a dashboard shows is no later than what is on its way to it, and that no later than the listener's message (`Shown`), across connections. |
| `Backtest`: `TypeCorrect`, `NoTradesWhileHalted`, `GridsNeverSellAtALoss` | `ReportInv`: no debt, and an open position was paid for (`AccountInv`); the breaker's baseline is the first point run on its date, and while it has not tripped no point of that date breaches (`BreakerInv`). A buy and a sell change no equity at the candle's price, so that the reading and the point of the curve are the same number. Histories of any length, midnight at any candle. |
| `Backtest`: `DrawdownsAreWorst` | `DrawdownInv`: the peak is the greatest point so far (`IsPeak`), the fraction recorded is at least every loss between two points (`IsWorst`) and is one of them (`IsReached`). Fractions are compared by cross-multiplication, which the lemmas on products make sound. |
| `Backtest`: `ReportsBalance` | `BooksInv`: cash and what the open position was bought for are the starting equity and the pnl of the sells, after every candle. |

A sum over a set (`SumFunction`, or the worth of the assets a valuation has not come to) is a
fold, whose value over every finite set would need induction. `SharedLemmas` goes around it:
if a fact about sums failed for some set, it would fail for a smallest one, and taking an
element out of that gives a smaller one. That a sum is zero where all terms are, that equal
terms give equal sums, and that changing one term changes the sum by the difference is all
the proofs need.

Only model-checked: liveness (`HaltLifts`, `Converges`, `StoppedBotsFallSilent`,
`ScheduledBotsTick`, `StatusSilences`, `StatusTicks`, `TicksArrive`), since the prover does not
treat fairness.

## 5. Not modelled, and the plan

Not modelled:

- the worker's start-up: it fails at this commit (section 1), by an import statement that
  has no behaviour to model beyond that;
- cryptography, password hashing and HTTP;
- RSI and MACD (lists of floating-point numbers): wherever a strategy is called, any
  signal is allowed;
- the backtest endpoint, which makes up its candles (`routes_backtest.py:15-44`) and
  copies the report;
- the market endpoints: they read an adapter of the API process's own
  (`routes_market.py`, one `PaperExchange` per process), so that `/market/portfolio` never
  shows the account the worker trades on;
- fees that a live exchange takes in the base asset: a fill credits the full amount, and
  what is said of ledger and account (`LedgerMatchesAccount`, `LedgerMatchesUntilLoss`)
  assumes it. The code keeps the fee's figure without its currency (`live.py:70`), and the
  ledger the amount filled;
- failures of Redis, and a set that is rehashed while it is iterated on;
- a wall clock that steps back, which would reorder `executed_at`;
- notifications, metrics, logs, frontend pages other than the feed's hook, migrations and
  containers.

Floating-point rounding is left out everywhere: amounts and money are integers.

Modelled in this order, most important first: risk rules, tick and ledger, scheduler,
bot endpoints and their lifecycle, API with worker, paper account, sessions, live
feed, backtest. What could come next:

1. The runner under the scheduler: ticks started by jobs, a bot that is stopped and
   restarted with an order in flight. `routes_bots.py:96-99` calls the start of a stopped
   bot a fresh run, while its position is the one the ledger says was open.
2. Proofs: that the valuation of a paper account nobody trades on meanwhile is its worth at
   prices seen during the call; with the runner under the scheduler, that the ledgers'
   theorems hold of the composition.
