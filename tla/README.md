# Stocks_FNO in TLA+

A verification project for the trading system under `src/`: TLA+ modules translated from its code,
TLC runs that check them on small instances, and TLAPS proofs that hold for every instance. File and
line numbers are those of the repository; `PROJECT.json` holds the map from every definition to the
lines it stands for.

## 1. The system

The program trades options on the Indian exchanges. One Python process runs one asyncio event loop;
everything below shares it, except the threads named. A coroutine is interrupted at its `await`s
only, so the hazards sit between two awaits of one coroutine and in whatever another one does there.

| Part | State it keeps | Operations | Who calls it |
|---|---|---|---|
| Order manager (`orders/order_manager.py`) | table `orders`, audit rows, `_sync_orders_lock` | `place_order`, `sync_orders`, `expire_stale_orders` (with the retry of orders of unknown outcome), `cancel_order` | signal cycle, 30-second job, `POST`/`DELETE /orders` |
| Zerodha adapter (`brokers/zerodha.py`) | none but the client | `place_order` (three attempts under one tag), `cancel_order`, `get_orders`, `get_positions`, GTT orders | order manager, engine; REST calls in worker threads |
| Paper broker (`paper_trading/paper_broker.py`) | orders, positions, blocked margin, balance | the same interface, fills at once | the same |
| Risk manager (`risk/risk_manager.py`) | deployed capital per strategy, open positions, daily result, kill switch, capital | `validate_trade`, `update_state`, `add_`/`release_deployed_capital`, `set_capital`, daily reset, kill switch | order manager, engine, capital periods, `POST /kill-switch/reset` |
| Capital periods (`portfolio/capital_periods.py`) | table `capital_periods`, `_rollover_lock` | `rollover_if_needed` | startup, 08:00 job |
| Trading engine (`live_trading/live_trading_engine.py`) | open spreads, condors, single-leg journals, pending exits, day's exits (Redis copy of all of it), `_exit_cycle_lock` | signal cycle each minute, 10-second exit checks, square-off, restore and reconciliation after a restart | scheduler, admin API |
| Zerodha sync (`live_trading/zerodha_sync.py`) | table `orders` | comparison with the broker's orders of the day, three times a day | scheduler |
| Strategies (`strategies/`) | crossover confirmations, trend and pullback memories, pauses | `generate_signal`, `manage_position`, `on_pause` | engine |
| Regime detector (`market_data/regime_detector.py`) | regime and inputs in Redis | `detect`, `enforce_regime_switching` | engine |
| Pollers and ticker (`market_data/`) | `tick:{symbol}` records, pools, subscriptions; a thread and a websocket | poll, REST poll, tick, reconnect, retry with a new token | scheduler, their own threads |
| Login, universe (`scripts/zerodha_auto_auth.py`) | access token, lot sizes, contract caches, active list in Redis | daily login, weekly universe | scheduler, self-heal job |
| Scheduler, watchdog, lifespan (`core/scheduler.py`, `api/main.py`) | heartbeat, age of the last attempts | fires jobs, heals the feed; a thread kills the process when the loop hangs | none |
| Backtesting, ML, notifications, reporting, dashboard, API | files, tables | offline or read-only | operator |

How they interact: the engine decides, the order manager writes the order, asks the risk manager,
calls the broker in a worker thread under a timeout and writes the outcome; a second job reads the
broker's orders back into the table, and the Zerodha sync compares it with all orders of the day. The
capital an order takes is counted in the risk manager by whoever learns of its fate. What the engine
decides on comes from records in Redis that three writers share, for the stocks that a weekly list, a
poller and the open positions together name. The table, Redis and the broker survive a restart, the
risk manager's counters, the paper account and the engine's dictionaries do not (the engine restores its
own from Redis and rebuilds the others).

What is hard, and what makes each part correct:

* **Orders.** Four coroutines write the same rows between awaits; a placement may time out with its
  outcome unknown, and its thread may go on; the process may die between the broker's answer and the
  write. Correct: a closed row stands for a dead order and is not reopened, one entry rests per
  contract, an order and its retry fill no more than was asked, capital is released once and the
  budget is never freer than what orders hold, stale and doubtful orders are settled.
* **Placement.** A lost answer is retried. Correct: one live order per call, and it is the one returned.
* **Limits.** The risk manager compares with what it was last told of positions and losses, once or twice a
  cycle, while orders rest, positions close and reads fail. Correct: caps on sector and positions hold for all
  it could have been told, no entry after a day's loss has become known, none on positions that are unknown.
* **Capital periods.** Three sessions that are not one transaction, two callers, restarts. Correct: one
  open period, no day in two periods, closed books stay closed, capital positive and compounding, risk
  limits following the period, no expiry left behind.
* **Exits.** The positions are read before many awaits; a manual close, the square-off and the cycle may
  all sell the same contract, and exits pass the duplicate guard. Correct: a contract is sold once, every
  exit is journaled once, nothing open is untracked.
* **Structures.** Two or four legs placed and closed one after another, each of which may fail, wait or be
  of unknown outcome, with a stop order at the broker for each short leg and a second job that checks exits
  every ten seconds. Correct: no leg is closed twice, no short leg is left without its hedge unreported,
  nothing is dropped while the broker holds a leg, the capital is counted as long as the structure is
  tracked, what is due is closed.
* **Strikes and rules.** Strikes are aimed at by delta, resolved to what is listed and compared no more; the two
  quotes of a wing are read one after the other, and an estimate stands in for one that is missing later; a dozen
  rules close what a dozen gates let in. Correct: no hedge is on the wrong side of its short leg, and nothing but what
  a short leg is read at closes what was just entered.
* **Paper account.** Rebuilt from journals after a restart. Correct: positions, cash and margin are those of
  the trades the engine has.
* **Feed.** A token that lives a day, a connection that is refused, hangs or gives up, jobs that heal each
  other. Correct: silence is noticed, and ticks and lot sizes come back in a session.
* **Records.** Three writers read, compute and write back without a lock. Correct: bars and volumes add
  up, old indicators do not pass for fresh ones, a position's underlying is polled and its contracts quoted.
* **Sync.** Compares by a snapshot while orders are placed. Correct: each order has one row, with its fate.
* **Signals and regime.** Confirmations counted over bars, with pauses, restarts and unknown bars in
  between; three who pause and resume. Correct: no bar is counted twice, no entry is unconfirmed or
  against the regime, and nobody's pause is undone by another.

## 2. The modules

| Module | Models | Checked through |
|---|---|---|
| `OrderManager` | the order lifecycle, the broker and the clock around it | `MCOrderManager`, `MCOrderRaces` |
| `OrderLedger` | what is promised of one order: an abstract specification, refined by `OrderManager` | `MCOrderManager` |
| `OrderProperties` | properties of `OrderManager`, the mapping to `OrderLedger`, the inductive invariant, fairness | |
| `OrderManagerProofs` | theorems about `OrderManager` and its refinement of `OrderLedger` | |
| `OrderPlacement` | one `ZerodhaBroker.place_order()` call | `MCParts` |
| `RiskLimits`, `RiskLimitsProofs` | sector cap, position cap, daily loss and kill switch over whole signal cycles | `MCOrderRaces`, `MCRiskLimits` |
| `CapitalPeriods`, `CapitalPeriodsProofs` | rollover of the capital periods | `MCCapitalPeriods` |
| `SingleLegExits`, `SingleLegExitsProofs` | the engine's single-leg options: entry, exits, square-off, restart; order outcomes as `OrderManager` has them | `MCSingleLegExits` |
| `StructureLifecycle`, `StructureProofs`, `StructureLegsProofs` | credit spreads and iron condors: entry, exit, square-off, GTT stop orders, restart; order outcomes likewise | `MCStructure` |
| `StructureRules` | which strikes they are entered with, and the rules that close them | `MCParts` |
| `PaperBroker` | the paper account and its rebuilding | `MCParts` |
| `FeedHealing` | login, ticker, retry thread, self-heal job, watchdogs | `MCParts` |
| `TickRecord` | `tick:{symbol}` and its three writers | `MCParts` |
| `TrackedUniverse` | weekly list, poller, candidate pool, positions | `MCParts` |
| `Subscriptions` | the ticker's tokens and the REST poller's contracts | `MCParts` |
| `BrokerRecords` | the Zerodha sync beside placements | `MCParts` |
| `BrokerProofs` | theorems about `OrderPlacement`, `PaperBroker`, `BrokerRecords`, `Subscriptions` and `FeedHealing` | |
| `RegimeSwitching` | regime, hysteresis, pauses | `MCParts` |
| `CrossoverSignals` | the confirmations of EMACrossoverStrategy | `MCParts` |
| `PullbackSignals` | trend, pullback and breakout of MomentumStrategy | `MCParts` |
| `SignalsProofs` | theorems about these three, `StructureRules`, `TickRecord` and `TrackedUniverse` | |

`MCParts` composes the eleven components that share no state: in a behaviour one of them moves and the
others stay where they started, so that one run checks all of them. `MCOrderRaces` does the same for three
environments of one `OrderManager`, and for `RiskLimits`.

### OrderManager

State. The table is `status` (`"absent"` for a row not written), `req` (symbol, side, quantity, strategy,
spread leg, exit), `recorded` (`filled_quantity`), `origin` (which order a retry is of) and `aged` (rows
past `ORDER_EXPIRY_MINUTES`). The broker is `live` and `filled`; `wire` is the worker thread of a
placement. `deployed` is `RiskManager._strategy_deployed`; `reserved` and `released` are history, per order.
Every coroutine has a program counter and the locals it keeps over an await: `pc, arg, argOrigin, cur` for
`place_order`, `syncPc, todo, reply, syncCur` and `lock` for `sync_orders`, `exp*` for
`expire_stale_orders`, `adm*` for `cancel_order`.

Actions. An action is the code from one await to the next one at which another coroutine can make a
difference. `PlaceCheck` is the duplicate guard, `PlaceRoute` and `PlaceRejectedByRisk` the row with the
verdict of `validate_trade`, `PlaceReturned`/`PlaceRefused`/`PlaceTimesOut` the ends of the broker call,
`PlacePersist`/`PlacePersistFails` the OPEN write, `PlaceReserve` the capital, `PlaceVerify` the search for
the tag after a timeout. `SyncSnapshot` to `SyncRelease` are `_sync_orders_locked`, one order at a time;
`ExpireBegin` to `ExpireRelease` are `expire_stale_orders` with its own syncs; `Cancel*` is the handler
behind `DELETE /orders/{id}`. `BrokerLand`, `BrokerFill`, `BrokerCloses` and `Age` are the environment, and
`Crash` is `os._exit(1)` of the watchdog and the restart. `Env` says what may go wrong in a run.

Abstractions. Capital is counted in lots at a unit price, so a drift between the price capital was
reserved at and the price it is released at is not seen. `broker_order_id` is not kept: a row has one when
it has been OPEN. The orders of a `get_orders()` reply are applied in any order. A cancel that the broker
acknowledges is taken to be effective. An order that is missing from `get_orders()` (the broker forgets
them overnight) is not modelled, nor is a failure of the database other than in the OPEN write. The
risk manager's list of open positions is in `RiskLimits`.

### OrderPlacement

One call under the `wait_for()` of the order manager: `attempt` of `MaxAttempts`, the `request` of each
(unsent, flying, accepted, refused, lost), the exchange's `order` for it. `Lookup` is
`_find_order_by_tag`. What `OrderManager` calls `response_lost` and `late_landing` are this module's calls
that end `"raised"` with a live order, or `"abandoned"` with a request flying.

### RiskLimits

What the engine tells the risk manager, and what it makes of it. `held` and `resting` are what the broker has,
`lost` whether the trades closed today have lost the day's limit; `counted` is `current_open_positions` and `loss`
the sum of the two daily results, each as of the last `update_state()`; `known` is the engine's
`_broker_position_state_known`. One `step` of the cycle after another: `StartCycle` and `EndExits` read positions
and journal and refresh (`ReadState`), `Expire` is an order of `expire_stale_orders()` and its retry, `StartEntries`
looks at the flag, `Enter` is an entry through `validate_trade()` (`Crowded`, `Full`, `LimitReached`, `Tripped`) and
`place_order()`, which may be taken, time out or be refused (`Count`, `Overlook`). Beside it `Close` and
`ReadBeside` are the other coroutines, `NextDay`, `ResetKillSwitch` and `Restart` the operators and the watchdog. Of losses the
model keeps whether they reach the limit; what is open may lose it at any time, and the limit is switched off
until a date in the code, which may come (`limited`). `blind`, `due`, `ignored` and `unseen` are history; the last
holds what is open, or still counted, and once was not counted. The caps are claimed of the others.

### CapitalPeriods

A process is one call of `rollover_if_needed`: the startup call and the daily job. Each database session is
an action: `Get`, `SumPnl`, `Close`, `Create`, `Heal`; `Enter` takes `_rollover_lock` and `Finish` applies
the capital to the risk manager. The calendar is `MonthOf` and `Expiry`, and `ClosingMonth` is the arithmetic
of `get_capital_period_bounds`. `journal[d]` is what all trades that have exited by the end of day `d`
earned; `TradeExits` is `_log_trade_close`. `Fails` is an exception of a session (logged by the job),
`Crash` a restart with a new risk manager and a new lock. Amounts are whole, so rounding to two digits is
not seen; an open row's NULL result is 0.

### SingleLegExits

The long options of one underlying. The exchange and the table are `held` (net lots) and `order`, a few
slots that are used again when nothing refers to them: `status` is what the table says, `fate` what really
happened. The engine's memory is `journaled` (the keys of `_single_leg_journals`), `pending`
(`_pending_single_leg_exit_orders`), `exited` and `count`; `saved` is their copy in Redis, `deployed` the
strategy's capital in lots. A closer is the cycle or a handler of the manual close, with the positions it
has read (`snap`), those it has yet to look at, the contract and the order it is at.

`StartCycle`, `Verify`, `ExpireStale`, `ReadPositions` are the head of `run_signal_cycle`, with
`expire_stale_orders`; `Exit` to `Release` are `_execute_single_leg_exit` and its three copies in
`_close_option_positions` (the reversal), `_square_off_all` and `_reconcile_broker_positions`, which `mode`
tells apart where they differ: the square-off and the reconciliation turn a short round, the
reconciliation neither asks for nor remembers an exit in doubt, only exit rule and manual close mark a
loss, the square-off saves at its end. `Signal` to `Journal` are an entry. `Crash` is a restart with
`_restore_state`; `FindOrphans` and `RestoreDone` follow it.

Abstractions. Prices decide nothing: an exit is possible always and a gate may always be shut. One lot is
one entry. `place_order()` ends as `OrderManager` says it does, in one of three ways, and what it does to
the capital happens with its end. An order that a look-up does not find is not there. A market order, which
is what exits are, is filled when it arrives; what rests at the close is cancelled. An expired entry that is
placed again is as if it had not expired. Spreads and condors, which share the loops, are in
`StructureLifecycle`. The
order job has seen the end of all orders before the next morning.

### StructureLifecycle

One structure on one underlying: a row of legs, each short leg followed by its hedge, two for a spread and
four for a condor. `held` is what the broker holds of each leg's contract, `order` the orders whose outcome
is not known with the answer (as in `SingleLegExits`), `gtt` the short legs with a stop order at the exchange.
The engine has `struct` (the entry of `_active_spreads` or `_active_condors`: which legs are closed, the ids
of closing orders in doubt, the stop orders it knows of), `pending` of the square-off, `exited`, `count`, the
copy of all of it in Redis (`saved`), `deployed` and `_exit_cycle_lock`. Two coroutines act, the cycle and the
10-second job, each with its locals in `run`: where it is, the leg it is at, and what it has placed.

`Enter`, `PlaceLeg`, `LegTaken`, `LegRefused`, `LegNotTaken` and `UnwindDone` are `_process_credit_spread()` and
`_process_iron_condor()`: leg by leg, the short one first, taken back when the hedge fails, with the message to
the operator when that fails too; `Book*`, `PlaceStops` and `Track*` end the entry. `ExitReason`, `CloseLeg`,
`Resolve`, `CloseTaken`, `CloseFailed`, `CloseDoubtful`, `ExitPartly` and `ExitFully` are `_check_spread_exits()`
and `_check_condor_exits()`, which differ in the order of their legs and in what they remember of a part;
`Drop` deletes the structure under the lock. `SquareOff*` is `_square_off_all()` with its pass over all
positions and its passes over the structures. `Crash`, `FindOrphans`, `FindHalfClosed`, `Half*Done` and
`Restored` are a restart. `StopFires` is a GTT at the exchange.

Abstractions. Any exit rule may fire or not, except the days to expiry, which force. Orders of a closing leg
are market orders and filled when they arrive, stop orders fire for the whole leg. A scene (`Scenes`) says
which faults may meet in a behaviour; faults that together break a property are kept apart and listed in
section 3.

### StructureRules

The same structures without orders: an entry or an exit is one step, and what matters is which. `chain` is the set of
listed strikes, `price` and `vix` the market, `near` the days to the near expiry, `book` the structure. |delta| is a
table over the distance of a strike from the price, which falls as Black-Scholes does and is stretched by `sigma`:
every entry and every check reads the volatility anew (`_get_live_sigma()`). `FindDeltaStrike`, `Uncrowded`, `Listed`
and `DeltaOk` choose the short strikes as the code does; `Apart` is the comparison that moves the hedge beyond the
short leg. It looks at what is aimed at: `Listed` then takes the nearest strikes there are, in the order of the code,
which is not the same for a spread (`SpreadStrikes`) and a condor (`CondorStrikes`), and nothing compares those.

Premiums are not a function of anything. `Priced` gives each leg any of `Quotes`, because the code reads two quotes in
two calls, from caches of different ages, a last trade of the day or a side of the book, and asks only that the short
leg's be the higher. `Readings` are what an exit check may see of each leg: a quote, or else an estimate
(`Estimates`), or, without data of the underlying (`stale`), the premium of the entry; those of an exit check are
unrelated to the entry's and to the next check's. `SpreadExitReason` and `CondorExitReason` have all the rules: forced
closes, days, breach and delta of the short leg (paused without data), VIX spike, profit tiers with the net result,
the strategy's own `manage_position()` without it, regime shift. `CloseStructure` takes any reading that speaks
against the structure; whether it ends in a loss is a choice, as the fills decide it. A structure is taken to be
entered at what was quoted. `SquareOffLast`, `NextWeek` and `RulesRestart` change the day.

### PaperBroker

`Fill` is an order at the simulated broker: the check of funds and margin, then balance, average price and
blocked margin, for opens, closes and reversals of either sign. The engine's side is one bought option and one
spread, perhaps with a contract in common, closed leg by leg; `journal` is the sum of the results of closed
trades. `PaperRestart` is `_restore_state()` with `_reconcile_paper_broker_balance()` and
`_rebuild_paper_broker_positions()`. `untold` and `clean` are history. Slippage is left out.

### FeedHealing

A token is named after the day it was issued; Zerodha takes it on that day only and Redis keeps it for a day.
`feed` is the connection of the ticker, `retry` and `checks` its retry thread, `since` what
`seconds_since_last_tick()` counts from. `SelfHeal` is one run of `_kite_self_heal()`: `HealLogin`,
`HealProvision`, `HealCaches`, `Watchdog`, one after the other. `DailyAuth` is the login job, `Deploy` and `DeadMan`
restarts by the operator and by the watchdog thread. Time goes by in runs of the self-heal job; the cooldowns
and the threshold are multiples of it. The phases of a day follow at any pace but one: the retry thread looks for a
new token once a minute (`_retry_with_fresh_token()`), and a bad token is refused as soon as it is tried, so no phase is
shorter than that (`Due`).

### TickRecord

The record of one symbol, as each of three writers has read it and writes it back: the ticker's thread with
`update_intraday_bar()`, the poll that adds the indicators, the REST poll that fills in where the ticker is
silent. `IntradayBar`, `BarUpdated` and `BarClosed` are the bars with their volumes, `Carried` what the poll takes
over from a second read, `Usable` what the engine asks of the record before an entry. Each reader may fail to
read. A day has a few minutes, a bar one of them. Prices are left out: they take the ways of the bars.

### TrackedUniverse and Subscriptions

`TrackedUniverse`: `Weekly` publishes the active list, `Poll` refreshes it, scores the candidates, keeps a
watchlist and publishes a pool; `SyncMustTrack` is `_sync_must_track_underlyings()`, which hands the underlyings of
positions to the poller, and `EnterStock` takes what `_get_active_symbols()` offers. Scores are left out: any
candidate may come out on top. `Subscriptions`: `_on_connect()` in the ticker's thread (`ConnectReads`,
`ConnectSubscribes`) beside `set_instrument_tokens()` in the loop (`SetTokens`, `Push`), and the contracts that
entries, exits and restarts give to the REST poller.

### BrokerRecords

`broker` is the day's orders at Zerodha, of the program (`Accepted`) and by hand or GTT (`ByHand`), `rows` the
table. A run of the sync fetches all orders and, one after another, looks each up by its id, searches for a row
in PENDING that has its symbol, side and quantity, and writes or inserts (`Fetch`, `Look`, `Search`, `Write`,
`Fails`, `Finish`), while `Placement`, `Verify` and `Follow` are what `OrderManager` does with the same rows. A
behaviour ends when a run has met an order whose placement is not settled; what then goes wrong is in section 3.

### RegimeSwitching

One signal cycle after another: inputs refreshed or expired, `Detect` with the two thresholds of the ATR and the
VIX, `Enforce`, entries. `paused` says who has paused a strategy; `Activate`, `Deactivate` and `Reload` may come
between any two steps. VIX and ATR take values at each threshold and beside it.

### CrossoverSignals and PullbackSignals

The memory of `EMACrossoverStrategy` for a symbol (`seen`, its copy `saved` in Redis) and for a contract
(`reversal`), read many times in a bar or without knowing the bar: `Cycle` is `generate_signal()` with the entry
the engine may make of it and the save at the end, which may be lost; `Reversed`, `NotReversed`, `OtherExit` and
`EngineCloses` are the exits. The memory of `MomentumStrategy` (`trend`): `Establish`, `Extend`, `PullBack`,
`GoOn` and `BreakOut` of `_pullback_continuation_signal()` over closes and bars, the direction judged anew each
time. Variables marked ghost remember which bars were really read. The averages, RVOL and premium conditions
are choices.

## 3. The runs

| Run | Question | Bounds |
|---|---|---|
| `om_races` | Two callers and two syncs race over orders that time out, are rejected or cancelled: is capital released once, does the budget cover what orders hold? The cycle as the only caller: one entry per contract, the budget kept, no overfill through expiry and retry? Every fault but a late landing and a lost last answer, a manual cancel and restarts: are closed rows dead and final, is every step one of `OrderLedger`? And over whole cycles: do the caps of the risk manager hold, is a day's loss heeded? | 2 requests of 2 callers, one of two lots, one short leg, one manual order; 2 requests and 2 retries, budget 3; 1 request of any of five kinds, and its retry; 3 entries of two names of one sector and a spread of none, caps of 1 and 2, 1 failed read |
| `om_live` | Do stale orders leave OPEN, and are doubtful ones settled, through refusals, failed writes and restarts? | 1 request, entry or exit, and its retry |
| `om_v_release` | a disagreement below | 1 request |
| `rl_v_unknown` | a disagreement below | 4 names, 1 failed read |
| `cp_restart` | Restarts at any step: do the limits follow the period, are days counted once, does the table catch up? | 4 days, two expiries on consecutive days |
| `cp_faults` | Failing sessions, restarts and a broken old row: one open period, final books, positive capital? | 5 days, losses larger than the capital |
| `cp_v_chain` | a disagreement below | 5 days |
| `sl_doubt` | Cycle, manual close and a restart, entries and exits in doubt, no positions, no journal: does the cycle oversell, book closes that were not accepted, forget an exit in doubt? | 1 option, 1 entry a day, 1 day, 3 orders at a time |
| `sl_day` | Is every option held journaled and counted, and closed in the square-off? | 2 options, 1 entry a day, 2 days |
| `sl_v_pending` | a disagreement below | 1 option, 2 entries |
| `st_exits` | Ten scenes of faults of a spread or a condor: is a leg closed twice, the capital counted twice, a stop order or a naked short left, a structure dropped with a leg open, or kept beyond its day? | 1 lot a leg, 2 orders in doubt at a time, up to 2 nights and 1 restart |
| `parts` | Eleven components, one at a time: the properties named in their modules | see below |

The bounds are small but make every interesting case happen. For orders, two requests give an order and a competitor
on the same contract or the same budget, each with a retry; two lots give a partial fill; the two syncers and an admin
are all the writers there are. Four coroutines and one order already reach all the races between two writers of a row.
In the calendar a period of one day follows one of two days, so that a period can be over before the call that opens
it has returned. Three orders of a contract are its entry and an exit of each closer. The second day of `sl_day` meets
an option whose square-off has failed, and a signal for the other one reverses it; with two entries in one day instead
its properties hold as well. `sl_doubt` looks at states through a view that leaves out the locals of a coroutine that
has returned and the rows that nobody will read. In `st_exits` two orders are an exit in doubt and the one that
repeats it, and two nights lead from many days to expiry past the minimum to the last day. `parts` has: the code's own
three attempts of a placement; two prices, three volatilities and three chains, complete, with gaps and nearly empty,
so that wings keep their strikes, move and collapse; two quotes, an estimate below all of a quote's profit targets and
one above its stop, and two nights; two paper trades at two prices; two days of the feed with two faults (a login,
refused connection, hang or failed refill each); four minutes of a record, a day and the start of the next, with bars
of one minute; two stocks, one of them in the fixed list; one traded stock with two kinds of position and one restart;
two orders of the program and one by hand with one run of the sync; two strategies, one that each of two regimes
suits; three bars with two to confirm; six bars and three closes of a pullback with a `max_pullback_bars` of three,
where the default is six (momentum.py:296; `SignalEarned` is for any number).

Each property has a mutant, a small bug planted in the definition it depends on (`PROJECT.json`,
"mutants"); TLC finds the property violated with the mutant in place, so none of them holds for want of the
interesting case. A property of `parts` that names several (`FeedHeals`, `AccountIsSound` and so on) is the
conjunction of what its component promises; the conjuncts are named and commented in the component's module.

### Disagreements found

* `om_v_release`: `expire_stale_orders` cancels a stale order and runs a sync, which sees it CANCELLED and
  releases its capital; then the order is marked EXPIRED and its capital released again. The lock's comment
  says that a double release is what it prevents.
* `cp_v_chain`: a restart between the session that closes a period and the one that opens the next; the next
  call finds no open period and starts from the configured capital. The docstring promises compounding
  and safety of a call after a restart.
* `sl_v_pending`: the id of an exit in doubt that was filled stays in the dictionary, because a position of
  zero is skipped before it would be resolved. When the contract is bought again, the old id "resolves" to
  success at the first exit, and the new position is journaled as closed with no order sent: the
  "fictitious exit" that the docstring wants to prevent.

Others that the models show, or that were met in writing them, and that no run is spent on. Line numbers are of
`live_trading_engine.py` where no file is named.

*Orders.* A crash between the broker's answer and the OPEN write leaves an order the duplicate guard does not
see (`"crash"` in the stale part of `om_races`); a fill that lands after the last sync that worked is
resubmitted (`"get_orders_fails"`); an order found at the broker later adds its capital over the budget (the
same); a sync may release capital before `place_order` adds it (harmless: the addition stays, so the budget is
too tight, which `BudgetCoversExposure` allows). With `"late_landing"`, `ClosedRowsAreFinal` fails: after a timeout
the order is looked for once and marked FAILED, and the thread that carries it may deliver it later
(order_manager.py:404-406 says that FAILED is safe to conclude). With a look-up that fails, `OneOrderPerTag`
fails: `_find_order_by_tag` then reads as "no such order" and the order is placed a second time (zerodha.py:173).

*Limits.* What exceeds the caps of sector and positions: an order that rests while the positions are read anew (they
drop what place_order() had counted, 7565-7588 and order_manager.py:335), one that is found after a timeout (the capital
is added there, the position is not, order_manager.py:385-403), and what was entered after a reading that failed. Also
a contract that came to exceed a cap in such a way, was read, is closed and entered anew before the next reading: what is
still counted under its name passes the cap of positions (risk_manager.py:369-379). The last was found by the proof of
`LimitsAreKept`, which could not exclude it; `unseen` keeps such a contract until nothing of it is counted. A
journal that cannot be read counts as no loss (7608-7610), and after a restart the kill switch is off. A structure counts with
all its legs where `MAX_SECTOR_POSITIONS` speaks of positions: one spread fills a sector, a condor more than that.

*Single-leg exits.* With `"exit_doubtful"`, `SquareOffCloses` fails, because the cycle returns into the
square-off before `expire_stale_orders()` and nobody verifies the exit that is waited for, although the
docstring (4873) says that this is "already running every cycle" and the square-off's own that these options are
"ALWAYS" closed. With `"entry_doubtful"`, or `"exit_rejected"`, `BooksCoverHeld` fails: an entry found later is
never journaled, and an exit rejected after it was accepted has lost its journal already. So it does with `"exit_doubtful"`
(the finding above), and with `"positions_fail"` when an option that is held may be bought again: positions that cannot
be read pass for none in `_process_signal()`, and the second entry, which rests, is filled after the exit of the first has
popped the journal of both. A restart after the exchange has taken an entry and before its journal is written leaves an option
without one, if it is filled after the orphans were looked for; and where a manual close and the cycle both trade a contract,
what they do together may leave lots that the last of them has already released. `NeverOversold` and
`DoubtIsRemembered` leave out contracts that a manual close or the reconciliation has set out to close: the
manual close and the cycle can both send their order before either is filled, and each may overwrite or drop
the id that the other remembers; the reconciliation forgets an exit in doubt.

*Structures.* The square-off does not take `_exit_cycle_lock`, so it races the 10-second job over an exit that
failed before: a leg may be closed twice (the comment at 233-235 says what the lock is for). An exit in doubt on
the last day is sent again by the square-off, which looks at its own pending ids only and not at those of the
exit check (6736-6793). What is closed of an exit, and the id of what is in doubt, is saved at its end only
(5180-5205): after a crash within it, with positions that cannot be read, a leg is closed twice. A GTT that fires
during an exit closes the leg twice, and a crash between placing the stop orders and saving the structure leaves
one behind. An entry that waits at the exchange counts as a leg taken; an unwind or exit before its fill counts it
closed (5127-5129), and the fill is an untracked leg. A structure closed in part on its last day before the
square-off is not dropped that day (6800-6815). The reconciliation of orphans counts a close as done whatever
became of it (1560-1590). The promise of an automatic retry of a half-closed structure (log at 5204 and 6349) holds
only if a rule fires again. A flag of `_close_on_first_cycle` survives a square-off and closes the next structure
on the underlying at once (5305, 6466). The scheduler that starts the 10-second job is started after the restore
(`lifespan()` of main.py), so the job does not meet a restore (`Restoring`).

Which faults break a property of `st_exits` only together, and are therefore in no scene (found by TLC with other scenes;
unless a condor is named, of a spread): entries that rest and positions that cannot be read (`NeverOverclosed`, before any
night); on the last day the 10-second job, or an exit in doubt, or positions that cannot be read (`NeverOverclosed`,
`DroppedIsFlat`; the first also `OneCount`); a restart with an exit in doubt or with positions that cannot be read (both); two
restarts even with failing entries and exits only, because `_persist_state()` does not run when a structure has been deleted
at a restart (`HalfClosedDone`), so that Redis brings it back at the next one (`DroppedIsFlat`). And a spread whose entry fails
while its unwind is in doubt (`NakedIsReported`): `_process_credit_spread()` takes any order that was accepted as a closed leg
and tells nobody, where the condor's unwind reports it.

*Strikes and rules.* Where a strike is not listed, short leg and hedge may resolve to the same contract (4426-4439,
5619-5690); it is then sold and bought at once, if its two quotes, read one after the other, differ the right way.
`EntryIsSound` bounds this to a contract with an unlisted neighbour. A structure just entered may be closed at once
for a profit it does not have: the comment at 4973-4975 says so of estimates, which still stand in for a quote that is
missing (4982-4994, 6091-6106); and a quote that was old at the entry does the same. The net result is asked for by
the two profit rules that 5015-5025 speaks of, but not by `manage_position()` of credit_spread.py:133-139, which runs
after them and takes a short leg at a quarter of its premium for a profit whatever the hedge has lost.

*Paper account.* A contract of two trades, or a structure with one leg closed, is not rebuilt as it was (1429-1500);
the results of entries taken back and the entry fees of open trades come back at a restart.

*Feed.* `_provision_kite()` returns a client also when `kite.instruments()` failed: no ticker is then made until the
next start (main.py:158, 774), which `FeedComesBack` leaves out as `Stranded`. The refill looks at the lot size of one
symbol only, so an empty contract cache goes unnoticed. A connection that comes and goes resets the clock of the
watchdog each time until its first tick.

*Records and universe.* The poll's rewrite drops `_ws_last_tick_at`, so the REST poll writes beside a live ticker;
a failed `_read_day_range()` makes the poll overwrite the day's bars. `_get_active_symbols()` falls back on the fixed
list also when the pool is empty because no symbol qualified, which ltp_poller.py:262-264 means to be different. A
single option's contract is never unregistered, and one that two positions share is unregistered by the first
exit. A position entered in the last cycle before a weekly demotion misses one poll.

*Sync.* An order of the program in flight, or an older stuck row, may get the id of an order placed by hand with
the same symbol, side and quantity, and two rows one id (zerodha_sync.py:97); a row in PENDING_VERIFICATION is not
searched, so its order gets a second row; a status that the sync closes releases no capital; a snapshot that is out
of date may write OPEN over a final status.

*Signals and regime.* A signal confirmed while momentum is paused is consumed, because the engine asks for it
before it looks at `is_active` (3146, 3181), though the docstring at momentum.py:1323 says it never is. The count of
a reversal that an exit by the engine leaves behind confirms the next position's reversal early (`stale`).
A regime that cannot be detected lets entries go on under the last switching. A manual pause is lost at a restart,
and the hysteresis after one UNKNOWN or one failed read. The regime in Redis does not expire, so the first exit
checks of a day use yesterday's.

## 4. Fairness

`om_live` assumes weak fairness of every coroutine: APScheduler fires its jobs for ever and every await
returns, a broker call within `BROKER_TIMEOUT_SEC`. Strong fairness is assumed of taking the lock
(`asyncio.Lock` is first come, first served) and of broker calls that succeed: a broker asked again and
again answers some time. The process may be restarted at any step, but not for ever: a restart in each cycle
would keep every cycle from its end. `cp_restart` assumes that the days pass, the job is fired, and that no session of a call
is missed for ever, however often the process restarts. `sl_day` assumes weak fairness of the cycle, which the
scheduler starts every minute, strong fairness of the end of a cycle's signals (a loop over a finite list), and
that of market orders sent again and again one arrives. `st_exits` assumes weak fairness of the cycle and of a
10-second job under way, and strong fairness of closing orders that are taken and of orders in doubt that are
verified: the broker neither refuses for ever nor keeps one in doubt for ever. `parts` assumes weak fairness of the
placement's own steps, of the self-heal job, the watchdog thread, the expiry of a Redis key, the retry thread and
the poll and cycle of the universe, which run on timers; and strong fairness of Zerodha's side of the feed: a
connection tried again and again is opened or refused, and an open one ticks. No fairness is assumed of fills,
faults, crashes, signals or the clock.

## 5. The proofs

For every choice of the constants, from the assumptions `ConstantsOK`, `PlacementConstants`, `LimitsConstants`, `CalendarOK`,
`CapitalOK`, `SingleLegConstants`, `StructureConstants`, `RulesConstants`, `PaperConstants`, `RecordsConstants`, `TickConstants`
and those of the signal modules (at least two bars to confirm, at least two in a trend), which TLC evaluates in the runs. They
say that bounds are numbers, that thresholds are in order and that prices are positive (paper_broker.py:167 fills at 0.05 at
least). Where a theorem has a hypothesis on the faults, the property fails
without it, and section 3 says how.

*Orders, limits and capital.*

* `TypeCorrect`: `TypeOK` of `OrderManager` is inductive by itself once it says that whatever a coroutine works
  on is a row.
* `RowsAgree`, `ClosedRowsDead`: `ClosedRowsAreDead` is not inductive, because a sync writes what it
  read some steps before. `RowsInv` says why that is safe: a final status in a reply is still the broker's
  (`RepliesStayTrue`), a call in progress owns its PENDING row (`CallsOwnTheirRows`), table and broker agree
  (`TableFollowsBroker`), and the expiry loop and the cancel handler only hold rows that were OPEN or closed
  (`ExpiryIsSafe`, `CancelIsSafe`). It needs that no placement lands late and no last answer is lost; with
  either of them the theorem is false. All other faults are allowed.
* `ClosedRowsFinal`, `LedgerImplemented`: from `RowsInv`, closed rows are dead and stay closed, and every step of
  the order manager is a step of `OrderLedger` under the mapping of `OrderProperties`, or a stutter.
* `OneEntryRests`: `OneRestingEntryPerContract`, when the cycle is the only caller, answers are not lost and neither a
  `get_orders()`, nor an OPEN write, nor the process fails (`OrdersAreSeen`); a second caller, or any of these events alone, breaks it.
  `RestInv` follows an entry and its retries through cancel, expiry and sync at once: whatever rests has a row that the duplicate
  guard sees, and of two entries of a contract at most one is at the broker or on its way there.
* `BoughtOnlyOnce`: `NeverOverfilled`, an order and its retries together are filled for no more than was asked. When answers are kept
  and `get_orders()` works (`SyncsReachTheBroker`); callers, manual cancels, restarts and the other faults are free. `BoughtInv`
  follows the fill from the broker to a sync's reply, from there to the row, and from the row to the quantity of the retry.
* `CapitalStaysCounted`: `ReleasedAtMostOnce` and `BudgetCoversExposure`, when no order goes stale or is cancelled by hand, no
  answer comes without its context and the process does not stop (`CapitalIsTold`; each of the four alone breaks it). Syncs
  race, fail and reply late. What a strategy has deployed, with what calls under way are about to add, is at least what its orders
  hold (`Covered`), and no row has given back more than it had (`ReleasesFit`). The sums are counted as sets of lots (`LotsIn`), so
  that a change of one order is a lemma about one element.
* `TagIsUnique`: `OneOrderPerTag` for any number of attempts, when lookups tell the truth and a request
  that failed does not land later. `EarlierAreOver` is the strengthening: before an attempt is sent, all
  others are over.
* `LimitsStayTyped`, `LimitsAreKept`: the two conjuncts of `LimitsHold` about a cycle, `CapsHold` and `LossIsHeeded`, for any
  contracts, legs, sectors and caps. The caps speak of what is open, the checks of what is counted, and these are not the
  same between two readings. `CapsInv` says what the two have to do with each other while a cycle runs (`Informed`): what was never
  overlooked is counted, what is counted and was never overlooked keeps to the cap, also when it has been closed since, and
  a loss that this cycle had to see is in `loss`.
* `PeriodsStayTyped`, `OnePeriodIsOpen`, `BooksStayClosed`: from `PeriodsInv`, for every calendar and every fault.
  The lock makes what a call has read of the table still true when it writes (`CallIsCurrent`), and a
  period is summed only after its last day, when no trade can be booked into it (`PeriodsAreOrdered`).
* `CapitalStaysPositive`: `RiskCapitalIsPositive`, for every loss, every table to start from and every fault.
* `DaysCountedOnce`, `RiskFollows`: `PeriodsApart` and `RiskFollowsPeriod`, for every calendar and restarts at any step,
  when no session fails (with failing sessions a call that was made on an earlier day may find no open period and
  open one over days that are closed). `ApartInv` says that periods end on expiries, that only the last is open, that
  the row to be inserted starts after all others, and that whoever is about to find no open period comes after
  all of them (`GapIsPast`: what a restart between the two sessions leaves). `FollowInv` says that the open period
  covers the day of each call, or another call under way, of that day or later, is going to see to it.

*Single-leg options*, for any contracts, manual closers, faults, nights and restarts:

* `ExitsStayTyped`: `TypeOK` with the places a coroutine may be at in each mode (`LabelsOK`).
* `ClosesAreAccepted`: `CloseWasAccepted`. `RowInv` ties a row to its fate at the exchange (`RowOK`), gives each call under way a
  PENDING row of its own (`CallOK`, `CallsApart`), and says that an id in memory, or in the saved copy, still names the exit
  that was in doubt (`DoubtsOK`): rows are used again, and an id must not come to name a later order.
* `NothingIsOversold`: `NeverOversold`. An oversold contract takes two exits that each saw the position, so `SaleInv` follows
  what the cycle may still do to a contract: what is flying, resting or remembered of it, and what it is on its list or
  snapshot for, is never more than what is held (`Alone`); and an exit of the cycle acts by what is remembered of its contract
  (`CycleRemembers`). Nothing is claimed of a contract that a manual close or the reconciliation has set out to close;
  `OthersNoted` says that these are noted in time.
* `DoubtsAreRemembered`: the action property `DoubtIsRemembered`, from the same invariants.
* `BooksAreKept`: `BooksCoverHeld`, if the cycle is alone and nothing is in doubt, unreadable or rejected after it was accepted
  (`BooksCalm`: no manual closer, no restart, of the faults orders that age and entries that are rejected, besides calls that
  fail). It speaks of the moments between two cycles; `BooksInv` says at every step which contracts are charged (`Charged`: an
  entry that waits or is held, an exit not yet released), that what is deployed is at least their number, and that whatever
  waits or is held has its journal or is about to get it. An entry is taken only where nothing of the contract waits or is
  held, so each release takes one charged contract away.

*Structures*, for spreads and condors, any bounds and any scenes that meet the hypothesis:

* `StructuresStayTyped`: `TypeOK` with the places of each coroutine; no hypothesis.
* `StopsAreCancelled`: `StopsGuard`, no hypothesis; it speaks of behaviours up to the first restart. `StopInv` says whose the
  stop orders are: the structure's, of legs not yet closed, or the entry's that has yet to track it. The lock makes it so; the
  square-off is without the lock, but comes when the market is closed to new entries.
* `CapitalIsCountedOnce`: `OneCount`, restarts included, if the 10-second job does not meet the structure's last day
  (`FastIsApart`): the square-off takes no lock, and both would release. `CountInv` gives the capital at every step: the
  structure's lot is in `deployed` while it is tracked and not being dropped, or booked and not yet tracked.
* `LegsAreClosedOnce`, `DroppedWhenFlat`: `NeverOverclosed` and the action property `DroppedIsFlat`, in scenes that are `Calm`: no
  restart; not entries that rest with positions that cannot be read; on the last day none of the 10-second job, exits in
  doubt, unreadable positions. All seven scenes of `st_exits` without a restart are. `LegsInv` gives each leg its state: open
  or closed, with no order on its way for it but the one that is remembered (`LegOK`, `DoubtOK`); what has been read of a leg
  against what is held (`ReadOK`); what a coroutine knows of the leg it is at (`AtOK`: it is not known to be closed, the order
  that is resolved is the one remembered, and before another is sent none is); that whoever is about to drop the structure
  has closed every leg (`DropOK`); and that the square-off's pass over all positions meets a leg of the structure on the
  last day only, and has read it as it is (`SquareOK`).
* `NakedLegsAreTold`: `NakedIsReported`, in calm scenes without stop orders that fire, in which no spread's unwind is in doubt
  (`Tells`). `LeftInv` adds to `LegsInv` what an entry that ends without a structure leaves: nothing, or the operator has been
  told. It holds because the legs to take back are those taken (`EntryParts`) and the unwind reports the ones that fail.

*Strikes, paper account, sync.*

* `EntriesAreSound`: `EntryIsSound`, for any listed strikes, prices, nights, quotes and estimates; the table of deltas
  is the model's. The hedge's side does not follow from the quotes, which are unrelated, but from the strikes: what is
  aimed at is apart (`TargetIsApart`, `RehedgedIsApart`), the nearest listed strike is monotone (`NearestKeepsOrder`),
  so no wing turns around, and a strike whose two neighbours are listed is the nearest to itself alone
  (`NearestAmongNeighbours`), so a wing collapses only beside a gap (`ListedKeepsTheSide`). The second half compares
  gates with rules: a short leg's delta of at most 35 at the entry with 40, which also means that it is not breached,
  fourteen days or more with seven, a VIX that is its own, the first day. What is left are the readings of short legs
  (`CalmIsNoExit`).
* `PaperAccountIsSound`: `AccountIsSound`, for any prices and trades, restarts included: balance, positions and blocked margin are
  those that the open trades and the journal account for. The invariant adds what the engine remembers of a trade
  (`TradesHavePrices`).
* `RecordsStayMatched`: `RecordsMatch`, for any number of orders, by program and by hand, and of runs of the sync. `RecordsInv`
  says that placements settle, that a run looks at its orders one after the other in a snapshot of the past, that
  an order has one row, and that the rows inserted are as many as the manual orders they stand for, by an injection
  (`InsertedHaveOrders`), so that none is left for an order of the program.

*Feed, records, universe.*

* `SilenceIsShort`: `SilenceIsNoticed` and `RetryOnlyWhenDown`, for any number of days, faults, deployments and cooldowns. Silence is
  counted from the last attempt, connection or tick, and an attempt made again and again would reset it for ever. `FeedInv` says that
  this does not happen: before the first connection of a session only a token of the day makes the retry thread
  start anew (`OldTokenIsFound`), and that is once a day (`SilenceIsCounted`). The proof attempt showed that the model had let
  whole days pass while the retry thread slept through its minute, in which silence could add up over three days; `Due` came from it.
* `RecordStaysTrue`: `RecordIsTrue`, for days and bars of any length and any failed reads. `RecordInv` asks of the record in Redis and
  of each of the three copies that it be sound by itself (`SoundAt`), so it does not matter which of them overwrites
  which; what ties them to each other is the clock: by the next day what the poll wrote is too old to be used
  (`CloseIsQuiet`), and from the first closed bar of a day on no writer has a copy from before the day (`DayIsSeen`).
* `OnlyListedAreOffered`: `PoolIsActive`, for any stocks. The list is published while the market is closed only, so an offer that is
  young while it is open is of the list that is in force (`PoolIsListed`).
* `WhatIsHeldIsQuoted`: `WantedIsSubscribed` and `HeldIsQuoted`, for any symbols and positions. While `set_instrument_tokens()` is at work
  the ticker's thread has either the tokens of before or those of after, and in both cases what is missing is pushed
  (`TokensMeet`, `LinkIsSound`).

*Signals and regime.*

* `RegimeObeyed`: `RegimeIsObeyed` for any set of strategies. The invariant follows the cycle: from the switching
  to the end of the entries the cycle's regime is the one on record, and whoever is not suited is paused.
* `CrossingsConfirmed`: `CrossingsAreConfirmed` for any numbers of confirming bars. The invariant says that a pending
  count is never more than the bars really read since the direction turned, in memory and in the saved copy,
  unless a cycle's state was lost, and the same of the reversal count and its readings.
* `SignalEarned`: `SignalIsEarned` for any bounds. The invariant ties the counters of a trend to the bars that the
  ghosts have seen, and the reference to the close that established the trend: in an uptrend it never falls below it.

Some theorems name the parts of what a run states as one property. `LimitsHold` is `LimitsTypeOK`, `CapsHold`, `LossIsHeeded` and
the budget; `OneRestingEntry`, `BoughtOnce` and `CapitalIsCounted` restrict `OneRestingEntryPerContract`, `NeverOverfilled` and
the two properties of capital to the environment of `MCOrderRaces` in which they are claimed; `FeedHeals` and
`PositionsAreWatched` are safety properties proved here and liveness properties.

Only model-checked: everything temporal but action properties, as liveness and ENABLED are out of the prover's reach
(`OrdersSettle`, `CatchesUp`, `SquareOffCloses`, `DueIsClosed`, `LeftoversAreClosed`, `CallAnswers`, the second halves of `FeedHeals`
and `PositionsAreWatched`); the budget in `LimitsHold`, which is about one caller and stale orders, where `CapitalStaysCounted` does not
reach; `BooksCoverHeld` in the environments in which TLC refutes it, and with positions that cannot be read and one
lot per contract, in which TLC finds it true; the properties of structures in scenes outside the hypotheses above, of
which the three with one restart matter most.

## 6. Plan

Done, in the order of importance: orders with their abstract ledger, placement, the limits of risk, capital periods, single-leg
options, structures and their rules, the paper account, the feed, the records and the universe, the sync, the
regime and the signals. To come:

1. An abstract specification of one position (opened, closed once, journaled once) that `SingleLegExits` and
   `StructureLifecycle` refine while nothing is in doubt.
2. Theorems: those about legs with one restart, without exits in doubt and with positions that can be
   read; the budget of a strategy with stale orders and one caller.
3. A crash between two of the ten Redis keys of `_persist_state()`, composed with both.

## 7. Not modelled

Numbers that only scale (premiums, Greeks, indicators, fees, scores), wording of messages, HTTP and HTML,
training and backtesting, the external services themselves beyond what the code observes of them. Of the engine:
the scoring of candidates, the shadow trades and traces, the entry gates that only compare numbers. Of the
strategies: the legacy confirmation of momentum, switched off by default, and the stops that only compare
numbers. The strategy monitor's automatic pause does nothing in this code but log. The list of components in
`PROJECT.json` gives the status of each part and the reason; its list of hazards says which of them no property
covers, or not in full.
