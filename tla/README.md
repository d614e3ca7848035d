# Stockboom: models, model checks and proofs

Stockboom is an automatic-trading platform for the Korean stock market: a NestJS
API (`src/apps/api`), BullMQ workers (`src/apps/worker`), a Prisma database
(`src/packages/database`) and a web client (`src/apps/web`). This directory holds
TLA+ modules of the parts of it in which orders, money and state interact,
configurations that check them with TLC on small instances, and proofs, checked by
TLAPS, of the properties that matter most for every size of the instance.

Paths of source files below are relative to `src/apps/api/src` unless they start
with `src/`. `PROJECT.json` maps every definition that models code to its lines.

## How to run

    tlc -config MCCircuitBreaker.cfg MCCircuitBreaker.tla     (likewise for every run below)
    tlapm CircuitBreakerProofs.tla                            (likewise for every *Proofs.tla)

A run of the kind *violation* is expected to end with a counterexample.

## Inventory: the system and what makes it correct

Everything that follows runs in one API process (Node.js: code between two awaits is
atomic, and everything else interleaves), unless it says otherwise. The shared state is
the database, the broker's account (KIS, Korea Investment & Securities), Redis and
a number of in-memory Maps.

| Component | State it keeps | Operations | Interacts with |
|---|---|---|---|
| Circuit breaker (`trading-engine/circuit-breaker.service.ts`) | Maps per user: state, trip time, failure count, successes in HALF_OPEN | canPlaceOrder, recordSuccess, recordFailure, trip, reset, a recovery timer every 60 s | called by order execution, risk manager, controller |
| Order execution (`trading-engine/trading-engine.service.ts`, `risk-manager.service.ts`) | none between calls; Trade rows | executeOrder, validateOrder and its limits, split and scheduled orders, executeStrategy | breaker, KIS, database |
| Auto-trading session (`trading-engine.service.ts`, `market-hours.service.ts`) | activeSessions and strategyIntervals in memory; AutoTradingSession rows | start, stop, pause, resume, processSignal; cron sweeps at opening and closing | the two services write the same rows, one of them without the memory |
| Manual trades (`trades/trades.service.ts`, `src/apps/worker/src/workers/trader.worker.ts`) | Trade rows, the job queue | create, executeTrade, cancelTrade, retryFailedTrade, the worker's job | KIS, fill notices, emergency liquidation |
| Trade transactions (`trades/trade-transaction.service.ts`) | a lock key in Redis, Trade rows | executeTrade: lock, duplicate check, transaction, release | Redis, database |
| Execution notices (`market-data/realtime-event-handler.service.ts`) | subscriptions, Trade and Position rows | handleRealTimeExecution, profit-and-loss timer | KIS web socket, order execution |
| Synchronisation (`market-data/kis-sync.service.ts`, `trading-engine/position-manager.service.ts`) | Position rows, a running flag, a price cache | syncAllBrokerAccounts, syncPositions | writes the rows the notices write |
| Smart orders (`trading-engine/smart-order.service.ts`) | activeOrders, one entry per order with slices and child orders; timers | VWAP, TWAP, iceberg, best-limit, aggressive; cancelSmartOrder | KIS |
| Emergency liquidation (`risk-manager.service.ts`) | none | trip, cancel all open trades, sell all positions | breaker, trades, KIS |
| Signals (`signal-processor.service.ts`, `multi-strategy-orchestrator.service.ts`) | a queue of ten signals, allocations | processing, conflict resolution | session, order execution |
| Web socket (`market-data/kis-websocket.service.ts`, `realtime.gateway.ts`, `websocket/websocket.gateway.ts`) | the socket, isConnected, the map of subscriptions, the reconnect count, a heartbeat; rooms and subscribers of each gateway | connect, reconnect (at most five times), subscribe, restore; clients come and go | both gateways subscribe the same keys; execution notices; live prices |
| Live prices (`market-data/realtime-event-handler.service.ts`, `trading-engine/signal-processor.service.ts`) | priceCache, priceHistory, Stock.currentPrice | a handler per tick, jump detection | web socket, alerts |
| KIS REST client (`market-data/kis-api.service.ts`) | one access token for everybody | requests, token refresh with retries | everything that trades |
| Market hours (`trading-engine/market-hours.service.ts`) | the session last seen; holidays | current session, next opening, cron jobs | sweeps the session rows |
| Company data (`admin/admin.service.ts`, `market-data/opendart.service.ts`) | eleven tables, Stock.lastDataCollectionAt | collect one table, one stock, several stocks, or those with gaps | OpenDART |
| Portfolios (`portfolios/portfolios.service.ts`) | Position rows | addPosition, syncFromBroker | writes the rows of the synchronisers |
| Rebalancing, smart alerts, alerts, audit trail | rows, few Maps | cron jobs and listeners | signals, notifications |
| Strategies, indicators, backtesting, sizing, analytics, AI | mostly none | formulas over candles | order execution |
| Auth, users, watchlist, stocks, other data sources, notifications | rows | controllers | database |
| Workers (`src/apps/worker`) and web client | jobs; pages | | database; API |

### What is hard here

* **Checks separated from their effect by awaits.** canPlaceOrder is asked four awaits
  before placeOrder; the daily limit counts rows that are written after the answer of
  the broker; activeSessions is asked two awaits before it is set; cancelTrade looks at
  a status that it overwrites after the broker's answer.
* **Several writers of one row, by id.** Fill notices, two synchronisations and the
  portfolio service write positions; executeTrade, cancelTrade, retries and notices write a trade; the session
  service and the market sweeps write sessions. None of the writes names the state it
  expects.
* **A broker that answers late or not at all.** An order can be live while its call
  throws; notices can be handled before the row they are about exists, and are lost
  while the socket is down.
* **Timers.** Slices, icebergs, watchers and strategies go on by themselves and meet
  cancellations, stops and restarts anywhere.
* **Restarts.** Maps and timers are forgotten, rows are not.
* **Time.** A Redis key expires under its holder; the breaker's recovery time starts
  anew with each trip; the broker's token ages from when it was made, not from its answer.
* **One resource, several owners who do not know each other.** Two gateways share the
  broker's subscriptions, all users share its token, two administrators collect the
  same company data.

### What makes each component correct

* Breaker: it trips at the threshold, does not resume before time, and is never stuck.
* Order execution: limits are exceeded by no more than the concurrency explains; an open
  breaker lets nothing pass that was not past it already; late results do not close it.
* Session: timers run only for the session in memory; memory and rows agree; what the
  user stopped stays stopped.
* Manual trades: calls that overwrite each other's count grant more retries than allowed, but
  not without end, and one call at a time keeps to the budget; a SUBMITTED trade is being
  worked on; orders are not placed twice.
* Trade transactions: one request inside at a time, no duplicate rows, no lock for ever.
* Ledger: rows never claim more than the broker filled, and FILLED means filled, but for what the
  broker calls complete with nothing filled; positions agree with the broker's holdings when
  nothing overlaps, and are repaired when something does.
* Smart orders: never more at the broker than asked for; COMPLETED means placed; an order
  for which nothing goes wrong ends; plans add up.
* Emergency liquidation: what it reports as done is done; nothing bought meanwhile escapes it.
* Position book: a synchronisation that nobody disturbs is exact, and the rows find back.
* Feed: one connection, its subscriptions restored, nobody silently unsubscribed; after a
  loss it comes back or gives up at the limit.
* Live prices: every jump is announced, against the price that came before it, unless the
  cache was emptied in between.
* Token: none is sent that has expired. Calendar: jobs, sessions and the next opening agree.
* Company data: collected again, an item finds its row; the newest report wins; a stock is
  attempted once a day, and once more per attempt that left no stamp and per call that
  listed it beside another. Backtest: money and trades tell the same.

## The modules

Each component has a specification module and an MC module that instantiates it for TLC; a
`*Proofs` module extends one or several of them. `MCTradeLock`, `MCAccounts` and `MCServices`
instantiate their specifications under variables of their own, so that unrelated ones can be
run, or proved about, together.

### CircuitBreaker, TradingGate

`CircuitBreaker` has the service's four Maps as functions of the user and one action per
method: `RecordFailure`, `RecordSuccess`, `Trip`, `Reset`, `AttemptRecovery` (the timer's
callback), `Tick` (a minute goes by) and `Restart`. A method does all that concerns this
state before its first await, so it is one step. Trip times are kept as the time since the
trip, up to the recovery time; failure counts up to the threshold: the code compares them
with nothing larger. Callers are arbitrary: results come in any order and at any time.

`TradingGate` is the abstract promise: a gate is *allowed*, *blocked* or on *trial*;
blocked becomes trial only after the full quiet time since the latest trip, and trial
becomes allowed only with the full number of successes earned in that trial (or by hand).
`ImplementsGate` maps the breaker to it: what `trip` leaves behind in the counters is
mapped away, so refinement shows that the stale counters never matter.

### OrderExecution

The calls of `executeOrder` of one user, each a stage per await: limits, the other risk
checks, placing, the broker's answer, `trade.create`. It composes with the breaker by
`Breaker == INSTANCE CircuitBreaker`: a failed call performs `Breaker!RecordFailure`, an
answer `Breaker!RecordSuccess`, in the same step as in the code. Lost answers, failing
reads and writes, trips, resets and crashes occur at every await. `overtaken` and
`failedInRow` are history variables.

### TradeLifecycle

One Trade row with its job, and calls of `create`, `executeTrade`, `cancelTrade`,
`retryFailedTrade` and of the fill notices on it, each interrupted at every await and
working on from the row it read (`seen`). The broker has `placed` orders, of which some are
`live`. `retries` counts the retries that were granted, which is not what the row's
`retryCount` says: a call sets that to one more than it read, so a late write takes back what
others have counted. `counted` (how often the count was set to at most k), `unsure` and
`overlapped` are the other history variables.

### TradeLock

`TradeTransactionService.executeTrade` of several requests for the same trade: SET NX PX,
retries, the duplicate check, the transaction, the compare-and-delete script. Requests die,
answers of Redis get lost, the key expires, two requests may carry one token. `near` records
pairs of rows too close together, `overstayed` that a request was inside for LOCK_TTL.

### TradingSession

`startAutoTrading`, `stopAutoTrading`, `pauseAutoTrading` and `resumeAutoTrading` split at
their awaits, the timers per strategy, `processSignal`, and the sweeps of
`MarketHoursService`, which read the rows first and write them one by one.

### ExecutionLedger

From a fill at the broker to the books: fills of any part of an order, notices in order, their
handlers interleaved, `updateTradeStatus` and `updatePositionFromExecution` with the read and
the write of the position as two steps, and `syncBrokerAccount` (holdings, rows read, rows
written). Position rows have identities, so that a write that rests on a deleted row throws as
Prisma does. The code reads `filledQuantity` of a notice as the order's total in one place and
as the amount of this fill in another; the variable `cumulative` is what the broker means by
it, either in every run and proof, and the same throughout a behaviour. `SaidComplete` are
orders that the broker calls complete with nothing filled, which the code takes for FILLED.
`troubles` (bounded by MaxTroubles) counts what disturbs the books: a notice lost, a handler or
synchronisation that throws, a refused request, a handler that begins beside another. `course`
remembers whether anything did, and whether a notice was handled before its row was there.

### SmartOrder, SlicePlan

`SmartOrder` models the five order types as chains of callbacks (workers) over
`activeOrders`, with `Date.now()` as id: timers of slices, the iceberg's chain, the watcher
of a best-limit order, the levels of an aggressive one, and cancellation, which interleaves
with all of them. `SlicePlan` models the loops that compute the quantities
(executeTWAP, executeVWAP, executeIceberg and executeSplitOrder), one step per turn; the two
are separate because the timing does not depend on the sizes.

### EmergencyLiquidation, PositionBook

`EmergencyLiquidation` has RiskManagerService.emergencyLiquidation as a call per await:
find the open rows, cancel one after the other (`Cancel`, then `RowCancelled`), look at
the holdings, sell. Orders are executed, accepted, recorded, filled and noticed between any
two of these steps, and two liquidations may cross. `missed` is a history variable: the
open orders a call could not see or whose refused cancellation it did not read; `blind`
are the calls that took a refused request for an empty account.

`PositionBook` has the three calls that copy the broker's holdings into the Position rows
(KisSyncService "kis", PositionManagerService "manager", PortfoliosService "broker") and
addPosition, one step per row read or written. Rows have identities as in ExecutionLedger.
`MCAccounts` checks both in one run: a behaviour is one of either.

### KisSocket, MarketFeed

`KisSocket` is the connection: `connect` is split at its awaits (`BeginConnect`,
`CreateSocket`), the events of a socket (`Open`, `GoesDown`, `CloseEvent`) come in any order
among sockets, `AttemptReconnect` sets a timer, and an operator connects and disconnects at
any time. `Crash` is an error nobody catches: a `connect` in the reconnect timer that
rejects, or the heartbeat's ping on a socket that is opening. `MarketFeed` EXTENDS it with
the handlers of both gateways and states what clients rely on. The handlers do not ask whether
a client listens to the key it unsubscribes, and so the actions have requests of clients that
never did: one of them unsubscribes a key whose room is empty (websocket.gateway.ts:104), or
whose entry in symbolSubscribers a failed subscription left empty (realtime.gateway.ts:142),
under the listeners of the other gateway. `crossed`, `refused` and `forgotten` are history
variables; `forgotten` are the keys lost in one of three ways: asked for without a connection;
unsubscribed at the other gateway when that had no listener left, by its last client or by one
that never listened; cleared by disconnect().

### The services: CompanyRows, CompanyData, PriceTicks, KisToken, MarketCalendar, Backtest

* `CompanyRows` has a collection as the list of its writes: per table, the key an item is saved
  under, whether the write is reached and does not throw, and whether it updates a row that is
  there. It compares a third collection with a second; it has no steps, only every pair of
  short lists as initial states.
* `CompanyData` is the collection around it: the tries of reports (`NextTry`), the tasks of a
  stock, the stocks an automatic call takes (`Listings`, `Cut`), the stamp, failures and restarts.
  The code keeps no trace of an attempt that was cut off before its stamp. `attempts` is a history
  variable: the automatic attempts at a stock since it was last due, less those it may have on
  that account.
* `PriceTicks` has a handler per tick, whose await on the write of the row lets later ticks
  pass it, and the history that SignalProcessorService keeps of what is handed on. The last
  unsubscription of a symbol (realtime-event-handler.service.ts:493, called from
  realtime.gateway.ts:148) and a restart empty the cached price; `dropped` remembers where.
* `KisToken` has the requests that use or renew the token side by side, with latencies.
* `MarketCalendar` goes through 2026 from one minute that matters to the next, runs the jobs of
  a minute in any order and lets the process end and begin again.
* `Backtest` goes through the candles of two stocks day by day, with rounding as in the code;
  amounts are in ten-thousandths, so that slippage and commission are whole numbers.

`MCServices` checks them, and SlicePlan, in one run: they share no state, so a behaviour is
one of a single part while the others rest in an initial state. CompanyData is there twice, with
two stocks (`Company`) and with one of which more is published (`Single`).

## The runs

| Run | Module | What it asks | Bounds |
|---|---|---|---|
| `breaker` | MCCircuitBreaker | counters consistent with the state, recovery earned, never stuck, implements TradingGate, OPEN is left | 2 users; thresholds 3, 2, 2, so each counter passes through its bound and below it |
| `orders` | MCOrderExecution | overshoot of the daily limit bounded; only overtaken orders pass an OPEN breaker; no result closes it | 5 orders, 3 at a time, 2 trades a day, thresholds 2, 1, 2: more calls in flight than the limit, and orders left after a trip and a recovery |
| `trade` | MCTradeLifecycle | retries granted are bounded; SUBMITTED is under way; serial use is safe | 2 calls at a time, 2 retries, 2 broker orders, 1 job: two calls are enough to overwrite each other's count, and each slot runs call after call. States that differ only in what no step and no property reads are one (`WhatCounts`) |
| `trade_cancelled` (violation) | MCTradeLifecycle | a filled trade is not cancelled | 2 calls, 1 order |
| `lock` | MCTradeLock | exclusion, no duplicates, the key goes away | 2 requests, 2 tokens, life 3, retries 2, window 2; the theorems cover any number of requests |
| `session` | MCTradingSession | timers belong to the session; memory and rows agree | 2 calls at a time, 2 strategies, 3 sessions: a session before, one under way and one that is started meanwhile |
| `ledger` | MCExecutionLedger | rows never ahead, FILLED at the whole size only; rows exact with totals and positions with amounts when undisturbed; the synchronisation repairs | a buy of 2 shares and a sale of 1, which may be called complete with nothing filled; fills of one share or two, both ways of counting; one trouble: two handlers beside each other, or a failure, a lost notice or a refused answer; three identities of the Position row, so that it is created, changed, sold out and created again |
| `smart` | MCSmartOrder | never over-ordered; COMPLETED is placed; orders end | an order of each kind, four slices or levels, two spikes, refusals or lost answers, a cancellation at any point |
| `feed` | MCMarketFeed | one feed; restored subscriptions; gives up only at the limit; listeners keep their subscription; comes back | 3 sockets, so that a third can be made while two are under way; 2 attempts, 2 operator commands, a symbol, two clients of one gateway and one of the other |
| `accounts` | MCAccounts | nothing left open or unsold after a liquidation; an undisturbed synchronisation is exact; the rows converge | 2 orders of 2 shares against one liquidation, and one order against two; the cron and a user's call, 2 stocks, 1 change of the account, 2 faults |
| `services` | MCServices | slices add up; recollection adds no row; the first report is stored; once a day; jumps are announced; tokens sent are live; jobs, sessions and next opening agree; money adds up | plans of up to 12 shares in up to 6 slices; every list of two items, collected three times, into each table; 2 callers, 2 stocks, 2 reports of one task, one of which is published, automatic calls of both stocks, 1 failure or restart, and the same with one stock of which both reports are published; 3 ticks, up by the threshold or down by less, with unsubscriptions and restarts between them; 2 users of the token, margin 2, life 5; the year 2026 with one outage; 2 stocks over 3 days |
| `spike` (violation) | PriceTicks | a tick is compared with the price of a minute ago | 3 ticks |

Deadlock is checked in `breaker`, `lock` and `session`, which always have a step. The others
run out of orders, trades, fills, slices, commands or days: their runs switch the check off.

Each module states its types as `TypeOK`. It is not a run's property of its own: where
there are proofs it is part of the proved inductive invariant (see below).

Every property of a passing run has a *mutant*: an operator beside the definition it
changes, commented "Mutated form", that alters the model as a plausible slip in the code
would; the property is violated when it takes the definition's place.

### Fairness

* `CircuitBreaker`: weak fairness of `Tick` and of `AttemptRecovery` per user, because
  setInterval runs every minute. Callers are not fair. `OpenRecoversUnlessRetripped` does not
  claim more: a breaker that is tripped again and again stays OPEN.
* `TradeLock`: weak fairness of time and of each request's next step (an await ends with an
  answer, an error or the death of the process).
* `ExecutionLedger`: weak fairness of delivery (`Receive`), of some handler's next step, and of
  the synchronisation's steps (a cron every five minutes); the broker is not fair, and troubles
  are bounded by a constant.
* `SmartOrder`: weak fairness of each worker (timers and answers) and of fills.
* `TradeLifecycle!DeployedSpec`: weak fairness of the queue and its worker.
* `MarketFeed`: weak fairness of the connection as a whole: requests are answered, timers fire,
  a socket that is opening opens or goes down, a close event is delivered. Nothing says
  that an attempt succeeds, nor that clients or operators ever act; crashes may go on for ever,
  which `ComesBack` excludes in its premise.
* `PositionBook`: weak fairness of each call's next step (requests end) and of the cron's start
  (every five minutes); users' calls, trades and faults are bounded and not fair.

## What is proved

All for arbitrary constants under the named assumptions of the modules, which TLC evaluates in the
runs: thresholds, limits and times are natural numbers, positive where zero would mean no
limit, sets that are counted are finite, and kinds of orders and special values are distinct (`ThresholdsAssumption`, `OrdersAssumption`,
`LifecycleAssumption`, `LockAssumption`, `SessionAssumption`, `LedgerAssumption`, `SmartAssumption`,
`SocketAssumption`, `LiquidationAssumption`, `BookAssumption`, `CalendarAssumption`,
`DataAssumption`); no request is for nothing (`PlanAssumption`); the margin of a token is shorter
than its life (`TokenAssumption`); prices are positive and commission and slippage percentages
(`TestAssumption`).

| Module | Theorems | Argument |
|---|---|---|
| CircuitBreakerProofs | BreakerInvariant, ClosedStaysBelowThreshold, NeverStuckOpen, ProbationIsEarned, BreakerImplementsGate | `BreakerInv`: the three properties and the types are inductive together: that attemptRecovery finds the time elapsed needs that it knows the trip time. The refinement maps each action to one of the gate's, or to a stutter, in states that satisfy it |
| OrderExecutionProofs | BreakerKeepsItsInvariant, EngineObeysTheGate, OrdersInvariant, OvershootBounded, LeaksOnlyOvertaken, OpenClosedByHand | Every step of the engine is a step of the breaker or leaves it alone, so its invariant and its refinement of TradingGate carry over. `OrdersInv` counts rows together with the calls past their count: the rows alone are not inductive, since a call may add a row long after it was let through |
| TradeProofs, life of a trade | LifecycleInvariant, RetriesStayInBudget, SubmittedMeansUnderWay, SerialCallsAreSafe | `LifecycleInv` adds what a call between two awaits may rely on: the retryCount it read is within the budget, although the row has moved on. RetriesStayInBudget bounds the retries granted, n calls at a time granting n + n² + ... + n^MAX_RETRIES at most: `BudgetInv` counts, for each value k, how often retryCount is set to at most k together with the calls that hold a row saying so (`Holding`), since each time the row comes down to k every call may read it, and write k + 1 once. `SerialInv` is for one call at a time: the row is then as the call has read it, counts every retry, and nothing is placed while the trade may still be executed |
| TradeProofs, lock | LockInvariant, LockExcludes, NoDuplicates | `LockInv`: who is inside holds the key for exactly the rest of its time, and what its duplicate check found is still true; pairs of rows too close together have a member that can no longer commit |
| TradeProofs, liquidation | NoOpenOrderIsLeft, NoShareIsLeft | The properties speak of calls that are done. `OpenIInv` says where an open order is during a call: missed, or still to be cancelled by a number the call holds. `SaleIInv` is an inequality that every fill, sale and refusal keeps: of a share, what the account holds is at most what is in open sales, what the call still has to sell, and the purchases of orders it missed |
| TradeProofs, position book | UndisturbedSyncIsExact | `SyncIInv` follows one call through its loops: what it listed is the account, the rows it is past are copied or gone, and what it knows of those to come is still so; each kind of call in its own order |
| TradingSessionProofs | SessionInvariant, TimersNeverLeak, MemoryAgreesWithRows | `SessionInv`: what memory, timers and rows look like at each await of the one call under way, weakened by what a sweep or failure may have written |
| ExecutionLedgerProofs | LedgerInvariant, TradeRowsFollowBroker, PositionFollowsHolding | `LedgerInv` adds that every notice, in the inbox or in a handler, tells of fills that have happened, so a handler that is late or out of order cannot write more than was filled. `RowsFollow`, while nothing disturbs the books and notices tell totals: the last notice of an order tells all that is filled of it, and an order whose row is behind has a notice or a handler to come. `Exact`, with amounts: the account went through a sequence of holdings, one per notice of the inbox, and the position is where the first one, or the one in a handler, starts from (`BooksFollow`). That position is exact of amounts only, and the rows of totals only, is part of the properties; the other two are false, see below |
| SmartOrderProofs | SmartTypes, NoOrderIsExceeded, CompletedMeansPlaced | `SmartInv`: what is accepted follows from the stages of the workers, kind by kind (`KindInv`: a slice is asked for once by its worker; an iceberg's one worker asks for one at a time; an aggressive order asks for what is left), and a worker reaches another request only if both have one id (`LinkInv`) |
| MarketFeedProofs | FeedTypeOK, FeedIsSingle, FeedIsRestored, ListenersKeepSubscription, FeedGivesUpLate | `FeedInv`. That there is one socket is not inductive: `OneChain` counts calls, timers and sockets together, each of which turns into the next, as long as no connect() crosses them. `ListenInv` counts an empty entry of symbolSubscribers as a listener, since the next client relies on it. `RestInv`: a service that is connected has a socket whose close event is still to come, which then sets the timer |
| ServicesProofs | TokensAreLive | `TokenIInv`: the expiry the service keeps is at most a broker's answer too late for the token it keeps, whoever's renewal wrote last |
| ServicesProofs | CalendarIsFollowed, NextOpeningIsTheNext | `CalendarIInv`: what the jobs still to run in this minute will change. The next opening is a search over at most a week, and the least minute of its boundaries |
| ServicesProofs | JumpsAreAnnounced | `PricesIInv`: what each handler compares with is the tick before its own, or nothing if the cache was emptied in between, whatever has become of the row |
| ServicesProofs | PlansAreWhole, MoneyIsKept | `PlanIInv`: the slices so far total what is no longer left, and the loops run out of shares no later than of turns. `MoneyIInv`: money and the cost of the position total the capital and the results, at each stock of each day; a prudent entry costs no more than the money, a prudent exit brings in no less than nothing |
| ServicesProofs | FirstReportIsStored, AttemptedOncePerDay | `CompanyIInv`: an untroubled task has no report before the one it is at, and those behind it have rows. What other calls publish, store and stamp only adds to this (`SoundStays`). `AttemptsCounted`: of each stock the attempts counted and the calls that still have it on their lists are at most one together, and none when it is due and on no list; a call that lists it, begins it, stamps it or is cut off moves one between the two |
| ServicesProofs | RowsAreFoundAgain | No induction over steps but over the list, of any length: a collection adds the keys of the writes that are done and takes none away (`UpsertsAddKeys`), and, but for the tables named in the property, the keys do not depend on when it is made (`KeysAreLasting`) |

**Sums and lists.** Plans, backtests and rows are folds over sequences of any length. The induction
theorems of the library take the hypothesis as an operator, which the provers cannot
instantiate; `InductionOnSets` takes a set of numbers instead, and follows from the
well-foundedness of the naturals (`NatLessThanWellFounded`, `WFMin`): the numbers outside the set
have no least one. From it come existence and uniqueness of the functions the folds stand
for, and what one more element adds (`TotalAppend`, `WriteAddsKey`).

**What the proofs changed.** Where the model could not be reasoned about, it was put differently:
a collection in CompanyRows is the list of its writes instead of a fold with a key operator; the
cases of `SessionAt` in MarketCalendar overlapped at a boundary (TLC takes the first, TLA+ any),
which an attempted proof showed, and now exclude each other; that a backtest is not overdrawn
needs what `Prudent` says, a percentage of at most 100 and prices that bring in the
commissions, and the code checks neither.

**Only model-checked**: the liveness properties (`OpenRecoversUnlessRetripped`, `LockIsFreed`,
`SyncRepairs`, `SmartOrdersEnd`, `ComesBack`, `Converges`), which need fairness, and the two
properties that are violated. Every invariant and action property of a passing run is
the subject of a theorem. `OpenRecoversUnlessRetripped` has its safety half, `NeverStuckOpen`, proved.

## Where the code departs from its words

The two violation runs show disagreements between a comment or message of the code and what
it does; `PROJECT.json` quotes the words under "findings". The modules state more of them, as
properties beside the ones that hold. They are false of the code; TLC finds a counterexample
when the property is checked in place of the run's own, with these constants:

| Property (module) | What happens | Constants, where they differ from the run's |
|---|---|---|
| AllTradingBlockedWhileOpen (OrderExecution) | An order past canPlaceOrder (risk-manager.service.ts:83) reaches the broker after the breaker opened; circuit-breaker.service.ts:11 says all trading is blocked | as `orders` |
| DailyTradeLimit (OrderExecution) | Calls that count the rows together (risk-manager.service.ts:297) exceed maxDailyTrades; the bound that holds is DailyOvershootBounded | as `orders` |
| FailuresInRowTrip (OrderExecution) | recordSuccess (trading-engine.service.ts:366) clears the failure count before trade.create throws: calls that all fail this way never trip the breaker | MaxConcurrent = 1 |
| OnlyRejectedIsRetried (TradeLifecycle) | Two retries of one rejected trade; the second writes PENDING over what the first has led to (trades.service.ts:300) | MAX_RETRIES = 3, MaxOrders = 1 |
| CancelledIsNotLive (TradeLifecycle) | cancelOrder reports a refusal in its result (kis-api.service.ts:692), which cancelTrade does not read: CANCELLED with the order open | one call |
| RefusedAfterAllRetries (TradeLifecycle) | The catch clause of executeTrade (trades.service.ts:198) and retryFailedTrade (304) both add to retryCount: a trade that keeps throwing is refused after one retry of three | one call, MAX_RETRIES = 3 |
| QueuedTradeIsExecuted (TradeLifecycle) | TraderWorker.processJob logs and returns (trader.worker.ts:34), and nothing else executes a created trade | DeployedSpec, one call |
| DuplicatesPrevented (TradeLock) | The key expires after LOCK_TTL under a request that is still inside, and nothing in the transaction asks for it | as `lock` |
| StoppedStaysStopped (TradingSession) | A sweep that has read the row before the stop writes it after it (market-hours.service.ts:442-484): what the user stopped is PAUSED, and RUNNING with the next opening | as `session`, MaxRows = 2 |
| OneRunningSession (TradingSession) | activeSessions is asked at trading-engine.service.ts:76 and set at 104: two starts both create a RUNNING row | as `session`, MaxRows = 2 |
| PausedPlacesNoOrder (TradingSession) | Pausing keeps the entry that processSignal asks for (trading-engine.service.ts:249) | as `session`, MaxRows = 2 |
| StopClosesSession (TradingSession) | Stopping a paused session updates RUNNING rows only (trading-engine.service.ts:158); the next opening of the market revives the row | as `session`, MaxRows = 2 |
| NoTimerWithoutSession (TradingSession) | A resume during a stop sets timers that the stop then leaves without a session | as `session`, MaxRows = 2 |
| EarlyNoticeCounts (ExecutionLedger) | A notice that is handled before trade.create has written the row finds no row and is dropped (realtime-event-handler.service.ts:207) | as `ledger` |
| PositionExactOfTotals (ExecutionLedger) | With notices that tell totals the first of two fills is counted twice (realtime-event-handler.service.ts:278) | as `ledger` |
| FilledOrderIsFilled (ExecutionLedger) | With notices that tell amounts an order filled in parts stays PARTIALLY_FILLED (realtime-event-handler.service.ts:214); with totals it holds | as `ledger` |
| FilledMeansFilled (ExecutionLedger) | A notice that says complete ('완료') makes the row FILLED with nothing filled (realtime-event-handler.service.ts:219) | as `ledger` |
| PartsOfTheWhole (SmartOrder) | Two orders of one millisecond and one symbol share an id (smart-order.service.ts:92): the slices of the one are booked on the other | two icebergs, MayCoincide = TRUE, Slices = 2 |
| OneSliceShown (SmartOrder) | The iceberg's next slice is placed after five seconds, filled or not (smart-order.service.ts:524) | Slices = 3 |
| SkippedSliceRetried (SmartOrder) | A slice skipped in a spike has no timer any more (smart-order.service.ts:410); its order stays ACTIVE | FairSpec, Slices = 2 |
| CancelledLeavesNothingOpen (SmartOrder) | A callback that waits for the broker places its slice after the cancellation (smart-order.service.ts:654) | Slices = 2 |
| CompletedIsFilled (SmartOrder) | The history is searched for an id it never contains (kis-api.service.ts:247 and 579): the first look completes a best-limit order that is open | SameNumbers = FALSE |
| AggressiveIsCompleted (SmartOrder) | The quantity sent at market is not subtracted (smart-order.service.ts:385): the order stays ACTIVE | Slices = 2 |
| TwapEven (SlicePlan) | Rounding up makes 3, 3, 1 of seven shares (smart-order.service.ts:214) | Rates = {5} |
| VwapSpread (SlicePlan) | With the default participation rate the last slice takes most of the order (smart-order.service.ts:177) | Rates = {5} |
| InsiderRowsOnce (CompanyRows) | Nothing is unique about an insider trade, so create never fails "on duplicate" (admin.service.ts:1763) and each collection adds all rows again | as `services` |
| NothingFoundNothingMissing (CompanyData) | The query takes a hundred stocks before those with gaps are picked out: "no stocks with missing data found" (admin.service.ts:2676) while others have gaps | as `services`, Window = 1 |
| TokenFitsCredentials (KisToken) | The one cached token is given to every user, whose own key (kis-api.service.ts:41) then goes with a token made out to another | as `services` |
| RowHoldsLastPrice (PriceTicks) | The write of an earlier tick may reach the row after that of a later one | as `spike` |
| OpenAtItsPrice (Backtest) | A position left open is valued at the last price loaded, of whatever stock (backtesting.service.ts:197) | as `services` |

The passing properties are what remains true: how far a limit can be overshot, which orders an
open breaker lets through, which calls must not overlap for the books to agree.

Beyond the models: scheduled orders are queued in `scheduled-orders`, which no processor
consumes, so they are only ever expired (trading-engine.service.ts:717); the scheduled
rebalancing passes no targets (auto-rebalancing.service.ts:286-319) and never trades. Several
events have no listener, or listeners of another name: `circuit.break` and
`circuit-breaker.tripped`, `trade.filled` and `trade.executed`, `rebalance.order`, `trading.order`,
`trading.close-positions`, `signal.price-spike`. `subscribeExecution` is never called, so that fill
notices come only if the broker sends them unasked. A collection whose requests were all
refused still reports success and stamps its stock. The backtest's equity curve leaves out
the money that is invested, its FIXED sizing does not look at the capital, and nothing calls it.

Within the models, but behind the premise of a property: an answer of KIS without a list of holdings
is an empty list (kis-api.service.ts:435), on which a synchronisation deletes positions that are
held (`SyncRefused` in ExecutionLedger, `Start` in PositionBook) until the next one brings them
back. A jump across an unsubscription or a restart is compared with nothing and not
announced. Two automatic collections side by side both attempt the stocks they both listed, and
an attempt cut off by a restart is repeated the same day.

## Assumptions and abstractions

* Code between two awaits is one step; awaited database statements are atomic.
* One user (two in `CircuitBreaker`), one trade, one stock or one symbol per module: the
  code keys its Maps and rows by them, and the models keep what is shared among them.
* Prices, amounts and reasons are left out; the loss and position limits answer anything.
* Of KIS: an order is accepted before its answer arrives; answers may be lost; the socket
  delivers in order and loses what is sent while it is down; a notice carries the order
  number that placing the order returned.
* Bounds: MaxRows, MaxRowId, MaxOrders, MaxJobs,
  MaxRequests, MaxTroubles, MaxFaults and MaxConcurrent cap what could grow without end; none of
  them is in the code.
* In PositionBook the broker lists no stock of which nothing is held. In KisSocket the broker
  accepts each registration; the orderbook's key, which nothing unsubscribes, is left out.
* In KisToken `UsedTokenIsLive` has the premise MaxLatency + MaxUse <= MARGIN: an answer and the way
  from the token to its request take no longer than the code's five minutes.
* MarketCalendar has the server's clock in the market's time zone, as the code reads hours and
  weekday of every market from it, and the holidays of the code: only Korean ones, of 2026.
* Bounds of the services: MaxTime, MaxPublished, MaxTicks, MaxOutages, MaxTrades, MaxCalls and Commands.
* In SmartOrder a request is cancelled at most once, and a watcher's look at the history is
  over before the next one starts.

## Not modelled, and why

The note of each component in `PROJECT.json` says so one by one. In short:

* **No behaviour in this code.** Scheduled orders (no consumer of their queue), the signal queue and
  the orchestrator (no input), smart price alerts (lists that are always empty), scheduled
  rebalancing (no targets), the workers (placeholders: the candles they fetch are an empty list, and
  nothing adds to the queue `event-analysis`), the rate-limit guard (applied nowhere).
* **Formulas over floating-point data**: indicators, sizing, statistics, equity curve, Monte Carlo.
* **Requests and reshaping**: public data services, language models, notifications, prompts.
* **Single reads and writes of a row** behind a controller: auth, users, stocks, watchlist, keys.
* **The web client**, about half of the source by lines, whose pages keep no state that the API relies on,
  and the seed data of the database.

## What could follow

1. Proofs that the invariants of components that interact hold in their composition, as
   BreakerKeepsItsInvariant does for the breaker within OrderExecution.
2. `executeStrategy` on top of OrderExecution, and the amounts behind the loss and position limits.
3. The feed composed with ExecutionLedger, so that notices lost while the socket is down
   are lost because of the modelled connection.
4. The scheduled orders and the signal queue, once something consumes and feeds them.
