# Torum in TLA+

Torum trades gold on a MetaTrader 5 account.  A web application talks to an API (FastAPI,
one worker process, PostgreSQL), the API talks to a bridge that runs beside the MT5
terminal, and the bridge posts ticks, positions and deals back to the API.  Paths below are
relative to `src/`.  `services/api/app` is written `api`, `services/mt5_bridge/bridge` is
written `bridge`.

This directory holds models of Torum, the TLC configurations that check them, and theorems
about them proved with TLAPS.  The models cover 31 % of the lines of the implementation
(tests excluded); `PROJECT.json` maps every definition to the lines it models.

| module | models | checked with | proofs |
|---|---|---|---|
| `MT5Access` | the lock of the terminal, `bridge/mt5_access.py` | `MC_Bridge` | `Bridge_proofs` |
| `TickBuffer` | the tick sender, `bridge/tick_buffer.py` | `MC_Bridge` | `Bridge_proofs` |
| `TorumOrders` | one entry from signal to reconciled position, five files of API and bridge | `MC_TorumOrders` | `TorumOrders_proofs` |
| `TradeJobs` | the durable queue, `api/trade_jobs/service.py`, `api/strategies/auto_runner.py` | `MC_TradeJobs` | `TradeJobs_proofs` |
| `Pullbacks`, `TorumSetup` | the pullback detector and the decision, `api/strategies/torum_v1.py` | `MC_TorumV1` | `TorumV1_proofs` |
| `TorumBacktest` | backtest, replay, simulator, chart | `MC_TorumV1` | `TorumV1_proofs` (backtest, simulator) |
| `TorumV1` | the live strategy: runs, lock, parameters, entries | `MC_TorumV1` | `TorumV1_proofs` |
| `EntryCycles` | abstract specification that `TorumV1` implements | `MC_TorumV1` | `TorumV1_proofs` |
| `PositionLife` | the row of a position: close, take profit, sync, jobs | `MC_PositionLife` | `PositionLife_proofs` |
| `MarketFeed` | ticks, candles, candle triggers, price alerts | `MC_MarketFeed` | `MarketFeed_proofs` |
| `RiskSnapshots` | the risk snapshot and its dirty flag, `api/risk/snapshot.py` | `MC_Accounts` | `Accounts_proofs` |
| `StopOut` | the stop-out line, `api/risk/stopout.py` | `MC_Accounts` | `Accounts_proofs` |
| `Performance` | capital ledger and report, `api/performance/service.py` | `MC_Accounts` | `Accounts_proofs` |
| `DollarStrength` | the dollar filter, `api/market_context`, and its twin in the backtest | `MC_Accounts` | `Accounts_proofs` |
| `BacktestJobs` | the pool of backtests, `torum_v1_backtest_jobs.py` | `MC_Operations` | `Operations_proofs` |
| `Watchdog` | restarts and status, `services/watchdog/app/main.py` | `MC_Operations` | `Operations_proofs` |
| `NewsCalendar` | economic calendar and no-trade zones, `api/news`, `api/no_trade_zones` | `MC_Operations` | `Operations_proofs` |

## 1. The system

### Components

**Terminal access** (`bridge/mt5_access.py`).  State: owner thread, depth, number of waiting
orders, one condition variable.  Operation: `acquire(priority, operation)`, re-entrant.
Called by every thread of the bridge around every call of the MetaTrader5 package.  Hard:
threads at three priorities, nested blocks, counts kept over `wait()`.  Correct when one
thread is inside at a time, the counts are exact, and an order never waits behind polling.

**Tick collection, buffer and sender** (`bridge/tick_collector.py`, `bridge/tick_buffer.py`).
State: the last tick seen, a bounded deque, a sender thread.  Hard: a batch is posted without
the lock while the collector adds and drops; answers are lost; accounts are switched.

**Tick ingestion, candles and triggers** (`api/ticks`, `api/candles`,
`api/strategies/candle_trigger.py`).  State: tables `ticks` and `candles`, the last M5 bucket
in memory.  Operations: ingest a batch, build and merge candles, trigger the strategy when a
candle closes, with a fallback job before the answer and a background task after it.  Hard:
batches come late, twice and two at a time; the task dies with the process.  Correct when a
candle is its ticks, and every close is evaluated on candles that are final.

**Price alerts and push** (`api/alerts`).  Evaluated in background tasks after every batch.
Correct when an alert fires once and in time.

**Signal detection** (`api/strategies/torum_v1.py`).  Pure: pullbacks, confirmation, zones,
supports, spacing, unlock rule.  **Backtest, replay, simulator, chart**
(`torum_v1_backtest.py`, `torum_v1_simulator.py`) repeat the decision with bookkeeping of
their own.  Correct when they agree with what was done live.

**Strategy runner** (`api/strategies/runner.py`).  State: `StrategySignal` rows, the symbol
lock and the JSON parameters of a configuration.  Hard: its last commit writes a signal it
loaded before a network call; parameters are read, changed and written whole by runs, sync,
manual unlock and editor.  Correct when one technical setup buys once.

**Exposure planner** (`api/strategies/ath.py`).  No state of its own: three SELECTs over
positions, orders and signals, and a cut of the wished multiplier to the capacity left.
Correct when the account never holds more than `max_equivalent_positions`.

**Order manager** (`api/orders/service.py`).  State: `Order` rows and the position row it
inserts.  Hard: the bridge call can time out, the reply can be ambiguous or lack the ticket,
and the row stays locked during the call.  Correct when EXECUTED means filled and FAILED
means never filled.

**Bridge order execution** (`bridge/order_executor.py`, `bridge/order_server.py`).
Operations: market order, close, modify, list, look for the closing deal.  Hard: `order_send`
may return nothing, "placed" without a deal, or a fill whose position is not visible yet.

**Position syncer** (`bridge/position_syncer.py`, `bridge/backend_client.py`).  State: the
deal cursor.  Operation: a cycle of snapshot, history pass, post (repeated up to three times)
and cursor move.  Hard: the snapshot is older than the history and older than the moment it
is applied; a payload whose answer is lost is applied again; a restart loses the cursor.

**Position reconciliation** (`api/positions/service.py`).  State: `Position`, `Order` and
`StrategySignal` rows.  Operations: `sync_mt5_positions` (match, refresh, insert, close on a
deal, close after consecutive absences, rebuild a position that was never seen open, release
reservations), the close endpoint, take profit changes and repairs.  Correct when rows agree
with the account in the end and no stale payload undoes the truth.

**Trade job queue** (`api/trade_jobs/service.py`).  State: `TradeJob` rows.  Hard: enqueuers
read without a lock and write at their commit, coalesced jobs are asked for again while they
run, and the process may die at any point.  Correct when no accepted work is lost, no
finished work is repeated, and attempts are bounded.  **Immediate strategy run**
(`api/strategies/auto_runner.py`) retires the delayed job enqueued as its fallback.

**Risk snapshot** (`api/risk/snapshot.py`, `stopout.py`).  State: one snapshot per account in
memory and in a table, a dirty flag, a coalesced job.  Correct when no change of the account
is hidden by an older snapshot.  The **stop-out line** is found by bisection.

**Performance** (`api/performance/service.py`).  State: movements of capital, imported from
MT5 or entered by hand.  Correct when the ledger is the account and its periods add up.

**Backtest jobs** (`torum_v1_backtest_jobs.py`): a pool in memory with cancel and pruning.
**News calendar** (`api/news`, `api/no_trade_zones`): events of official sources, events of
the user, and zones made of both in second commits.  **Watchdog** (`services/watchdog`):
restarts of terminal, API, web server and bridge, and a status.
**Dollar filter** (`api/market_context`): daily candles of a synthetic DXY, rows with a
verdict that last a day, a scheduler and a cache of an hour; the backtest repeats the verdict
from the stored candles.  Correct when no old row filters a signal and the two agree.

Distributed state, websockets, drawings, users and settings, the web application and
migrations are not modelled; section 12 says why.

### How they interact

    web app --HTTP--> API --HTTP order--> bridge --MetaTrader5--> terminal
                       ^                    |
                       +--positions, deals--+   (position syncer, every 0.5 s)
                       +--ticks-------------+   (tick sender, every 0.1 s)
    ticks --> candles --> fallback job + task --> strategy run --> signal --> order
    API handlers and runner --rows--> trade_jobs --one worker thread--> rows, push
    watchdog --restarts--> terminal, bridge, API, web server

API handlers run concurrently in a thread pool, each with a session that reads committed
data (READ COMMITTED), does not flush early and does not reload rows after a commit.  This is
why the models separate what a transaction read from what it commits, and why a commit writes
only the columns that differ from what was loaded.

### Composition

Modules of one data type extend one another (`Pullbacks`, `TorumSetup`, `TorumBacktest`,
`TorumV1`).  Where two modules meet, one keeps its whole detail and the other has it as one
step, and each header says which: `MarketFeed` runs a fallback job in one step and `TradeJobs`
has its claims and retries; `PositionLife` starts where `TorumOrders` has assigned the ticket;
`RiskSnapshots` has the job of the snapshot with its claim.  `MC_Bridge`, `MC_Accounts` and
`MC_Operations` run components that share no state in one configuration; `part` says which of
them a behaviour is about, and their state spaces add up instead of multiplying.

## 2. The bridge: `MT5Access` and `TickBuffer`

`MT5Access`: every block under `with self._condition` is one action: `Acquire` (enters at
once), `Park` (waits), `Wake`, `Reenter`, `Release`.  `inside` counts the `acquire()` blocks a
thread is in, `priority` is the priority of its outermost one.

`TickBuffer`: `AddMany` is one poll; `Peek` copies a batch of one account; `PostAnswered` and
`PostFails` are the attempts of `_post_with_retries`, each of which may or may not reach the
API; one that timed out goes on without the sender and may be stored at any later moment
(`late`, `LateStored`), behind newer ticks and after the sender has dropped or sent it again;
`Confirm` removes the batch; `Flush`, `Stop`, `Leave` and `IntervalPasses` complete the
loop.  Ticks are numbered as they are collected, and `received` holds each tick that reached
the API with the account of the post that brought it first.

Run `bridge`.  Three threads, nesting up to two, every priority: the smallest number with a
holder, an order and a competitor.  `OneAtATime` (`MutualExclusion`, and `NoLeakedWaiter`: the
count is the number of parked orders; nobody waits for itself) and, as liveness, `OrdersGoFirst`: an order
that waits is the next to enter.  Fairness: blocks end, a parked thread that may go on gets
the processor; a thread need not call `acquire()`.  Four ticks of two accounts, batches of
two, a buffer of three, two posts: the smallest sizes at which an overflow meets a batch in
flight and leaves something of it.  One request at a time (`MaxLate`) is under way that
nobody waits for: enough for one to be stored after everything behind it; that it is stored
at all is not assumed.  `TicksKeepTheirAccount`, `ArrivesInOrder` and, when the
API answers once in a while, `EveryTickLeaves`.  The sender returns after a stop, which is why
the run does not check for deadlock.

Not among the run's properties but stated in the module: `LostOnlyByOverflow` does not hold.
An overflow while a batch is posted drops ticks of that batch, and the sender then removes as
many from the front as it had sent, so that newer ticks go that were never sent.

## 3. `TorumOrders`: one entry, from signal to reconciled position

Attempt `i` stands for the i-th signal, the order created for it and the position that order
may open, because nothing in the code relates two of these except through the setup, the
capacity and the ticket.  `signal`, `order` and `row` are committed rows; what a transaction
has read or flushed is in the program counter of its process.

| part | actions |
|---|---|
| runner, under the symbol lock | `StartRun`, `CheckSetup`, `PlanOpenPositions`, `PlanPendingOrders`, `PlanReservedSignals`, `EvaluateRisk`, `CreateOrder`, `Validate`, `ReceiveReply`, `LoseReply`, `Settle`, `Interrupted`, `Abort` |
| bridge and account | `ExecuteCall`, `LateFill`, `ClosePosition` |
| syncer | `TakeSnapshot`, `LoadDeals`, `ReceiveAnswer`, `PostAgain`, `GiveUpCycle` |
| handler | `HandlerRead` (everything the handler reads and decides), `HandlerCommit` |
| time and crashes | `GracePasses`, `AmbiguousTtlPasses`, `ApiCrash`, `BridgeCrash` |

Two rows may describe one position: `row.api` is the one the order manager inserts, `row.sync`
the one the handler inserts.  `order.absent` is the count of complete passes without a trace
of the order, `row.missing` that of snapshots without the position.  `age` abstracts time
into the grace period and the two reservation windows: the HTTP timeout of an order (10 s) is
well below the grace period (20 s), which is why `GracePasses` waits for the call to end.
`OrderRowsFree` is the row lock that the flush of SENT holds during the bridge call.

`Abort` is a transaction that the database ends: one side of the deadlock between that row
lock and the unique ticket, or the order manager's whose ticket is in another row already.

Constants: `MaxPosts` is `torum_http_max_retries`, `AbsentSyncs` and `Confirmations` are the
two settings of the same meaning, `Attempts` and `MaxFaults` are bounds.  Five switches admit
behaviours one by one, so that a run can say under which of them a property holds:
`TicketLag` (a fill whose ticket is not found), `OlderTicket` (the lookup takes an older
position for the new one), `Outage` (sync is away for a day),
`QuickRoundTrip` (a position opens just before a history pass and closes before the next
snapshot), `SyncMidPlan` (a sync commits between two SELECTs of one plan).

- `orders_safety`: two attempts of one setup, two crashes or exceptions, lost and late
  replies, missing tickets, outage, a payload posted twice.  `OneFillPerSetup`,
  `FailedNeverFilled`, `ExecutedMeansFilled`, `ClosedMeansClosed`, and the action property
  `ExecutedIsFinal`.  Two attempts are enough for a retry to meet its predecessor.  Fewer
  posts than confirmations (`MaxPosts < AbsentSyncs`, `MaxPosts < Confirmations`) is the
  premise of the first, the second and the fourth; no quick round trip is that of the first two.
- `orders_capacity`: two attempts of any setups, maximum two, a crash.  `CapacityRespected`
  and `OneOpenRow`, without `SyncMidPlan` and without `TicketLag`, but with fills that are taken
  for an older position which has its row (`OlderTicket = "recorded"`).  Setups are symmetric: they
  are only compared with one another.
- `orders_liveness`: one attempt with everything but `TicketLag`.  `AmbiguousOrderResolved`
  and `GhostCleared`.
- `orders_closed` (violation): with the default of three posts and three confirmations, one
  stale payload that is posted three times closes the row of a live position.

`order_send` returns a deal, and `resolve_position_snapshot_after_market_order`
(`bridge/order_executor.py` 580-640) looks for the position of it: by the number of the deal, then
among the positions of the same symbol, side, magic number and volume that are half a minute
old, then among all of them.  If the new one is not listed yet the newest of these is an older
one (`OlderIsFound`; `Alike` are those of the same volume).  Where it has its row, the unique
index on the ticket (migration 0020, 42-45) refuses a second one: `Abort` ends the transaction of
the order manager and the order is left to the sync, and every property of section 10 holds
(`"recorded"`).  Where it has none, because its own fill had no ticket or no answer, the order
gets a ticket that is not its own and the row is that of the older position (`"any"`:
`ReceiveReply` writes it as a row of the older attempt, while the code keeps the number of the
order that found it).  With `OlderTicket = "any"` in `TorumOrders_capacity.cfg`
`TicketIsOwn` is violated, and that position has the row of the wrong order; what the database
then says of both is not claimed.  Five theorems have `OlderTicket # "any"` as a premise.

The first premise is sharp, and the settings the code ships with are just outside it
(`torum_http_max_retries`, `torum_reconciliation_absent_syncs` and
`mt5_missing_position_confirmations` are all 3: `bridge/config.py` 21, `api/core/config.py`
40 and 46).  With as many posts as confirmations TLC finds a stale payload, posted until
it is confirmed by itself, that closes a live row (`orders_closed`), gives up an order that
filled (`TorumOrders_safety.cfg` with `MaxPosts = 3`), or hides a position from the plan
(`TorumOrders_capacity.cfg` with `MaxPosts = 2`).  Two posts, or four confirmations, and
section 10 proves that none of this happens.

Fairness: threads run, terminal calls return, time passes, and of the syncer's cycles
infinitely many read a complete history and get their answer, which is what the code does
when the network and the terminal are not down for good.  Signals, closes and crashes need
not happen.

What the premises keep out is shown by configurations beside the runs (section 11):
`SyncMidPlan` breaks `CapacityRespected`, a quick round trip breaks `FailedNeverFilled`, and
`AmbiguousSignalResolved` does not hold, not even in `TorumOrders_liveness.cfg` without
faults, because the last commit of the runner puts `ORDER_RECONCILING` over the
`ORDER_EXECUTED` a sync has already written.
`CreatedOrderResolved` does not hold either: a crash during the order call rolls SENT back to
CREATED, which `_fail_absent_ambiguous_torum_orders` does not look at; the row of a fill
whose ticket was not found stays open if the position closes before a sync sees it.

## 4. `TradeJobs`: the durable queue

`job` holds committed rows.  A transaction that enqueues reads a row in `Enqueue` and merges
its changed columns into a possibly newer row in `Commit` (`Merge` is the UPDATE of the ORM);
the worker takes `Claim`, `Run`, `Finish` or `FinishFails`, `FailRead`, `FailCommit`; `ThreadDies`
is a database error that no `try` covers, in `_claim_one` (131-151) or in the session of the
`except` block (189-205), before its commit or after it; the
immediate run takes `RunFast`, `RetireRead`, `RetireCommit`; the process takes `Crash` and
`Restart`.  `wanted` counts committed requests and `served` how many of them the last
finished run had seen.  Keys are of four kinds: coalesced (risk recomputes), fallback
(delayed strategy runs), notify (pushes) and plain.

Run `jobs`: a fallback, a recompute and a notification, two callers and two requests, of one
key or of two (`MaxAsked`), failures, and two events that are each a crash of the API or the
death of its worker thread, with restarts after the lock is stale.
`CompletedMeansDone`, `WorkerOwnsItsJob` and, under fairness of the worker (oldest due job
first) and of the restart of a process that is down, `JobEnds`.  Two requests are what a stale
enqueuer and a follow-up need, or another key to compete.  The run stops when every request has
been carried out, or when the worker is dead, which is why it does not check for deadlock.

Nothing in the code starts another thread when the worker has died: the API stays up and jobs
wait until somebody restarts it.  `JobEnds` says so (`\/ worker.pc = "dead"`): a job ends, or the
thread is dead; and when the API is restarted after that (`Crash`, `Restart`) it ends again.

`JobEnds` needs the restart to find the lock stale: a job that was running at a crash stays
RUNNING when the API is back within five minutes, because stale jobs are put back only when
the worker starts (`TradeJobs_v_orphan.cfg`).  `FollowUpNotLost` does not hold with stale
enqueuers (`TradeJobs_v_followup.cfg`: a request that reads RUNNING and commits after the run
completed leaves its flag on a finished row); `FallbackNotStolen` and `PushedOnce` are further
wishes that the module states and the code does not keep.

## 5. The strategy: `Pullbacks`, `TorumSetup`, `TorumBacktest`, `TorumV1`

Prices are integers and percentages basis points, so that no comparison needs a division.
`Pullbacks` is the detector as a recursive function over the candles (`Seek` looks for a peak
whose fall is deep enough, `Follow` for its recovery); `TorumSetup` is the decision:
confirmation (`ConfirmationCandles`, `BullishConfirmation`), the pullback of the running cycle
(`CycleCandles`, `CurrentPullback`), zones and supports (`ConfirmedZone`, `Multiplier`),
spacing (`SpacingAllows`) and the unlock rule (`AggregateWindow`, `Qualifies`,
`AssetUnlocked`).  An M5 candle lasts four instants and H2 and H3 candles two and three M5
candles: the day is scaled down and keeps two lengths that do not divide each other.

`TorumV1` is the live side: `CloseCandle`, then runs take `Load` (a copy of the parameters),
`LockTimeout` or `Evaluate` (decision, duplicate check, signal, plan), and `Executed`,
`Failed` or `Ambiguous`; `SyncExecuted` and `SyncFailed` answer a doubt, `ManualUnlock` and
`SaveForm` are the user.  All of them write `params`, one JSON value, whole.  `TorumBacktest`
has the loops of backtest, replay, simulator and chart, which decide with the same operators
but keep open trades, cycles and seen lows on their own.

- `strategy_live`: two overlapping runs, any day of seven candles out of three shapes after
  one of two mornings (one unlocks with its first window), one refusal, doubt or manual
  unlock.  `EntriesAreCycles` is the refinement: with
  `cycles <- [i |-> [from |-> entries[i].peak, to |-> entries[i].conf]]` the live strategy
  implements `EntryCycles!Spec`, in which every entry has a fall of its own that lies behind
  everything bought before.  Fills map to `Enter`, everything else to a stutter.
- `strategy_offline`: any day of eight candles with one run at a time, a manual unlock or an
  edit.  When the day is over and nothing happened that an offline run cannot know
  (`Finished /\ steady`), `BacktestAgreesWithLive` and `EntriesAreShown`: the replay has a signal
  for every entry (`ReplayShowsTheEntries`), and the pullbacks of the chart do not overlap and
  none runs across an entry (`ChartIsCutAtEntries`);
  at every moment `SimulatorExplains`; and `ConfirmedPullbacksAreFinal`: running the detector
  on a longer history takes no confirmed pullback back.  Eight candles hold a first fall, an
  entry, its take profit and the beginning of a second fall.

The chart looks for pullbacks with a threshold and a recovery of its own (`visualThreshold`,
which is 0 by default, and `visualRecovery`: `pullback_cache.py` 101 and 153, `torum_v1.py`
1788) and keeps the last `maxCount` of all pieces together (1840).  It shows more and other
pullbacks than were bought, so that no entry need be the confirmation of one of them; what
holds is where its pieces end.  The session is compared in three ways: live and in the
simulator it ends before its last second (`InSession`); the backtest counts both ends and compares
minutes (`torum_v1_backtest.py` 1187-1205), so that a decision one second after the close of a
candle falls into the same minute; the replay counts both ends and compares the whole time
(`torum_v1_simulator.py` 589-603, `ReplaySession`).  Of the simulator's steps engine, dollar and risk (296-373) are
left out, and of the chart the running candle.

What the runs leave out on purpose and the models show: with two thresholds to choose from, a
form that was loaded before an entry brings the old cycle back when it is saved
(`TorumV1_v_form.cfg`: the revision an editor sends counts editor and unlock only); with
"reduce when it does not fit" off, the backtest skips an entry
(`torum_v1_backtest.py` 966, 990) that the live plan reduces all the same
(`TorumV1_v_degrade.cfg`); and when the broker's H2 candles are shifted against the session,
an unlocked day may be locked again (`TorumV1_v_shift.cfg`, `UnlockIsMonotonic`).  A manual
lock is overwritten by a run that loaded its parameters before.  So is the boundary of an
entry: with `Runs = {r1, r2}` in `TorumV1_offline.cfg` (six candles are enough) a run that waited for the lock while
another one bought writes its marks over the boundary (`runner.py` 57-168), the chart no
longer cuts at that entry and `EntriesAreShown` fails; backtest and replay, which keep
boundaries of their own, still agree (section 10).

## 6. `PositionLife`: the row of a position

One position from its ticket to its confirmed close, and everybody who writes its row: the
close endpoint (`StartClose`, `Reconcile`, `SendClose`, `CommitReconciled`, `CommitClose`,
`EnqueueDeal`: two commits), the take profit endpoint (`StartTp`, `SendTp`, `CommitTp`), the
syncer and its handler (`TakePositions`, `TakeDeals` or `TakeDealsWithHistory`,
`HandlerCommit`), the jobs (`Claim`, `FetchDeal`, `ApplyTp`, `CommitJob`, `Fails`).  Each
loads the row, calls the bridge and commits later; `Save` writes the columns that differ from
what was loaded.  `Crash` ends the API, `SwitchAccount` logs the terminal in elsewhere.

Run `positions`: one manual close and one of a take profit of the user, a lost answer, an
account switch or a crash, and a history that has the closing deal late.  `ClosedMeansGone`:
nobody takes a live position for a closed one.  In the end, if the terminal stays in the
account, `RowFollowsAccount`, `TpConverges` and `DealArrives`.  Two confirmations are the
smallest number that is not one.  Fairness: syncer, worker and endpoints run, the history is
completed, calls fail finitely often (`MaxDisturbed`).  603,849 states.

The worker claims a job whatever account is connected (`Claim` has no guard, as
`trade_jobs/service.py` 131-151 has none).  While the terminal is in another account every
attempt fails; after eight of them, about two minutes, the job is FAILED, and neither the take
profit nor the late deal is asked for again when the account is back.  `TpConverges` and `DealArrives` say so: the value arrives, or
the account was left and the job has given up (`GaveUp`).  Without a switch they hold in full.
They take for granted that the worker thread lives; its death is in `TradeJobs`.

Beside it: `ClosedMeansGone` needs that `positions_get` does not fail under the close endpoint,
because the bridge answers a failure with an empty list (`PositionLife_v_list.cfg`), and that
the account does not change between two calls of one handler (`PositionLife_v_absence.cfg`);
a crash between the two commits of a close leaves a closed row without its deal
(`DealArrives` fails with
`Kinds = {"split"}`); a stale snapshot or a queued job sets an old take profit over
the one the user set (`UserTpStays`, with `Kinds = {"tp"}`).  The handler commits in the
middle of its work when a take profit was hit (`_notify_take_profit_hit`, 1130-1152), which
the model has as part of the one commit.

## 7. `MarketFeed`: ticks, candles, triggers, alerts

`NewTick` and `Pass` are the market and the clock; `Poll`, `PollAfterSwitch`, `Post`,
`Timeout` and `Answered` the bridge; `Ingest` (ticks and candles, one transaction), `Answer`
(newest bucket, fallback job) or `AnswerWithoutFallback`, then the tasks `RunStrategy`,
`Retire`, `ReadAlerts`, `CommitAlert`, `PushAlert`; `RunFallback` the job; `BeginCancel` and
`CommitCancel` the user.  `Aggregated` merges the candles of a batch into stored ones as the
UPSERT does; `Built` is the candle of some ticks, and the reference definition.

Run `market`: three ticks over two candles, two prices (the market opens above
the target of the alert), two requests at a time, one disturbance of any kind besides one late
answer.  `CandlesAreTheirTicks` (open, high, low,
close and count of every candle are those of the stored ticks in time order, whatever the
order and repetition of batches), `EvaluatedCandlesAreFinal`, `CloseIsEvaluated` and
`AlertFiresOnceInTime`.  Handlers are symmetric.  Three ticks are needed: two of one candle in
different batches, and one that closes it.  Section 10 proves the four for any numbers.

Three premises: the API does not crash between the commit of the ticks and that of the fallback
(`SafePoints`).  In this gap the close is lost although the comment at `ticks/router.py`
144-149 wants to exclude just that: the repeated batch has no fresh ticks
(`MarketFeed_v_gap.cfg`).  And an evaluation that runs late may see a candle whose last ticks
are still in the bridge (`MarketFeed_v_late.cfg`).  And the run lets every poll and restart
reach back to its beginning (`FirstPoll = Lookback = 9`).  In the code a first poll reads one
second back and a restart ten (`bridge/tick_collector.py` 187-197, `bridge/config.py` 28): a
tick that the first poll after an account switch does not reach is brought by a restart
within ten seconds, and changes its candle even if that was evaluated in time.  The run with
`FirstPoll = 0` shows it as a violation of `EvaluatedCandlesAreFinal`; without the restart
(`"bridge"` out of `Kinds`) it holds however far the polls reach.  An alert looks at the last price of a
batch only, so a price that dips within one batch does not fire; "in time" is about the last
price.  The push of an alert is sent after its commit and is lost with the process.

## 8. `RiskSnapshots`, `StopOut`, `Performance`, `DollarStrength`

`RiskSnapshots`: handlers change the account (`PostStatus`, `TickStatus`) or positions
(`ChangePosition`), `Mark` the cached snapshot and `Commit` flag and job; a sync commits its
rows with the flag, an order (`orders/service.py` 772, then 906-917) and a close
(`positions/service.py` 162, then 1127-1128) before it, in a transaction of their own
(`CommitRows`), and an error of the database in between is logged and forgotten (1109-1113,
`MarkFails`); the worker takes
`Claim`, `WorkerReads`, `WorkerStores`, `WorkerCommits` or `WorkerFails`; a request takes
`RequestReads` and `RequestStores`, or `Get` with its cache; ticks raise the all-time high.
`LoneChangeIsShown`: a change that nobody else's work overlaps and whose flag is written is
never hidden by an older snapshot while an account is connected, after restarts, switches and
late loads.  The exception is real: when the process ends, or the database fails, between the
row of an order or a close and its flag, the old snapshot stays as it is, unflagged, until
the next change (`clean` is false then).  A batch of
ticks flags for a new balance only, so it needs that two accounts never report the same one:
with `ReportedAlike` and five changes TLC shows the old snapshot of the other account.  Nor
does it hold while no account is connected (`LoneChangeIsShownOffline`, five changes): what
changes flags the snapshot of its account and not that of no account, which counts the
positions of all and comes from the table after a restart.  The unconditional `EveryChangeIsShown`
does not hold (a computation that read before the commit is stored after the flag), nor do
`LevelIsShown` and `LevelCoversCandles` (a change of the all-time high flags nothing; the job
that a GET enqueues is never committed, because `get_db` closes its session without).

`StopOut`: the bisection on a grid of prices, with the other gold symbol moving by its beta.
`LineIsFirstTrigger`: above the line the account holds, a step below it does not.  It needs
bought positions; with hedged or sold ones equity is not monotone and the line can be
anywhere (`Accounts_v_hedged.cfg`).

`Performance`: the broker (`BalanceDeal`, `TradeCloses`), the import (`PostDeals`, which
promotes a movement entered by hand when exactly one is near enough), the user (`Enter`,
`CommitEntry`, `DeleteMovement`), and the report as operators (`Window`, `Months`,
`HeldAtOpening`).  `LedgerIsTheAccount`: when every deal is imported, the capital at any
instant is what the account held.  `MonthsAddUp`: profit, capital and return of the months
give those of the period, when no capital base lies inside it.  `PostedIsBooked` does not hold
(two equal deals of one post take the same entered movement; a deposit entered while the
import runs is booked twice), nor `MonthlyCashAddsUp` (a movement at the first instant of a
month is in no month).

`DollarStrength`: a recompute of the scheduler (`Schedule`, or `ScheduleNothing` when the
newest row is valid) or of a request (`Recompute`) loads candles from the bridge or, if that
fails, from the database, and then takes `UpsertCandles`, `StoreSnapshot` and `CacheOwn`, two
commits and a write to the cache; a run of the strategy is answered from the cache, or takes
`ReadLatest` and `CacheRead`.  `RestartServer` and `HourPasses` complete it.
`FilterAgreesWithBacktest`: a row that filters was computed at most a day and an hour ago
(`FilterIsFresh`, the hour being that of scheduler and cache), and when its candles came from
the bridge on a day of trading it says what `_historical_dxy_decision` says of the stored
candles for the hour in which they were read (`HistoricalStrength`).  Premises: parameters are
the defaults (`recompute()` is never called with others; `usd_strength_mode` and
`usd_strength_strict` are honoured by the backtest only), the API restarts at once, a commit of
the scheduler does not fail, and work of seconds ends in its hour.  `FilterAgreesEveryDay` does
not hold: the bridge leaves out the newest daily bar (`start_pos` 1), which is the running one
on a day of trading but a closed one on an off day, so that a Sunday's row misses Friday.  A
row that is UNKNOWN because a source failed is kept for its day and lets signals through.  The
43 days that `_load_dxy_points` goes back hold exactly the thirty weekdays of the average, so
that one holiday among them makes the first day of a backtest UNKNOWN; the run's dates have a
margin there.

Run `accounts` (608,424 states): two accounts and a balance change, one position, three changes and one
request for the snapshot (the all-time high, which flags nothing, changes first or not at all);
prices 0..16 with three betas, four equities, three levels and two margins; three events on
three instants of two months; days of two hours, of which the last three are a day of
trading, an off day and a day of trading, an average of three days, a fall of two, four
histories that together lead to WEAK, NEUTRAL and STRONG (a failed source to UNKNOWN), and one
failure, request or restart.

## 9. `BacktestJobs`, `Watchdog`, `NewsCalendar`

`BacktestJobs`: `Start` (with pruning), `Cancel`, `Expire`, and a thread's `Take`, `Load`,
`Ask`, `Compute`, `Report`, `Settle`.  `NoResultAfterCancel` (an action property: a cancel
that was accepted never ends in a result) and `AcceptedJobEnds`.  `Watchdog`: `Request` takes
the lock, `Step` carries out one command with an outcome of its own, `Finish` gives the
verdict.  `VerdictIsTrue`: a restart recorded as OK ended the old process of everything it is
for and started a new one.  It needs processes that can be terminated (`Stubborn = {}`); a
build that fails leaves the API stopped.  `AllOkIsKnown` does not hold: a docker state that is
UNKNOWN counts neither as failure nor as warning (it is an action property like the other).  A
command of docker may fail with or without its effect (`Outcomes`); one that takes effect only
after the 300 seconds in which the watchdog waits for it is left out, and can only be about a
restart that was recorded as failed.  `NewsCalendar`: `StartSync`, `Fetch`,
`ImportEvent`, `Reconcile` of the scheduled sync, `PatchSettings`, `SaveEvent`, `DeleteEvent`
of the user, and the second commits `CommitZones`, `BeginRegeneration`, `CommitRegeneration`.
`NothingElseIsErased`: an event goes only when the user deletes it, or when it lies in the window
of a sync that every official source answered and that did not find it; one of the user never
goes, nor one that is past or beyond the horizon (`days_ahead`).  That is less than the
docstring promises (`news/service.py` 357-363, never "deleting data after a partial upstream
failure"): the optional source (FMP, `torum_calendar_provider.py` 83-91) may fail without making
the sync partial (108-113), and a page without anything that is understood counts as
answered (143, 165), so that the events of either are erased.  `NothingErasedAfterFailure` states the
docstring and does not hold.  Events of the provider that was replaced (`Legacy`, 388-401) go
with the stale ones.  `CalendarIsRight`: in the end zones are those of the official
calendar under the settings of now.  `ManualZoneSettles`, the same of an event of the user,
does not hold: a sync that began before the settings changed makes its zone with the old ones.

Run `operations`: three jobs on two threads, one retained; two requests out of "mt5" and
"all" with a terminal that may end by itself; three releases of two official sources and the
optional one, two settings, one change, one fetch with a source that fails or is silent, two hours,
a horizon of the hour itself and perhaps an event of the replaced provider (396,434 states).
Releases are alike, so that Fed and the optional one start in the first hour and the old
event lies in the last.  Fairness: threads of the pool run, the scheduler of the news and
accepted requests go on; that the scheduler starts a sync takes for granted that a provider and
the automatic sync are enabled and the interval has passed (`news/scheduler.py` 37-48).  A sync that
the user asks for at the same time is not modelled.  The target "pc" of the watchdog, which restarts the computer, is left out.

## 10. What is proved

For every value of the constants, from the assumptions the modules name:

| theorem | says |
|---|---|
| `CoordinatorConsistent`, `TerminalIsExclusive` | `AccessTypeOK`, `DepthIsOwners`, `NoLeakedWaiter`, `OneAtATime` |
| `ExecutedIsReal`, `ExecutedStays` | `ExecutedMeansFilled`, `ExecutedIsFinal` |
| `SetupBuysOnce`, `FailedIsUnfilled` | `OneFillPerSetup`, `FailedNeverFilled`, if `MaxPosts < AbsentSyncs` and no quick round trip |
| `ClosedIsClosed` | `ClosedMeansClosed`, if `MaxPosts < Confirmations` |
| `PositionIsOneRow` | `OneOpenRow`, if every fill has its ticket or that of an older position |
| `ExposureStaysInLimit` | `CapacityRespected`, if all of these, no sync in the middle of a plan and no outage of a day |
| the last five | besides, if `OlderTicket # "any"`: an older position that is found in place of the new one has its row (section 3) |
| `QueueTypeOK`, `CompletedIsDone`, `JobsStayOwned`, `AttemptsAreBounded`, `CompletedStays` | `TypeOK`, `CompletedMeansDone`, `WorkerOwnsItsJob`, `AttemptsBounded`, `CompletedIsFinal` |
| `BufferTypeOK`, `TicksAreTheirs`, `OrderIsKept` | `TypeOK`, `TicksKeepTheirAccount`, `ArrivesInOrder` |
| `PullbacksAreFinal` | `ConfirmedPullbacksAreFinal`, if `Final` |
| `NoFallIsBoughtTwice` | `EntriesAreCycles`: `TorumV1` implements `EntryCycles`, if `WholeDay` and `NoForms` |
| `BacktestIsLive` | `BacktestAgreesWithLive`, if `OfflineDay` |
| `ReplayShowsWhatWasBought` | the replay half of `EntriesAreShown` (`ReplayShowsTheEntries`), if `ReplayDay` |
| `UnlockIsFinal` | `UnlockIsMonotonic`, if `Aligned` |
| `SimulatorIsRight` | `SimulatorExplains`, if `PlainSetup` |
| `ClosedIsGone` | `ClosedMeansGone`, under the two premises of section 6 |
| `CandlesCountOnce`, `AlertsFireOnce` | `CandlesAreTheirTicks`, `AlertFiresOnceInTime` |
| `ClosesAreEvaluated` | `CloseIsEvaluated`, if `FallbackHolds` |
| `ClosedCandlesAreFinal` | `EvaluatedCandlesAreFinal`, if `InStep` |
| `LineIsTheFirst` | `LineIsFirstTrigger`, when positions are bought and betas grow |
| `LoneChangesAreShown` | `LoneChangeIsShown` (a flag that is written), if no two accounts have the same balance |
| `FilterStaysFresh`, `FilterIsBacktested` | `FilterIsFresh`; with it `FilterAgreesWithBacktest`, if `SlackCovers` |
| `OneRowOneDeal` | an imported row of the ledger is one deal of its account, with its amount and real time |
| `ReportTellsTheAccount`, `MonthsMakeThePeriod` | `LedgerIsTheAccount`, `MonthsAddUp` |
| `CancelledJobHasNoResult`, `EventsAreErasedRightly` | `NoResultAfterCancel`, `NothingElseIsErased` |
| `VerdictsAreTrue` | `VerdictIsTrue`, if the watchdog may terminate the processes |

- `Bridge_proofs`, the lock: the conjunction of types, depth and waiters is inductive as it stands.
  The lemmas on `ParkedOrders` carry the cardinality of the parked orders over one step.  This
  is what lets the other modules make a terminal call atomic.
- `TorumOrders_proofs`: no property is inductive.  `IInv` adds `Shape`, the types the
  proof needs; `OrderFollowsRunner`, who may change an order; `NothingUnsent`, that nothing
  happens at the broker before the bridge is called; `EvidenceIsReal`, that every reply,
  snapshot, deal and decision to mark an order executed is evidence of a position that did
  open; `OldIsDone`, that an order past its grace period is in no runner's hands; and
  `AbsentIsUnresolved`, that a decision to count an order absent still applies when it is
  committed.  The last two are needed because the handler decides in one step and commits in
  another.  There is one lemma per action.  The others stand one above the other.  `RInv` says what rows,
  deals and decisions are evidence of: a row has a position (`RowsAreReal`), a closing deal a
  closed one (`DealsAreReal`), an order is at the broker once (`SentOnce`), a decision still
  holds when it is committed (`DecisionsHold`), and an open position that the snapshot does not
  have was missed at most once per post (`MissingCounted`).  `ClosedIsClosed` follows: a row is
  closed by a deal, or by more absences than one payload can be posted.  `FInv` does the
  same for orders: `AbsentCounted` bounds the absences of a filled order without a row by the
  posts of one payload that is blind to it, `ClosedUnseen` says that the deals of a position
  that closed unseen are still to come, both at once (this is what a quick round trip
  breaks), and `FailedStays` is the property for orders that may fill late as well.  `SInv`
  turns it into `SetupBuysOnce`: the attempt that passed the duplicate check is the only one
  of its setup that can still fill, because what does not protect its setup never fills
  (`UnprotectedNeverFills`).  `OInv`: a row has its ticket and its position no second row.
- `TorumOrders_proofs`, the capacity: what is open, and what may yet open (`AtRisk`: queued at the bridge,
  accepted, or approved by the plan), fits into the capacity (`RiskFits`).  A plan adds
  at most what it finds left, so everything at risk has to be found by one of its three SELECTs
  (`RiskIsTracked`: a row, a live order or a reserved signal), and must not slip from one
  to another between them (`PlanCounts`).  The chain order-then-row needs that an executed order
  has its row (`ExecutedHasRow`), that rows are not closed early (`ClosedIsClosed`) and that
  reservations are not released early (`FInv`).  This part begins with lemmas on
  `MapThenSumSet`: that a sum is defined on finite sets, an element can be taken out
  (`SumRemove`), subsets sum to less (`SumMonotone`), unions to no more than both parts.
- `TradeJobs_proofs`: the inductive invariant says of every stale copy (an enqueuer's, the
  immediate run's, the failure handler's) what it may still do to the row when it is merged.
  The death of the thread leaves a row as a crash does, and costs an attempt as one does.
- `Bridge_proofs`, the buffer: `QueueInOrder` (ids grow along the queue), `BatchIsOldest` (what is
  posted has one account and is older than everything else queued, which survives an overflow
  during a post) and `ArrivedIsOlder` (what has arrived is older than anything that has not).
  A request that timed out keeps its ticks and may be stored at any later time.  Whoever still
  waits in the buffer and is in such a request is in the batch the sender posts now
  (`LateIsResent`), and what is in one has arrived, waits in the buffer, or was dropped by
  an overflow (`LateIsAccounted`).  Only a tick of the last kind can arrive after a newer one,
  which is the exception of the property.
- `TorumV1_proofs`, the detector: everything rests on comparing two scans.  `Part` says that the
  candles of one history are those of another one, moved by k; `Shifted`, that the states of
  two scans differ by nothing but k and by what was found before, and `PartStep`, that one
  step keeps it so.  With k = 0 this is finality: the one thing a scan knows of the end of
  its history is that the last candle needs no later one to confirm a swing
  (`torum_v1.py` 228), and `Final` says when this makes no difference: a peak and its low on
  the same candle are not allowed and one candle confirms the swing, or two candles
  confirm a recovery.  The defaults (`torum_v1.py` 35-46) are of the first kind.
- `TorumV1_proofs`, the cut: a run cuts the day at the last entry it knows of.  The scan of
  the whole day was reset at that candle (`ResetAt`), so that the scan of the part goes on as
  the other one did (`CutAt`), and whatever entries a run knows, what it confirms is the last
  pullback of the whole day (`CycleIsPart`, `CurrentIs`).  Pullbacks of a day do not overlap
  (`ConfirmedInOrder`).  `WholeDay` names what this takes: `Final`, no separation between two
  pullbacks, and a window of the live run that holds the day.  `NoForms`, that nobody saves a
  form, is needed besides: with an old form the theorem is false (`TorumV1_v_form`).
- `TorumV1_proofs`, the live side: `LiveInv` says that parameters and every copy of them know
  of entries only at confirmations of the day (`ParamSet`), every signal is a pullback of the day
  (`IsOfDay`), the signals of the running candle are one setup (`OneSetup`, so that the
  duplicate check finds it), an entry keeps a signal that protects it
  (`EntriesHaveSignals`), and the one order under way is of a later candle than every entry
  (`Orders`).  A fill then is a step of `EntryCycles` (`FillEnters`), all others stutter.
- `TorumV1_proofs`, the backtest: it is a recursion over the candles, and so its states are
  compared with the live side one candle at a time.  A backtest of a longer day has the states of the shorter one and one more
  (`BtStays`); `After` is its state at the last candle and `Before` the one ahead of it.
  `OfflineInv` says that as long as nothing happened that an offline run cannot know, the live side has what
  `Before` has until the last candle is decided (`AsBefore`) and what `After` has from then on
  (`AsAfter`); in between, an order under way is the one by which they differ (`SentOK`), and
  while one waits every other run finds a duplicate or has not the lock.  What remains is that both decide alike: the
  two have marked different pullbacks (the live side also those it rejected, in every copy of
  the parameters) and still cut to the same last pullback (`Marked`, `BtInv`).  `OfflineDay`
  names the premises: those of `WholeDay` and `Aligned`; a
  backtest window that holds the day; entries that do not fit are reduced (without that it is
  false, `TorumV1_v_degrade`); at least one pullback is looked for; no session and no zone ends
  in the second in which one side asks for the time of the close and the other for that of
  the decision; and no day begins with a pullback already confirmed.  The runs of
  `TorumV1_offline` satisfy all of them.
- `TorumV1_proofs`, the replay: a recursion of the same kind (`RpBefore`, `RpAfter`), but one that
  knows no positions, capacity or unlock rule and so only has to signal whatever a run decides
  to buy (`RunIsShown`).  Its parameters carry boundaries and no marks, and what the spacing
  refuses to a run it does not refuse.  `ShownInv` says so of every entry and of every order
  under way, and signals of the replay are never taken back (`RpGoesOn`); `CalmInv`
  says that runs under way began in an unlocked market, where the replay looks for entries
  too (`UnlockedReplays`: both look at the same second, and the replay's session has one more).
  `ReplayDay` asks less than `OfflineDay`: `WholeDay`, a replay that sees the day, at least one
  pullback looked for, and no pullback in the morning.
- `TorumV1_proofs`, unlock rule and simulator: `Aligned` says that the stored H2 candles begin
  with the windows; then a window is aggregated from what lies in it (`AggregateIs`) and a closed
  one is judged for good (`ClosedStays`).  Without the premise `TorumV1_v_shift` refutes it.
  `PlainSetup` is the default again.  With more than one confirming candle the simulator still
  looks at the last one and the one before it only, and without a required zone its multiplier is
  that of no zone where the decision takes the zone of the low: the answer would be the same,
  its explanation would not.
- `PositionLife_proofs`: `GoneInv` says of everybody who closes the row what evidence it has:
  the close endpoint looked at the right account (`CloserKnows`), a snapshot without the
  position or its closing deal is of a position that is gone (`SyncerKnows`), jobs for a
  closing deal exist only after somebody closed the row (`JobsKnow`).  A position that is gone
  does not come back, so that no evidence grows stale.  Types are part of it, with the
  attempts of a job (`AttemptsLeft`) and the row whose columns two transactions mix
  (`SaveShape`).  The theorem allows crashes between the two commits of a close.
- `MarketFeed_proofs`: `CandlesSumUp` says of every candle what it sums up (`Summary`) and is
  inductive; the lemmas on `Built` and `Upserted` show that merging two candles of disjoint
  ticks sums up both, in whatever order they come, and `Fresh` makes them disjoint.
  `OneDecides`: while a request has read the alert no other has, and once it has committed the
  alert is not armed.  `SomeoneLooks`: a price that is due has a request that carries the
  newest tick to its check.  `Backed`: the newest bucket of the table was evaluated, has a
  pending job, or is in the hands of a request that will make one (`Carried`) or runs without
  one (`Alone`).  `FallbackHolds` is the first premise of section 7 and that a task whose job
  could not be stored is not lost as well, which takes two disturbances.  `Flow`: an older
  tick than one of the table, of a batch or of the queue is in the table, ahead of it, or
  lost for good (`Lost`: behind the last tick seen and out of reach of every first poll).  So
  nothing can still come into a candle that has a stored successor (`ClosedStayTrue`).
  `InStep` is the third premise of section 7, and that the history is not behind the latest tick.
- `Accounts_proofs`, the stop-out line: `BracketIsLine` says that while the search runs the upper end holds, with
  everything above it, and the lower end does not.  `GapRises` carries it: for bought
  positions the equity grows with the price, because both betas are clamped to a positive range
  (`risk/stopout.py` 360-365) and a price that moves by a positive beta grows.  `Bullish`
  states exactly that.
- `Accounts_proofs`, the dollar filter: freshness is not inductive, because a row grows old
  when an hour passes.  `FreshInv` adds that a thread's row is of this hour, that every row
  lives a day, and that once the scheduler has checked, the newest row outlives the hour or
  the scheduler is about to store one.  The hour passes only after the check.
- `Accounts_proofs`, the backtest of the filter: the live verdict takes the average of the last
  days the bridge hands over, the backtest that of the last days it has loaded.  `AgreeInv`
  says of every row and every row under way that its candles were those of the hour it was
  computed in (the closed days do not change later), and `SlackCovers` that both
  see the same days: the 43 days loaded ahead (`torum_v1_backtest.py` 905-907) hold as many days
  of trading as the average and the fall need.  With one weekday holiday among them the
  defaults do not satisfy it, which is the exception that section 8 names.
- `Accounts_proofs`, folds: sums, imports of a post and chained returns are recursions over a
  finite set.  `SubsetInduction` shows that such a recursion has exactly one solution, and the
  lemmas on its first and last step (`AmountDisjoint`, `ImportedIsImport`, `ReturnSteps`,
  `MonthsCompound`) are instances of it.
- `Accounts_proofs`, the ledger: that the report tells the account needs the invariant
  `PerfInv`, which holds whether or not the ledger is complete: an imported row is one deal,
  two rows are two deals, and an entry that waits for its commit is a typed one.  `PostIsBooked` adds
  that a posted deal has its row.  In the end the rows of a window are in bijection with its deals
  (`LedgerIsDeals`), sums over both are equal (`AmountImage`), and walking back from the balance
  gives what the account held (`WalkBack`).  `MonthsAddUp` needs types only: months tile the
  period (`MonthsTile`), each starts with what the one before ends with and the cash of its
  first instant, and returns multiply (`ReturnsMultiply`) unless a capital base lies inside.
- `Accounts_proofs`, the risk snapshot: the property says nothing while a change or a computation
  is under way, and has to.  `RiskInv` adds that a lone change has the floor to itself
  (`Alone`), that its handler has flagged what it has passed and holds the key of the account
  that is still connected (`MarkFlags`), and that whoever computes or loads afterwards has
  seen the account and positions of now (`AllSeen`); a position whose row is committed before its flag
  counts from its commit on (`CommitRows`); the row of the table is told as well as
  the cache (`AllTold`), or a load would bring back what the flag in memory has covered.  The
  proof showed what the run with three changes had not, that the property fails while no
  account is connected (section 8).
- `Operations_proofs`: three action properties.  The calendar needs no invariant: one lemma shows
  that only an import, a reconciliation and the user write events, the others what each may
  erase: a reconciliation nothing that is past, beyond the horizon or of the user, and only
  after every official source has answered.  The backtests do: a job could be taken from the queue a second time after it has
  ended, be cancelled then and keep its result.  `JobsInv` says that an id is in the queue
  once (`QueuedOnce`), that a job of a thread is not in it (`Taken`), that an id above the
  last one started is no job (`NotStarted`, or `Start` would take a cancellation back), and that
  only a completed job has a result, and an uncancelled one (`ResultIsTheLast`).  The watchdog's
  verdict comes after the last step and says nothing of the steps before: `PromiseKept` says of
  every promised component that it is still to come (`ToCome`), that its steps are under way and
  its old process has ended with the first (`UnderWay`), or that it is renewed, and `OneVerdict`
  that only the last request waits.  `Stubborn = {}` is needed: with access denied the old
  process survives and the check of `restart_mt5` finds it running.

Left to TLC: liveness and `ENABLED`, which the provers cannot treat, and that the chart is cut
at the live entries (`ChartIsCutAtEntries`, the other half of `EntriesAreShown`), which holds
for one run at a time only (section 5).  The induction theorems of the
library take an operator and cannot be instantiated; `SubsetInduction` shows the way around it,
an induction over a set of subsets instead.

## 11. Configurations beside the runs

Each shows what happens without a premise of the run it belongs to; start one with
`tlc -config <file> <module>` (its MC module).

| configuration | violates | shows |
|---|---|---|
| `TorumOrders_v_midplan` | `CapacityRespected` | a sync between two SELECTs of one plan hides a position |
| `TorumOrders_v_roundtrip` | `FailedNeverFilled` | an entry deal behind the cursor is not sent again |
| `TradeJobs_v_orphan` | `JobEnds` | a job that ran at a crash, when the API is back within five minutes |
| `TradeJobs_v_followup` | `FollowUpNotLost` | a request that commits after the run it read as RUNNING |
| `TorumV1_v_form` | `EntriesAreCycles` | an old form that is saved brings a bought cycle back |
| `TorumV1_v_degrade` | `BacktestAgreesWithLive` | the backtest skips what the live plan reduces |
| `TorumV1_v_shift` | `UnlockIsMonotonic` | H2 candles shifted against the session |
| `PositionLife_v_list` | `ClosedMeansGone` | a failed `positions_get` taken for an empty account |
| `PositionLife_v_absence` | `ClosedMeansGone` | an account switch under a running call |
| `MarketFeed_v_gap` | `CloseIsEvaluated` | a crash between ticks and fallback |
| `MarketFeed_v_late` | `EveryEvaluatedCandleIsFinal` | an evaluation that runs late |
| `Accounts_v_hedged` | `LineIsFirstTrigger` | positions that hedge one another |

## 12. What is not modelled, and what is left

- **Distributed state**: Redis cache and lease.  The API runs with one worker and then uses
  only the fallback within the process, which `TorumV1` has as `LockFree`; with more workers
  the lease is granted when Redis cannot be reached, and no property of section 5 holds.
- **Websockets, drawings, users, settings, administration, web application, migrations**:
  reads and writes of single rows, rendering and deployment; nothing that depends on order.
- In modelled components: indicators and the drawing of zones, profit figures of a backtest,
  lot sizes, manual and paper orders, other strategies and news providers, storing of credentials, subscriptions to pushes.
- The models assume one API worker, and that the API does not refuse a batch of ticks for good
  (a symbol that was disabled meanwhile would keep its batch at the front for ever).
- Bounds are those of each section; the runs are exhaustive within them.

The plan from here, in this order: an abstract entry (none, reserved, open, closed, released)
that `TorumOrders` implements, for which section 10 has the invariants; a proof that the chart
is cut at the entries when one run is under way at a time; the stop-out line for hedged
positions, once the code says what it should be.
