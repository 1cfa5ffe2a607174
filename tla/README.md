# Formal model of the trading sandbox, the order inboxes and the market-data proxy

TLA+ modules about the parts of this repository whose correctness depends on
the order in which things happen: the analyzer-mode ("sandbox") trading
engine, which keeps a simulated broker account, with the threads that run it
and the nightly settlement; the two inboxes in which orders wait for something
(the action center for a person, the distribution inbox for a fill); and the
WebSocket proxy, which shares a limited number of broker connections between
clients. TLC checks them on small instances; TLAPS proves their main safety
properties for every value of the constants.

* [Inventory](#inventory)
* [Modules](#modules) and how they correspond to the code
* [Runs](#runs), their bounds and what they show
* [Fairness](#fairness)
* [Proofs](#proofs)
* [What the code does that its documents deny](#what-the-code-does-that-its-documents-deny)
* [Not modelled](#not-modelled)
* [Plan](#plan)

How to run (in this directory): `tlc -workers 2 -config MCOrderRace_race.cfg
MCOrderRace.tla`, and likewise every other `.cfg`, whose name begins with that of
its module; `tlapm OrderRaceProofs.tla`, and likewise every other `*Proofs` module.

## Inventory

### The sandbox: `src/sandbox/`, `src/database/sandbox_db.py`

| part | state it keeps | operations | how it meets the others |
|---|---|---|---|
| order manager (`order_manager.py`) | rows of `sandbox_orders` | `place_order`, `modify_order`, `cancel_order` | asks the fund manager for margin; trades marketable orders itself through the execution engine; notifies the WebSocket engine |
| execution engine (`execution_engine.py`) | rows of `sandbox_trades`, `sandbox_positions`; a snapshot of open orders in memory | polling cycle, `_process_order`, `_execute_order`, `_update_position` | writes orders, positions and, through the fund manager, funds |
| WebSocket engine (`websocket_execution_engine.py`) | index symbol -> orders, subscription counts, fallback flag, monitor and fallback threads | start and stop, a tick, order placed / completed, stale feed -> polling fallback | called back by the market data service, executes through `_process_order`; placing threads report new orders to it |
| engine threads (`execution_thread.py`) | which thread or engine runs, the upgrade watcher, its event, one lock | start, stop, upgrade from polling to WebSocket | owns the two engines; joins every thread with a timeout |
| fund manager (`fund_manager.py`) | the row of `sandbox_funds` | block, release, transfer margin, credit sale proceeds, reset, reconcile | called by all others |
| position manager (`position_manager.py`) | rows of `sandbox_positions` | `close_position`, mark to market, expiry settlement | closing places a MARKET order |
| holdings manager (`holdings_manager.py`) | rows of `sandbox_holdings` | T+1 settlement, valuation | moves positions and money; run by the midnight job and by two catch-ups |
| square-off (`squareoff_manager.py`, `squareoff_thread.py`) | scheduled jobs | cancel open MIS orders, close MIS positions | order and position manager |
| catch-up (`catch_up_processor.py`) | none | settlement that a downtime missed | positions, holdings, funds |

All parts share one SQLite database through thread-scoped sessions
(`autoflush=False`, rows expire on commit). A commit writes the columns its
session has changed; nothing but the `RLock` of `FundManager` and the unique
constraints is there to serialise two threads.

*Hard*: three kinds of threads (requests, polling engine, WebSocket callbacks)
may execute the same order; cancellations and modifications race with
executions; margin is computed at placement and released at a fill that may
find another position; a process may die between two commits; settlement
deletes rows others refer to, and may run twice at once; engines are started,
stopped and exchanged while their threads outlive the joins.

*Correct means*: cash and shares are neither created nor lost; margin in use is
the margin of what is open; the books of a position agree with its trades; an
order trades at most once and not after it was cancelled; a finished order is
final; an open order is looked at by an engine, and by one.

### The market-data proxy: `src/websocket_proxy/`

| part | state | operations | how it meets the others |
|---|---|---|---|
| server (`server.py`) | clients, their user, their subscriptions, `subscription_index`, adapters by user | accept, authenticate, subscribe, unsubscribe, clean up, invalidate | asks the user's pool; routes ticks by the index |
| connection pool (`connection_manager.py`, `broker_factory.py`) | adapters, symbols counted on each, `subscription_map`, registry of pools | initialize, connect, subscribe, unsubscribe, unsubscribe_all, disconnect | calls the adapter of the broker |
| broker adapters (`src/broker/*/streaming`) | the broker's streams | subscribe, unsubscribe, reconnect | external to the proxy |

*Hard*: broker calls fail or raise between two steps of a method; several
clients share one subscription in several modes; logins fail half way and are
retried; connections are closed under clients that stay.

*Correct means*: a connection carries no more symbols than the broker allows,
what is counted is what is subscribed, nobody loses a feed through somebody
else, and no slot or stream stays behind.

### The inboxes: `src/database/`, `src/services/`, `src/blueprints/`

| part | state | operations | how it meets the others |
|---|---|---|---|
| action center (`order_router_service.py`, `action_center_db.py`, `pending_order_execution_service.py`, `blueprints/orders.py`) | table `pending_orders`: status, broker status | queue, approve, reject, delete, approve all, execute | a request approves and then sends the order through the order services; requests meet only in the row |
| distribution inbox (`blueprints/distribution.py`, `distribution_db.py`) | the signal log: status, broker order, fill status, pending bracket | webhooks signal, cancel, exit (with a cascade to bracket children) | each webhook is a thread; calls the broker between its commits |
| fill poller (`fill_poller.py`) | one ORM session, the rows it loaded | fetch the order book, compare, report to the publisher, place the children of a filled bracket | writes the rows the webhooks write, with other columns in hand |
| order routing (`place_order_service.py`, basket, split, smart orders) | none of its own | translate one request into calls of a broker plug-in | used by both inboxes |
| price monitor, flow executor, scheduler (`flow_*.py`) | alerts, jobs | fire, add and remove alerts | callbacks remove the alert being fired |
| market data service (`market_data_service.py`) | last ticks, callbacks | publish, subscribe | calls the WebSocket engine |
| event bus (`utils/event_bus.py`) | callbacks | fire and forget | |

*Hard*: a decision is read and written in two steps, a broker call and the row
that remembers it are two steps, a session shows rows as they were; answers of
the broker get lost, commits fail (SQLite is locked), the container restarts
between a call and its commit.

*Correct means*: an approval sends one order and the table tells which; a signal
that is answered with success is tracked; a stop and a target exist once, and
only behind an entry that filled; what the publisher and the log call final is
how the order ended.

### The rest

`restx_api/`, `blueprints/`, `frontend/` (requests and presentation), `broker/`
(34 vendor plug-ins), `broker_login_adapters/`, authentication and settings
tables, option analytics, telegram bots, `mcp/`, `upgrade/`, `install/`. They
are I/O, conversion or numerical code without a protocol between actors.

`PROJECT.json` lists every component with its status and every hazard with the
line where it bites, and the properties that cover it or a note why none does.

## Modules

```
SandboxLedger    <- SandboxLedgerProofs          PendingIndex  <- PendingIndexProofs
      ^                                                ^
MCSandboxLedger                                  MCPendingIndex

OrderLifecycle <-- implements -- OrderRace <- OrderRaceProofs
                                     ^
                                 MCOrderRace

AtomicSettlement <-- implements -- Settlement <- SettlementProofs
                                       ^
                                  MCSettlement

ExecutorSwitch <-- implements -- EngineLifecycle <- EngineLifecycleProofs
                                       ^
                               MCEngineLifecycle

OrderDecision <-- implements -- ActionCenter <- ActionCenterProofs
                                     ^
                               MCActionCenter

Distribution  <- DistributionProofs
      ^
MCDistribution <- DistributionClaims

ConnectionPool  <- MarketDataProxy <- MarketDataProxyProofs
                         ^
                 MCMarketDataProxy
```
(`A <- B`: B extends A.)

The sandbox is seen from five sides, because no single instance of it could be
checked with all of its interleavings. `SandboxLedger` has the amounts and no
interleaving; `OrderRace`, `Settlement` and `PendingIndex` each cut one kind of
call at its commits or locks and keep only the state its races can damage;
`EngineLifecycle` says which executors there are. They fit together by what
each takes as given: `OrderRace` lets both engines execute at once, which
`EngineLifecycle` shows to happen only while a thread that was told to stop
finishes; a tick of `OrderRace` may look at any open order, and `PendingIndex`
shows that every open order can be looked at; `SandboxLedger` settles a position
in one step, and `Settlement` shows that its two commits look like that
(`AtomicSettlement`) unless something fails or two settlements overlap.

**SandboxLedger** is the account of one user in one instrument when calls do
not overlap: every action is a whole call of a manager method with everything
it calls, up to the reconciliation at the end of `_update_position`.

| TLA+ | code |
|---|---|
| `orders[o]` (`request`, `status`, `margin`) | a row of `SandboxOrders`; `margin` is `margin_blocked` |
| `positions[p]` (`row`, `quantity`, `cost`, `margin`, `realized`) | the row of `SandboxPositions` for product p; `cost` is \|quantity\| * `average_price`, `row` tells the rows created today from earlier ones |
| `holding`, `funds` | `SandboxHoldings`, `SandboxFunds` |
| `session` | before square-off time, after it, and after midnight: what `place_order` and T+1 settlement read from the clock |
| `invested`, `cashflow` | history, read by properties only |
| `PlaceOrder`, `ModifyOrder`, `CancelOrder`, `ClosePosition` | the methods of these names; placing is split into rejected, resting and executed at once |
| `ProcessOrder` | `_process_order` for one order and one price |
| `ExecuteOrder`, `UpdatePosition`, `SettleFunds`, `ReconcileMargin` | `_execute_order`, the branches of `_update_position` and its calls to the fund manager |
| `ProcessT1Settlement`, `ResetFunds` | `process_t1_settlement`, `_reset_funds` |

Money is an integer; a share of an amount (`Share`) is rounded down, and a
share of the whole is exact. The contract value that scales the profit of
crypto contracts (execution_engine.py:499-502, 577-581, 690) is one. `ProcessT1Settlement` has no step where a position
and a holding of opposite signs would divide by zero, where the method raises.

**OrderRace** takes the same calls apart where other threads can get in
between: at the reads and commits of the database session. Prices and margins
are gone; what is left is who has read which row when. `worker[w]` is the local
state of an executing thread (the polling engine, the WebSocket engine, or the
thread that placed an order and trades it): the next step, the row as its
session holds it, the position quantity it has read. `snapshot` is the polling
engine's list of open orders; a commit of its session makes it read the rows
again (`Expire`), which is why a stale row is only processed when nothing was
committed since. `FailExecution` is the exception handler of `_execute_order`,
which marks the order rejected even when its trade has been committed.
`SkipTraded` finds a trade of another executor and completes the row; if that
commit fails, its handler rolls nothing back (`_process_order`,
execution_engine.py:347-348), the session of the thread refuses every further
query, and the thread is `"stuck"` until the process restarts.

**OrderLifecycle** is what an observer of the order book and the trade book may
rely on: placed, then filled or dropped, once and for all. `OrderRace`
implements it when there is a single executor and nobody cancels
(`ImplementsLifecycle`). The mapping reads an order's state from its trades and
its status; an order with two trades maps to a value the lifecycle does not
have, so that the refinement includes that no order trades twice.

**Settlement** cuts `process_t1_settlement` at its commits, with fills, failed
commits, crashes and a second settlement in between. `settler[t]` is the
session of a settling thread: the rows it loaded (`held`, `row`), the position
it is at (`cur`, `quantity`), the holding it read (`old`), and the rows its next
commit deletes (`dels`). `Transfer` is the commit inside
`transfer_margin_to_holdings` or `credit_sale_proceeds`, which also writes the
holding and the deletion of the *previous* position. The price of a share is
one and a holding row of quantity zero is taken as no row: amounts are the
ledger's subject. `traded`, `paid`, `damage` and `overlapped` are history.

**AtomicSettlement** is the settlement the rest of the sandbox counts on: a due
position turns into a holding, and its price leaves the margin, in one step.
`Settlement` implements it (`SettlesAtomically`) with a mapping that shows the
position of a row that is settled and waits for its deletion (`Settled`) as
gone. After damage (a fault, or a fill of a row whose quantity a settlement has
in hand) only `Damaged` is left of the promise: what comes into a holding is paid
for.

**PendingIndex** is the order index of the WebSocket engine
(`_pending_orders_index`, `_user_symbol_refcounts`) against the orders in the
database and the symbols the proxy streams. A placing thread goes through
`Place`, `Check`, `Get`, `NotifyPlaced`, `Subscribe`, since it looks at
`_running`, fetches the singleton, takes the lock and calls the proxy at four
different times; `tick` is the delivering thread, `control` the thread in
`start` or `stop`. `generation` tells the engine objects apart: a thread may
hold one that was thrown away. A start whose `subscribe_critical` fails leaves
the object in place, not running (`control = "failed"`): it can be started
again, or `Drop`ped by a stop, which finds nothing to stop in it.

**EngineLifecycle** is `execution_thread.py` and the thread management of the
WebSocket engine: one step per join and per locked section. `ref` are the three
module globals, `lock` is `_thread_lock`, `stopEvent` the event of the upgrade
watcher; `poller`, `watcher`, `monitor`, `loop` are threads and `engine` the
engine objects. Identities are used again when nothing refers to them, so the
number of starts and stops is not bounded. A join ends with its thread or with
its timeout.

**ExecutorSwitch** is what callers of `start_execution_engine` and
`stop_execution_engine` count on: of everything that could execute orders one
thing does, from a start to the next stop; polling gives way to the WebSocket
engine in one step; only a failed subscription leaves a started sandbox without
an executor; a stop that has finished has ended it. `EngineLifecycle`
implements it (`ImplementsSwitch`). `Setting` maps the lock and the last call to
the switch, `Executor` what has not been told to stop to the executor; two of
anything would show as `"several"`, which no step of the switch allows.

**ActionCenter** is the table of pending orders and the requests that work on
it. A decision is `Begin` (the row is read and found pending) and
`CommitApprove` or `CommitReject` (it is written by its key); execution is
`Execute`, `Place`, `Record`. Approve-all (`ApproveAll`, `NextOrder`) carries
its list and whether its rows were expired by a commit (`mode`), `Reload` is the
log line after the commit, which loads the row again. `kind` tells what the
service may answer: a number for a single order; a number, or success without
one and nothing sent for a smart order whose position matches already
(place_smart_order_service.py:219-237); success without a number for a batch,
or a failure, for each of them; and there are kinds the execution has no service
for. `sent`, `approvals`, `rejections`, `overlapped` and `unnumbered` (a success
without a number, of which nothing is recorded) are history.

**OrderDecision** is what semi-automatic trading promises of an order that waits
for its user: approved or rejected, once, and sent once, after its approval.
`ActionCenter` implements it (`ImplementsDecision`). The mapping `Stage` reads
the history and not the row, so a row that is overwritten, deleted or left
behind by a failed commit cannot hide a second decision or sending: those would
show as `"wrong"`. An order that two requests have found pending at the same
time is `"disputed"`, and no more is said of it; `OneOrderPerApproval` and the
hazard list say what is left then.

**Distribution** is the inbox of one publisher: `row` is the signal log,
`book` the broker, `req` the webhook threads with their position between broker
call and commit, `poll` the poller with its session: the attributes it has
loaded (`held`, `seen`), changed (`dirty`) and set to null (`drop`). A commit
writes the changes of all objects of the session and expires them (`Flushed`,
`Expired`), so the commit that stores a bracket's stop also makes its entry
final. `published` is what the publisher was told. The broker may lose an
answer after it has taken an order. The poller works in its hours (`market`,
always if `ForceAlways`) and loads rows of the last 36 hours only: `old` are
those that left the window before they were final, of the legs in `Aging`. An
orderbook shows any part of the orders that were asked for (`Fetch`): one may be
missing, or have a status nobody knows; without a broker session there is none
(`OrderbookFails`), in any cycle and at no cost in faults. A closing order whose
answer has no number is logged without one (`PlaceClose`, `RecordClose`).

**ConnectionPool** has no variables: a pool is a record, and each method an
operator that returns the set of results over what the broker's adapter may
answer (success, error, exception). Errors returned by `initialize` and
`connect` of a further adapter are ignored (connection_manager.py:327-328), so
an adapter that is not connected may accept a subscription and stream nothing
until it connects: a success that counts as a failed call (`SubscribeOn`,
`Upgrade`, `Downgrade`). `unsubscribe_all` has no handler: an adapter that
raises leaves those after it unasked and the pool's tables as they were
(`UnsubscribeAll`), and then the cleanup of the user's last client
(server.py:541) ends before the client is taken out of `user_mapping`: it counts
as the user's ever after (`EndCleanup`). **MarketDataProxy** is the server with one
pool per user. Its handlers run in one event loop and wait for nothing before
they have finished changing state, so each is an action; the two that loop over
a client's subscriptions are one step per subscription, with `task` holding
back everything else.

**DistributionClaims** states what a comment says and the code does not do.
**MC...** modules hold values and symmetry sets.

Operators called `Faulty...` sit next to the definition they corrupt. They are
used by no specification: each is a plausible bug, substituted for the real
definition to show that a property notices it.

## Runs

| run | instance | shows |
|---|---|---|
| `accounts` | 3 MARKET orders, CNC and MIS (leverage 2), prices 144 and 288, T+1 settlement, automatic reset | `CashConserved`, `FlatHasNoMargin`, `RealizedMatchesTrades`, `SharesFollowTrades`, `ProfitBookedOnce` |
| `resting` | 2 LIMIT, SL or SL-M orders, modifications, cancellations, closes, automatic reset | `TerminalOrderIsFinal`, `RestingOrderIsAffordable` |
| `race` | 2 orders, both engines, placing threads that trade, cancellations, failing commits (also one that leaves its thread stuck) | `CompleteHasTraded`, `OneTradePerThread`, `NoPhantomShares` |
| `recovery` | 2 orders of quantity 1 or 2, polling engine, modifications, failing commits, 2 crashes; fairness | `BooksPartForAReason`, `ImplementsLifecycle` |
| `settlement` | 2 symbols, 2 settling threads, 3 fills, 1 fault; fairness | `SettlesAtomically`, `EachFaultCostsLittle`, `PositionsSettle` |
| `index` | 3 orders of 2 symbols, 1 stop, starts that succeed, fail to read the orders or fail to subscribe | `OpenOrdersAreIndexed`, `IndexedAreCounted`, `FeedFollowsCount` |
| `engines` | 1 caller, 2 polling threads, 2 watchers, 1 engine, 1 monitor, 2 fallback loops, 1 fault, any number of starts and stops; fairness | `ImplementsSwitch`, `StoppedStaysStopped`, `OneLoopUnlessLate`, `StopReturns`, `UpgradeHappens`, `StaleDataIsPolled` |
| `center` | 2 orders, each smart, batch or without a service, 2 requests, 1 fault; fairness | `OneOrderPerApproval`, `ImplementsDecision`, `RowTellsTheOrder`, `ApprovedIsExecuted` |
| `inbox` | 1 signal with stop and target, 2 requests, quantity 2, 3 broker orders, 1 fault | `SuccessMeansTracked`, `ChildrenFollowTheFill`, `OneChildUnlessAFault`, `FinalFillIsTheBrokers`, `OrdersAreLogged` |
| `progress` | 1 signal with a stop, 2 requests, quantity 1, 2 broker orders, 1 fault, hours that begin and end, an entry that may leave the window; fairness | `FillReachesTheLog` |
| `feeds` | 2 clients, 3 symbols, 2 modes, 2 connections of 1 symbol, 1 failing broker call (refused, raised, or accepted without a connection) | `SlotsMatchSymbols`, `ServerFollowsClients`, `NoFeedLost`, `SlotsAreFreed`, `NoOrphanStreams` |
| `exit_leaves_children` | 1 signal, 2 requests, no fault | violates `ExitLeavesNoChildren`, see below |

Why these bounds are enough.

* *Ledger*: a position needs an opening, a change and a closing or reversing
  order, so three orders reach every branch of `_update_position` from every
  kind of position; the quantities make an order smaller than, equal to and
  larger than the position, and prices, quantities and leverage are chosen
  divisible so that no property depends on rounding (the proofs do not assume
  this). The capital is small enough that a second order may not be affordable.
  The two prices give profits and losses and both outcomes of every price
  condition.
* *Races*: two orders are needed for two fills to meet in one position row, and
  each of them meets three executing threads; crashes are bounded by two so
  that a restart can itself be interrupted, in the run whose state space allows
  it.
* *Settlement*: what a commit can take with it is the row of the position
  before, so two symbols show it; the third fill meets rows in hand or goes
  back on a holding; two threads overlap, and the fault is a crash or a failed
  commit at any step. The proofs cover the rest.
* *Index*: two orders share a symbol and one does not; one stop gives an engine
  object that threads still hold while the next one starts.
* *Engines*: two polling threads and watchers are needed for one that outlived
  its join beside its successor. One caller stands for any number, as a waiting
  request has no state and the lock admits one. The proofs allow any number of
  all of them.
* *Center*: two requests decide, delete and list the same two orders; the fault
  may be a failed commit, a lost answer or a restart at any step. Whatever a
  single order does a smart order may do as well, so `single` is left out of
  the instance.
* *Inbox*: two requests post a signal twice, or post and cancel or exit it, or
  both withdraw it; three orders are the entry and its two children, or an
  entry, a child and a closing order; quantity two allows a partial fill of the
  entry and the closing order (`Parts`; a stop or target fills at once in this
  instance, in the proofs any order may fill in parts). Its
  poller keeps no hours (`ForceAlways`) and its rows do not age, since both only
  keep the poller from a step it may omit anyway, and the properties of that run
  are about states and not about progress; the proofs have both.
* *Progress*: the property is about the entry, whose row is the only one that
  ages; two orders are the entry and its stop or a closing order, or two entries
  of one signal.
* *Proxy*: with one symbol per connection and two connections, three symbols
  exercise a new connection and the refusal at the limit; two modes give
  upgrade, downgrade and covered subscriptions, two clients sharing and not
  sharing a key; the failing call may be any of them, the second call of a
  downgrade included (two failures hold as well and take three times as long).
  One user, since a deployment has one (docs/websocket-architecture.md:382).

Deadlock is checked where the system never stops (ledger, engines, proxy). In
the other instances everything has happened once the bounded orders, fills and
requests are used up.

## Fairness

Users, publishers, brokers and faults are never under an obligation. What is
assumed is that threads which the code keeps in a loop, or has started on
something, go on:

* `OrderRace!FairSpec` (the polling engine is a loop that is never left,
  `execution_thread.py`): `WF(PollSnapshot)`, `WF(PollNext)` and
  `WF(Execute(w))`; `SF(PollNext(o, TRUE))`, since an order that is looked at
  again and again gets a quote at some time (a cycle without a quote skips it);
  `SF(CommitTrade(w))`, since a commit that is tried again and again does not
  fail for ever (it fails while SQLite is locked). `Reached` are the orders
  whose price conditions every quote meets: only they must leave the state open.
* `Settlement!FairSpec`: the job starts every night and its thread is scheduled
  (`WF(Start(t))`, `WF(Settling(t))`). Faults are bounded, so that after the last
  of them a settlement ends.
* `EngineLifecycle!FairSpec`: every thread that runs is scheduled, and every join
  returns, with its thread or with its timeout. Neither the proxy nor the data
  has to recover, and nobody has to call.
* `ActionCenter!FairSpec`: a request that has begun is worked off.
* `Distribution!FairSpec`: the poller's loop catches every exception of a cycle
  and goes on, so that a cycle that has begun is worked off (`WF(Cycle)`). It
  tries every 30 seconds in hours that come again with every session
  (`WF(MarketOpens)`), and of the sessions to come it meets some
  (`SF(PollStart)`), though any of them may end first (`MarketCloses`). Of the
  cycles that ask for an entry some get an orderbook that shows it with a
  status the poller knows (`SF(FetchShows(...))`): that is an assumption about
  the broker, and about the owner, who has to log in to it every day; nothing in
  the code makes it so. No row has to age, and no row is kept from it
  (`GrowsOld`): a final state that the poller does not meet in time is not
  claimed to reach the log.

## Proofs

Every proof module stands alone, assumes only the named `ASSUME`s of its module
(the kinds of the constants) and holds for any number of orders, threads,
symbols, requests and faults.

`SandboxLedgerProofs` proves, for all products, price types, quantities,
prices, leverages, any capital and any number of orders, with `LedgerAssumption`
(kinds of the constants, positive prices, quantities and leverages) as the only
assumption:

| theorem | property | argument |
|---|---|---|
| `LedgerType` | `TypeOK` | inductive. The interesting part is that margins and costs stay natural numbers: what a reduction takes out is a share, and a share of a part is at most the whole (`ClosedParts`, from `ShareIsAtMostAll`). |
| `CashIsConserved` | `CashConserved` | inductive given types: each call moves margin between available and used, adds a profit to both sides, or moves money into the holding (`SettledFunds`, `ReconciledFunds`, `MovedMargin`). |
| `ClosedPositionIsClean` | `FlatHasNoMargin` | inductive given types: a full closure takes the whole share (`ShareOfAll`), so no rounding remains. |
| `RealizedProfitIsRight` | `RealizedMatchesTrades` | needs `FlatHasNoMargin`: a reopened row replaces the cost it had, so the equation survives only if that cost was zero. |
| `TerminalOrdersStay` | `TerminalOrderIsFinal` | every step writes at most rows that are new or open. |
| `FillsReconcile` | `FillReconcilesMargin` | only a fill makes a row complete, and a fill ends with the reconciliation. |
| `ProfitsAreBooked` | `ProfitBookedOnce` | only a fill against the position realizes a profit (`OnlyFillsComplete`, `RealizedGain`), and its release books that same profit. |
| `SharesMoveByTrades` | `SharesFollowTrades` | every fill changes the quantity by that of its order (`QuantityFollowsOrder`), also where it reverses the position, and completes one order; settlement moves what it takes, and no other step changes a position or the holding. Only a reset is exempt. |
| `RestingIsAffordable` | `RestingOrderIsAffordable` | an order that rests blocked its margin only after the check against available (`RestingIsCovered`). |

`StepKinds` is the lemma all of them go through: every step is a fill (from a
funds row in which margin has at most been blocked), a booking without a trade,
a settlement, a reset, or the clock. So no proof looks at the dozen ways in
which a call can be made.

`OrderRaceProofs` proves, for any number of orders, any quantities, engines,
faults and crashes, with `RaceAssumption` (kinds of the constants) as the only
assumption unless named:

| theorem | property | argument |
|---|---|---|
| `RaceType` | `TypeOK` | inductive with `OwnOrder` (a placing thread handles its own order), because an idle thread that starts placing must already hold an order. |
| `CompleteOrdersHaveTraded` | `CompleteHasTraded` | inductive given types: a row becomes complete in the commit that adds its trade, or when a trade was found. |
| `NoSharesFromNothing` | `NoPhantomShares` | if nobody modifies an order. The shares that threads have traded and not yet written are counted as a set with one element per share (`Unbooked`). `Covered` says that these and the position, or whatever a thread has read of it, are together at most what was traded: a write that loses another's update only leaves less. With modifications it is false, and not claimed: one committed between the trade and the reading changes what the thread adds. |
| `OrdersTradeOncePerThread` | `OneTradePerThread` | The number of trades alone is not inductive: what bounds it is who may still trade. `Permits(o)` are the threads past the check of `_process_order` (or placing, which go around it). Before the first trade they are at most the executors; after it none is added and each trade uses one up (`StepPermits`), so trades + permits never exceed the executors (`PermitsBound`). |
| `OneExecutorTradesOnce` | (`AtMostOneTrade`) | the case of one engine and placing threads that do not trade, of the theorem before. |
| `BooksStayTogether` | `BooksPartForAReason` | where one engine works alone, whatever users edit and cancel (`AloneAtWork`): the position is what the thread that is about to write it has read (`Undisputed`), so what is traded, less the position and what that thread still has in hand, changes only where a modification overtook the trade or a failure or crash cut the execution short. |
| `SingleExecutorImplementsLifecycle` | the safety half of `ImplementsLifecycle` | with one engine, no trading by placing threads and no cancellation (`SingleExecutor`), what is queued or about to be executed is open and has not traded (`SingleInv`); so each commit maps to placing, filling or dropping one order, or is not seen (`StepImplements`). |

`SettlementProofs`:

| theorem | property | argument |
|---|---|---|
| `SettlementType` | `TypeOK` | inductive. |
| `HoldingsStayPaid` | (`HoldingsArePaid`) | Until settlements overlap one thread is active, its rows are there and the holding it has read is the holding (`Undisturbed`, `Orderly`); so a transfer moves what it adds, or less. |
| `SettlementIsAtomic` | `SettlesAtomically` | Each step maps to one of `AtomicSettlement`, to none, or follows damage (`StepWhole`): the commit of a holding settles its position, as without damage the thread knows what the row holds (`Undamaged`, from `DamageIsBounded`) and nobody has written the holding since it was read (`Undisturbed`); taking a row of quantity zero settles that; marking rows and deleting them shows nothing. |
| `FaultsCostLittle` | `EachFaultCostsLittle` | There is a set of symbols, at most as large as the damage allowed, outside of which the books are in order at every step (`DamageIsBounded`): of the rows settled but not deleted only one has a quantity, so a crash adds one symbol to the set, a failed commit two. |

`PendingIndexProofs`:

| theorem | property | argument |
|---|---|---|
| `IndexType` | `TypeOK` | inductive with `StopsAreCounted`. |
| `NoOrderIsMissed` | `OpenOrdersAreIndexed` | `ReportIsComing`: the engine counts as running before it rebuilds its index, so an order committed after the rebuild is reported, and a thread about to report holds the object that serves, because it looked at `_running` before it fetched the object. |
| `CountsCoverTheIndex` | `IndexedAreCounted` | only the tick thread takes orders out of the index, and what it holds of the serving object is in it (`TickIsInTheIndex`), so each completion takes one of both. |
| `FeedFollowsTheCount` | `FeedFollowsCount` | `FeedIsOnItsWay`: every change that makes count and feed differ leaves a call behind that will close the gap, or is in `late`. |

`EngineLifecycleProofs`:

| theorem | property | argument |
|---|---|---|
| `LifecycleType` | `TypeOK` | inductive. |
| `OneExecutes` | (`OneExecutor`) | `ExecutorIsKnown`: what executes is what the globals name, and a polling thread and an engine are never both untold. It needs `LockIsHeld` and `PollerIsKnown`, because a forgotten thread that was not told would be beyond the reach of the next stop. |
| `StopStays` | `StoppedStaysStopped` | `StopUnderWay` says what a stop has behind it at each of its joins, `StopIsFinal` that a watcher which gets the lock afterwards finds no polling thread to replace. |
| `StartIsServed` | (`StartedIsServed`) | `StartServes`: an upgrade tells the polling thread to stop in the locked section that has started the engine. |
| `LoopsAreSingle` | `OneLoopUnlessLate` | While no fault occurred an engine has one monitor, which starts a loop only if it has seen the flag down and then every loop of the engine is late (`MonitorKnows`). |
| `LifecycleImplementsSwitch` | `ImplementsSwitch` | `ExecutorIsKnown` holds before and after a step, so the mapped executor is told by `NoPoller` and `NoEngine` (`ExecutorsAre`). A start finds an executor or, since nothing else runs (`NothingRuns`), brings up one or a failure (`StartedEngine`); an upgrade trades the polling thread for an engine in one locked section (`UpgradeStep`); of the steps of a stop `StopEngine` or `StopPoller` ends the executor and `EndStop` finds none (`StopSteps`, from `StopUnderWay`); everything else is not seen (`QuietNotSeen`, `WatcherNotSeen`). |

`ActionCenterProofs`:

| theorem | property | argument |
|---|---|---|
| `CenterType` | `TypeOK` | inductive with `Ordered`: a request past its list has an order in hand. |
| `ApprovalSendsOnce` | `OneOrderPerApproval` | The number of sent orders is not inductive: `Used` counts with them the requests that hold an approval and may still send; a commit adds one to both sides, a sending moves one over. |
| `DecidedOnce` | (`OneDecision`) | `OneAtATime` and `HistoryTold`: while no two requests decide at once, a row under decision is pending and a pending row was never decided. |
| `TableTellsTheOrder` | `RowTellsTheOrder` | adds `ExecutionTold` (what an execution at each of its steps has sent, and that nobody wrote the broker status before it) and `OutcomeTold`. An approved row without an answer of the broker is `unnumbered`: its service answered success without a number; if it is a smart order nothing was sent. |
| `CenterImplementsDecision` | `ImplementsDecision` | `Stage` is told by the three counts (`StageIs`), and a step that turns one order's stage is a step of the decision (`OneTurn`). A commit decides an order that was not decided, as its request is the only one that does (`OneAtATime`, `HistoryTold`), or the order is disputed; a sending has an approval that was not used (`Used`); recording, deleting and what the requests only read is not seen. |

`DistributionProofs`, for any signals and brackets, requests, quantities, orders
at the broker and faults:

| theorem | property | argument |
|---|---|---|
| `DistributionType` | `TypeOK` | part of the invariant. |
| `SuccessIsTracked` | `SuccessMeansTracked` | `Gains`: in every step a row that has an order keeps it, an order keeps its signal, and an order that has ended keeps its state. So what a thread holds when it waits is still true after it (`ReqOK`), and only the thread whose row was taken goes on to a success. |
| `FinalFillIsFinal` | `FinalFillIsTheBrokers` | the fill columns are written by the poller only. What it holds for a row is either not final or the order's end (`OrderbookOK`, `SessionOK`), and an end stays. |
| `ChildrenProtectAPosition` | `ChildrenFollowTheFill` | `PlacingOK`: while a child is being placed its entry is in the log and complete, however old the row in the session is, and the child is not in the log. |
| `AFaultPerExtraChild` | `OneChildUnlessAFault` | The number of children alone is not inductive: `ChildrenCounted` says that a child the poller may still place (`Fresh`) has at most as many orders as there were faults, and one that is placed at most one more. A child becomes fresh again only with a fault, since the commit that records it makes its entry final; the rows changed but not committed come before the rows to do (`SessionOK`), so that no row is met twice in a cycle. |
| `NoOrderIsForgotten` | `OrdersAreLogged` | without a fault a thread with an order goes on to its row, and a row once there stays. |

Two lemmas carry most of it: `ThreadStepKeeps`, as no webhook writes anything the
poller has to know (`Elsewhere`), and `CommitStep`, which says what a commit of
the poller's session may write, whichever of its three places it comes from.

`MarketDataProxyProofs`, for any symbols, clients, limits of the pool and number
of failed calls; the theorems marked (1) assume `OneUser`, as a deployment has:
with a second user a client that logs in again as somebody else leaves the
connections of the first open.

| theorem | property | argument |
|---|---|---|
| `ProxyType` | `TypeOK` | part of the invariant; a count is a natural number because it is a cardinality. |
| `ProxySlotsMatch` | `SlotsMatchSymbols` | A pool is `InOrder` if the count of a connection is the number of symbols tracked there and a symbol is in one place. Each method of `ConnectionPool` keeps that for every answer of the broker (`SubscribeIs`, `UnsubscribeIs`, `UnsubscribeAllIs`, `LoginIs`); below them three lemmas say what a new, a lasting and a removed symbol does to the sets that are counted (`AddedSymbol`, `SameSymbols`, `RemovedSymbol`). |
| `ProxyFollows` (1) | `ServerFollowsClients` | the index with each change of a client's set (`IndexStays`); connections lose their last client only in `EndCleanup`, which closes them. |
| `ProxyNoOrphans` | `NoOrphanStreams` | a call without failure is `Calm`: it changes one stream, of a symbol that is on the books there or is silenced (`NoNewOrphans`). |
| `ProxySlotsAreFreed` (1) | `SlotsAreFreed` | needs `NothingLeft`: who has no open connection has nothing on the books, so a key given up after an invalidation leaves no slot. |
| `ProxyNoFeedLost` (1) | `NoFeedLost` | a call without failure leaves a stream to every other key that is as good as before (`StillServed`): an upgrade streams more, a downgrade the highest mode that remains (`HighestIs`). |

A property in brackets is proved and has no run of its own: the run that stated
it now checks a stronger one (`ImplementsLifecycle`, `SettlesAtomically`,
`ImplementsDecision`, `ImplementsSwitch`).

Only model-checked: liveness (`PositionsSettle`, `StopReturns`, `UpgradeHappens`,
`StaleDataIsPolled`, `FillReachesTheLog`, `ApprovedIsExecuted`, the liveness half of
`ImplementsLifecycle`), as fairness is out of the prover's reach.

## What the code does that its documents deny

One claim has a run in which TLC finds the sequence of steps:

* `exit_leaves_children`: an exit "always cascades to bracket children"
  (distribution.py:1185), but it looks for them in the signal log, and the
  poller places a child before it records it, from a row it loaded before the
  exit cleared the bracket. The exit answers success and the stop stays at the
  broker.

Met while modelling and part of the models, without a run of their own.

*Orders and money*

* `cancel_order` takes an order with `margin_blocked = 0` for an old row and
  releases a margin computed from all of its quantity, also when the order
  reduced a position and nothing was blocked; `used_margin` becomes negative
  (order_manager.py:895). The catch-up raises a negative `used_margin` to zero
  without moving the difference (catch_up_processor.py:116).
* `reconcile_margin` counts positions only, so any fill frees the margin of all
  waiting orders (fund_manager.py:513).
* Two waiting CNC sales pass the check against the same shares.
* `modify_order` changes price and quantity of a waiting order and leaves its
  blocked margin as it was (order_manager.py:777).
* The margin of a reversing order covers its excess only
  (order_manager.py:497-504) and is scaled by the excess once more when it
  fills (execution_engine.py:634, whose comment says the opposite).
* A profit reaches the funds row only if the position had margin to release
  (execution_engine.py:513): `ProfitBookedOnce` names the exception.
* In the hours closed for MIS only the side of an order is compared with the
  position, not its quantity, so it may reverse the position
  (order_manager.py:180-197).
* The documented equation total_capital = available + used + realized
  (docs/design/07-sandbox/README.md:263) counts realized profit twice, since
  `release_margin` adds it to available as well; `CashConserved` is the one
  that holds.

*Executors*

* The check for an existing trade is apart from the commit of the trade, and the
  placing thread goes around it: an order can trade twice (`OneTradePerThread`
  is the bound that holds). The polling engine trades an order that was
  cancelled after it was read, and of a cancellation and a completion the later
  commit has the status: an order can be cancelled and have traded. Two
  executions that read one position row lose one fill.
* A failed commit of a row whose trade was found is not rolled back
  (execution_engine.py:347-348): the thread's session serves no query again, so
  that the polling engine runs and executes nothing.
* Threads that were told to stop overlap with their successors: "only one
  instance will run" holds of those that were not told. After a `_stop_fallback` whose join
  timed out, an engine can have two fallback loops; the old one sees the
  flag up again and goes on.
* `_stop_fallback` of the monitor and of `stop()` can meet: one joins an
  attribute the other has cleared, `stop()` ends with an `AttributeError` before
  it unsubscribes, the singleton stays set, and the next start registers its
  callback a second time. While it is set no upgrade happens.
* `start_websocket_execution_engine` reports success also when the subscription
  to market data failed. An upgrade watcher that outlived its join is
  revived by the next start, which clears the event it was told by.
* Unsubscribing after the lock was released can overtake a new subscription
  (`late`), and an order reported after a rebuild that has found it is counted
  twice, so that its feed is kept until the engine stops. A rebuild that fails
  leaves an engine that runs with an empty index. Cancellations and polling
  never notify the index: a tick does, when it finds the order closed.

*Settlement*

* A crash between the commit that moves a position into the holding and the one
  that deletes it settles it twice. A failed commit loses the shares of its
  position (the result is not looked at, the row is deleted) and brings the
  previous row back.
* Overlapping settlements (the midnight job, `run_catch_up_tasks`,
  `catchup_missed_settlements`) can double or lose shares; a fill of a row that
  is being settled is deleted with it.
* A sale without a holding creates a negative holding and moves the margin of
  its absolute quantity.

*Action center*

* A rejection that answers success does not stop an order whose approval had
  read it as pending ("No trade executes",
  userguide/22-action-center/README.md:157), and two approvals of one order
  send it twice.
* GTT and multi-leg option orders are queued, but the execution has no service
  for them: they are recorded as rejected after their approval
  (pending_order_execution_service.py:136-139).
* Baskets and splits that succeed carry no order identifier, so the broker
  status is never recorded. Nor is that of an approved smart order whose position
  matches already: nothing is sent and the row stays approved without an answer.
  A lost answer is recorded as rejected. A crash after an approval leaves the
  order approved and never executed.
* Approve-all ends with an exception when an order of its list was deleted after
  a commit had expired the list, and executes an order that was rejected after
  its own reload.

*Distribution*

* Two posts of one signal that race both place an order; the second row is
  refused by the unique constraint ("second is a no-op", distribution_db.py:123)
  and its request is answered with an error while its order lives.
* "next cycle will re-attempt" (fill_poller.py:227-230) and "retry next cycle"
  (fill_poller.py:247-249, 437-440) do not hold once a commit has made the
  entry's status final: it is not polled again. Without a broker session the
  children are given up and the bracket is cleared.
* A final state that comes after the poller's day, "an EOD square-off cancel", is
  said to be "synced on the next session" (fill_poller.py:156-158). The window of
  36 hours is too short for a weekend: an order received on Friday afternoon and
  cancelled after 15:45 is more than 36 hours old when the poller starts again on
  Monday at 9:00, and is never polled again. Likewise before a holiday, and for
  an order that rests for days. `FillReachesTheLog` therefore claims nothing of
  a row that is `old`.
* The bracket is attached in a commit of its own after the row's: a crash
  between them leaves an entry without protection, and so does a poller that
  makes the entry final between them.
* An exit takes a position it cannot read as already closed; the exit of an
  entry the broker reports as partial closes what has filled and leaves the
  remainder working; two exits at
  once may sell more than is held. A stop that fills does not cancel the target.

*Market data proxy*

* A downgrade whose second broker call raises leaves a symbol tracked and not
  streamed (connection_manager.py:625, 661-664); the same mode subscribed again is
  answered with success.
* The server forgets a client's entry before it asks the pool, so a refused
  unsubscription leaves the slot occupied for a key nobody wants
  (server.py:1236).
* `unsubscribe_all` forgets what an adapter that answers with an error keeps
  (connection_manager.py:687), and if one raises the client that left stays in
  `user_mapping` (server.py:541, 552).
* `subscription_index` has no user in its key while pools are per user: with
  two users the pool of the one that leaves first keeps its slots. This is why
  `SlotsAreFreed` is stated for a deployment with one user.
* Unsubscribing does not translate the names of modes (server.py:1200) as
  subscribing does (server.py:991): "LTP" is not the key 1, and the request is
  answered with success without an effect. The model's keys are the numbers.

## Not modelled

Inside what is modelled: several instruments and users in the ledger (rows of
different instruments meet only in the funds row, which `PositionMargin` sums
over products); charges, unrealized profit, today's profit and P&L history;
validation of symbols, lot sizes and freeze quantities; the market data itself
(a quote is any price of the instance, or none); the read-modify-write steps of
the funds row (the lock of `FundManager` covers all but `reconcile_margin`); a
feed subscription that the proxy refuses; the delivery of ticks to clients and
the shutdown of the proxy; `modify` of a distributed signal.

`PendingIndex` has no stop that raises. `_stop_fallback`
(websocket_execution_engine.py:347-353) does if the health monitor sets
`_fallback_thread` to `None` between the test and the join. The object then stays,
no longer running, with its index, counts and subscription; the next start
rebuilds the same object while the tick thread may still hold orders of it, whose
completion would lower the rebuilt counts, and `IndexedAreCounted` would not hold.
`EngineLifecycle` has that step (`stop()` and the monitor meet).

What the properties leave open: a hazard whose bite is simply what the code does
is covered by no property of `PROJECT.json`; its note says so, and the section
before this one what follows from it. Many properties of the proxy and of the
races set aside the steps that a fault explains (a failed call, a lost answer, a
crash); what those leave behind is in that section as well.

Components:

* *Square-off* and the square-off part of the catch-up: the calls they make
  (`cancel_order`, `close_position`) are actions of `SandboxLedger`; the race of
  the job of an exchange with the backup job (squareoff_thread.py:39) is not
  modelled. Both would place a closing order of the whole position, the same
  hazard as two exits of a distributed signal.
* *Expiry settlement* (`position_manager.py`) closes contracts at their last
  price; it has no counterpart in the modelled instrument, which never expires.
* *Flow executor and price monitor*: the interpreter is a sequence of service
  calls. The monitor is small, and what was found reading it is this: an alert
  added while the last one is removed sees `_running` and is never polled; a
  callback that removes the last alert makes the monitor thread join itself; an
  alert that fires late removes one that was added again under its key; the row
  of the workflow stays active after its alert fired.
* Broker plug-ins (34 of them, most of the code), option analytics, charts,
  Telegram, MCP, the REST layer, the frontend, installation and migration are
  I/O, conversion or numerical code without a protocol between actors.
  Authentication and settings are storage with caches. The event bus is fire and
  forget; the broker adapter base class and the market data service enter as
  the outcomes of their calls.

## Plan

Done, in this order: the ledger with its proofs; the races between executors
with the abstract lifecycle and theirs; the proxy with its pool; the
distribution inbox with the poller; engine start and stop, the order index, the
settlement and the action center, each with its proofs; the proofs about the
proxy; the abstract specifications of the settlement, the decision and the
executor, with the proofs that they are implemented.

What remains, most useful first:

1. *SquareOff*: the exchange jobs and the backup job as two closers of one
   position over `OrderRace`.
2. *FundsRow*: the lock of `FundManager` and the writers that do not take it
   (`reconcile_margin`, the catch-up), as reads and commits of one row.
3. *PriceMonitor*: alerts, the polling thread and its callbacks.
4. *PublishedSignal*: what the inbox promises of one signal (logged, entered
   once, its bracket placed once after the fill), as an abstract specification
   that `Distribution` implements between faults.
