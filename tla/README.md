# zLine in TLA+

Specifications of the parts of zLine whose behaviour is more than a sequence of
statements: which steps interleave, what fails between two of them, and what must
hold all the same.  TLC checks them on small instances; TLAPS proves the main
results for every value of the constants.

    tlc -workers 2 -config broadcast_delivery.cfg MCBroadcast.tla
    tlapm BroadcastProofs.tla

(`requests.cfg` goes with `MCRequests`, `automos.cfg` with `MCAutomos`, `trading.cfg` with
`MCTrading`.)

`PROJECT.json` lists components, runs, mutants, theorems and hazards, and maps
every definition to the lines it models.

## 1. Inventory

The repository is a monorepo: a CRM for LINE (FastAPI, a Kafka worker, React), a
trading side (`autonomos/`, `zBAutomos/`, `arb/`), and a large amount of
installers and infrastructure.

| Component | State | Operations | What is hard | What makes it correct |
|---|---|---|---|---|
| CRM API, `backend/api/main.py` | PostgreSQL rows: tenants, users, leads, templates, campaigns, messages; the in-memory limiter | register, login, webhook, leads, broadcast, billing hook | two replicas, sessions that roll back after LINE was called, check-then-insert against unique constraints, a rate window in Redis | a lead per (tenant, user); counts that match messages; replies that match rows; limits that limit |
| Broadcast delivery: `create_broadcast`, `queue_broadcast_event` and `backend/worker/worker.py` | campaigns and messages; the Redis list; the Kafka topic, the group's position and assignment; per worker the polled batch, the record and the open transaction | publish to Redis, Kafka or nobody; pop, poll, process, dead-letter, commit | ambiguous acknowledgements, crashes, evictions, commits of whole batches, pushes inside a transaction | accepted campaigns are handled; counts and rows are backed; duplicates are bounded; only matching leads are addressed |
| Worker message events, `process_message` | messages, `reply_count` | insert, increment | runs beside the API's read-modify-write of the same counter | no reply is lost |
| Dashboard, `frontend/src/pages/DashboardPage.jsx`, `frontend/src/lib/api.js` | React state, `localStorage` | login, overlapping loads, actions, checkout, logout | late answers, aborted requests, bodies that never end | what is reported is stored, what is shown has the user's own change, buttons come back |
| HFT ring, `zBAutomos/hft/include/mpsc_ring.hpp` | cells with sequence numbers, `head_`, `tail_` | push by many threads, pop by one | lock freedom | a bounded FIFO queue without races on a cell |
| FIX gateway, `fix_order_builder.hpp`, `fix_client.cpp` | a byte buffer, a sequence number | build, send | lengths and checksums in place | well-formed messages |
| zBAutomos worker, `worker/src/*.ts` | a task queue, hedge legs | enqueue, drain, two-legged execution with the residual, routing | one leg of two fails or fills in part, tasks that throw | tasks in order, none left behind; the last order never widens a gap |
| Automos copy trading, `autonomos/copy`, `queue`, `trading/userEngine.js` | followers, trades, a Bull queue, the profit of the process | follow, unfollow, queue, run a job, copy to the followers | awaits between an order and its row, failures, a process that dies and a queue that repeats | one trade per attempt and user; only followers get copies; jobs end |
| Automos loop, `autonomos/core/trading_loop.js`, `risk/manager.js`, `execution/live.js` | a position per call, the profit of the process | tune, trade over candles, check the risk | loops, jobs and resets share one module variable | a loop stops at the limit |
| Automos accounts and billing, `autonomos/auth`, `middleware`, `billing` | users, tokens, plans, subscriptions | register, log in, read admin routes; checkout, Stripe's event | the role in a token ages; events come late, twice, after failures | admin access expires; who paid is active, who is active paid |
| Tick storage, `autonomos/data` | a Redis list, a file | push, read, write, trim | two processes on one list, overlapping intervals, restarts, commands sent again after a lost answer | ticks that did not race are lost only to an LTRIM that runs twice, a batch at most each time |
| Latency arbitrage, `arb/latency_engine.js` | quotes, positions, locks and cooldowns per pair | a quote, check the pairs, trade, settle | one quote makes several pairs trade before any settles | positions are hedged and bounded; a quote is dealt once |
| Affiliate and marketplace, `core/affiliate`, `marketplace` | referrals, credits, ownership | refer, buy | overlapping transactions, lost answers | a referral is paid once |
| Routers, `execution/smartRouter.ts`, `zBAutomos`, `autonomos/execution` | the prices read so far | ask each exchange, send; slices of a TWAP order | books move between the questions | the order goes where the best price read was |
| Backtests, `autonomos/backtest/engine.js`, `zBAutomos/backtest` | balance, position, curve | a candle, the end | stops and signals in one candle, candles without a price, fees, the sale after the last candle | what is held is what the trades left; the reported ending balance is no less |
| Calculations around them: risk, weights, grids, votes, quotes | pure | | ties, signs, boundaries | each returns what it is named for |
| Control panel, ML training, demo servers, installers, k8s | | | | not modelled |

How the CRM's parts interact: the browser calls the API over HTTP; LINE calls the
API's webhook; the API commits to PostgreSQL and pushes events to the Redis list
`queue:broadcasts` or, failing that, to the Kafka topic `events.broadcasts`; the
workers read both, call LINE, write to PostgreSQL and send what failed to
`events.dlq`.  In Kubernetes API and worker run in two replicas each, and every
container is restarted when it ends.

The trading side is a set of processes that share little: the Automos API with its
jobs and loops in one process and its accounts and billing in the same database; the
tick collector and the storage, which meet in a Redis list; and tools that run alone.

Sections 2 to 9 describe the models, one part of the system each; section 10 the
findings, 11 the proofs, 12 what is not modelled and why, 13 what is left.

| Section | Modules | Run |
|---|---|---|
| 2 | `CampaignLedger`, `Broadcast`, `MCBroadcast`, `BroadcastProofs` | `broadcast_delivery`, `broadcast_ledger`, `broadcast_accepted` |
| 3 | `TicketQueue`, `MpscRing`, `MCTrading`, `MpscRingProofs` | `trading` |
| 4 | `LeadScoring`, `Webhook`, `MCWebhook`, `WebhookProofs` | `webhook` |
| 5 | `SlidingWindow`, `RateLimit`, `MCRequests`, `RequestProofs` | `requests` |
| 6 | `Dashboard`, `MCRequests`, `DashboardProofs` | `requests` |
| 7 | `Signup`, `MCRequests`, `RequestProofs` | `requests` |
| 8 | `Strategies`, `AutomosRuntime`, `CopyTrading`, `TradingLoop`, `Automos`, `Accounts`, `Billing`, `MCAutomos`, `AutomosProofs` | `automos` |
| 9 | `LatencyArb`, `TaskQueue`, `AtomicHedge`, `TickPipeline`, `Backtest`, `Ledgers`, `Routing`, `Analytics`, `MCTrading`, and `TradingProofs`, `AnalyticsProofs`, `RequestProofs` | `trading` |

Three runs hold several small parts that share no state.  There a variable `part`
says which one a behaviour exercises; the other parts stay as they started, in one
state where they may start in several.  The states of such a run are those of the
parts one beside the other, not their product, and nothing a part can do is left out.

## 2. Broadcast delivery

`CampaignLedger` is the abstract specification: what a reader of the database may
see of a campaign.  It is created (`Open`), and delivery attempts settle
(`Settle`): the message rows, the count and the outcome change in one step.

`Broadcast` is the detailed specification.

| State | Code |
|---|---|
| `status`, `sentCount`, `rows`, `target`, `leadStatus` | columns of `campaigns`, `messages`, `leads` |
| `handler`, `picked`, `left` | the request handler of one `create_broadcast` call |
| `redis`, `log`, `committed`, `owner`, `dlq` | list, topic, the group's position, the assignee of the partition, the dead letters |
| `wpc`, `cursor`, `position`, `record`, `source` | `Worker.run`: where it is, the batch it polled, the record it processes |
| `rest`, `sent`, `failed` | the loop of `process_broadcast` and the rows of its open transaction |
| `delivered`, `copies`, `matched` | history: what LINE took, the copies of an event, the leads a filter selected |
| `budget` | what is left of each kind of fault |

Every statement after which another process can see a difference is an action of
its own: the API commits (`CreateBroadcast`), publishes (`QueueInRedis`,
`QueueInKafka`, each with an answer, a lost answer or a failure), selects
(`BeginFallback`), pushes (`FallbackPush`, one per recipient) and settles
(`FinishFallback`).  A worker pops, joins, polls, takes a record, begins, pushes
recipient by recipient, settles, dead-letters, commits its position; it stops only
at the top of its loop (`Stop`), dies anywhere (`Crash`) or on a refused commit
(`CommitRefused`), and is restarted (`Restart`).  The group may take the partition
from a worker that is busy (`Evict`).

Abstractions: one partition of the topic; one request per campaign; the text of a
message, ids and time are left out; the validation of the event is left out
because events come from `create_broadcast` only (their tenants and campaigns
exist, which `EventsOfCommitted` proves); a push has one of four results.

### Runs

| Run | Instance | Shows |
|---|---|---|
| `broadcast_delivery` | 2 campaigns, 1 lead, 2 workers, Kafka; one crash, one eviction, one SIGTERM, one database error | `DuplicatesAreBounded`, `CommittedMovesForward` |
| `broadcast_ledger` | 1 campaign, 3 leads of 2 tenants (one without token) and 2 statuses, 1 worker, Redis, Kafka and fallback; all results of a push; a request dies, a database error, a lost dead letter, one change of status | `DeliveredOnlyToMatched`, `SentCountBacked`, `LedgerIsImplemented` |
| `broadcast_accepted` | 2 campaigns of 2 tenants, one of them without token, all addressed to the one lead's status, Redis before Kafka, one worker, one database error, one crash | `LossIsBounded`, `AcceptedIsHandled` |
| `claim_untargeted`, `claim_dead_letter` | minimal | counterexamples to what the interface and a test say (see Findings) |

Bounds: two campaigns are enough for a batch of two (`MaxPoll = 2`), where the
commit of one record passes another, and for the list to reorder; two workers for
every hand-over of the partition; two leads in one tenant for partial results.  Each fault
happens at most once per instance; the bound on duplicates is stated in the number
of faults that happened, so that it is not vacuous when there are none.
Deadlock is not checked in these runs: a system whose requests are all made and
whose faults are spent may have handlers that ended and nothing more to do, apart
from the workers' idle loop.

Fairness (`FairSpec`): weak fairness for the steps of a request handler and of a
worker, which are threads the operating system schedules; strong fairness for
joining the group and for a non-empty poll, because a worker calls `poll` again
and again and the broker answers with records eventually.  Creating a campaign,
faults and changes of status carry no fairness.

The code does lose records: BRPOP takes the element off the list before it is
processed, and `consumer.commit()` commits the end of the batch, as
`claim_dead_letter` shows.  `LossIsBounded` says what that can cost.  A crash takes
the one record in process, or what is committed and not yet processed of the
batch, which is all of it but the record before the commit; an eviction takes the
rest of a committed batch but for the record in process as well, because the next
commit is refused and ends the worker; a dead letter that is not taken was the
last of its record.  SIGTERM, roll-backs, lost replies and changes of the
partition's owner cost nothing.  The bound is tight: with a batch of two and one
crash TLC finds states where one campaign is lost, in either transport.
`AcceptedIsHandled` excuses only what is `Lost` in this sense.  SIGTERM has no
budget of its own in `broadcast_accepted`, because it does what a crash at the top
of the loop does.
Two more facts the runs make visible and the
properties leave room for: a campaign that is processed again is pushed to every
lead again (`DuplicatesAreBounded` counts the attempts), and an error after some
pushes rolls back the rows of messages LINE has delivered, so that there may be fewer
rows than deliveries.

## 3. The HFT ring

`TicketQueue` is the abstract specification: a producer takes a ticket when fewer
than `Capacity` are out, publishes the element later, and the consumer pops the
oldest ticket once its element is there.  `MpscRing` is `push` and `pop` with one
action per access to shared memory: `LoadSeq` with the three branches on `diff`,
the compare-and-exchange (`Reserve`, `ReserveFails`), `Write`, `Publish` on one
side, `BeginPop`, `Read`, `Free`, `Advance` on the other.

| State | Code |
|---|---|
| `head`, `tail`, `seq`, `data` | `head_`, `tail_`, `cells_[i].seq`, `cells_[i].data` |
| `ppc`, `pos`; `cpc`, `out` | a producer in `push`, the consumer in `pop` |
| `pushed` | the loops of `ring_demo.cpp`, which retry a refused push |
| `items`, `taken` | history: elements by position, elements popped |

The queue is obtained by the mapping `Tickets`: the positions from the first one
not given back (`Oldest`) to `head`, each ready when its cell says so.  A push takes
effect at its compare-and-exchange, a pop at its release of the cell.

| Part of `trading` | Instance | Shows |
|---|---|---|
| `ring` | 3 producers, 2 elements each, capacity 2 | `NoDataRace`, `ImplementsQueue`, `RefusedOnlyWhenFull`, `EverythingArrives` |

Six elements pass three laps of two cells, so every cell is reused and a producer
can hold a position that is one or two laps old.  A step is sequentially
consistent; the release stores and acquire loads of `seq` justify that for the
data of a cell as long as its accesses are ordered by them, which is what
`NoDataRace` states.  The model and the proofs assume a capacity above one: with one cell
the numbers of a published cell and of a free cell one lap later coincide, which the
`static_assert` (a power of two) lets through; nothing in the repository instantiates it.

Fairness (`FairSpec`): weak fairness for each thread, because none stops for ever in the
middle of the code and `ring_demo` runs them to their ends; strong fairness for some
compare-and-exchange to succeed, because a weak one may fail spuriously, but not
always.  `EverythingArrives`: once a producer is at work, all elements of all
producers are pushed and popped in the end.

## 4. LINE webhook

`Webhook` models the handler `webhook`, on several API replicas, next to
`update_lead`, `create_broadcast` (its commit only) and the worker's
`process_message`.  `LeadScoring` holds `calculate_score` and `determine_status` over
texts given as the keywords they contain.

| State | Code |
|---|---|
| `leads`, `newest`, `replyCount` | table `leads`, the newest campaign, `campaigns.reply_count` |
| `pc`, `todo` | a replica's handler and the messages it has left |
| `loaded`, `current`, `fresh` | the SQLAlchemy session: rows as loaded, rows as changed, rows to insert |
| `added`, `countRead` | `campaign.reply_count += 1` in the session: how often, on top of what |
| `epc`, `eRow`, `eNow` | a thread in `update_lead` |
| `counted`, `overlapped` | history: replies counted, whether a request ever ran beside another request or an event of the worker |

Three facts of the session decide what happens, and the model has all three.  The
session is created with `autoflush=False`, so a query does not see a lead that the
same request added.  A row is loaded once per session, so later queries return the
object as it is in memory.  A commit writes the columns whose values differ from
those loaded, so a stale object spoils only what it changed.

`webhook` is a coroutine whose only `await` reads the request's body; a replica
therefore handles one webhook at a time, while the synchronous endpoints run in
threads beside it.  The two replicas are those of `k8s/api-deployment.yaml`.
The rate limiter answers nondeterministically here, its denials bounded by
`MaxDenials`.  A lead's name and time stamps are left out: they change as its phone
does and as every write does.

One detail that the model keeps and a reader may overlook: in
`calculate_score(incoming_text, phone or (...) if lead else None)` the conditional
covers the whole argument, so the phone number in the first message of a user
earns no points (`NewLead`).

| Run | Instance | Shows |
|---|---|---|
| `webhook` | 2 replicas, 1 editor, 1 user, 1 campaign, 3 requests of one or two messages, 1 edit, 1 worker event, 1 denial, 1 failure | `CountBacked`, `CountExact`, `LeadIsOfOneMessage`, `NothingErased` |
| `claim_first_contact` | 1 replica, 1 request of two messages | two messages of a new user are not stored (see Findings) |

`CountExact` and `LeadIsOfOneMessage` hold as long as no request ran beside another
or beside an event of the worker (`overlapped`), the second only until a lead is edited.  When two did, two replicas count two replies as one and a
lead may have the score of one message and the status of another;
`CountBacked` and `NothingErased` hold all the same.  The model also has
the case of a denial in the middle of a request: the 429 rolls back what the request
did for messages that were already answered.

Three requests are enough for a lead to be made, read by two sessions at once and
edited in between; the campaign may appear between two messages of a request.
Deadlock is not checked: when the bounds are spent and the handlers are idle there
is nothing left to do.

## 5. Rate limiting

`SlidingWindow` is the promise: at most `Limit` passes in any `Window`, and, when
`Exact`, no denial below that.  `RateLimit` is `check_rate_limit` for one key: the
counter in Redis with its expiry, the list of stamps in each replica, and the
exception that leads from one to the other, after the pipeline was executed or
before.  The same specification is mapped three times.

| Run | Instance | Shows |
|---|---|---|
| `requests`, part `rate` | 1 replica, limit 2, window 3, 6 ticks, 7 questions, 3 failures; with or without Redis | `MemoryIsExact`, `RedisIsSafe`, `FallbackIsBounded` |
| `claim_rate_window` | the same with 8 ticks and no failure, `RateSpec` alone | the counter denies users who never exceed the rate (see Findings) |

Whether Redis is configured is chosen at the start.  `MemoryIsExact`: without it one
replica passes and denies exactly as a sliding window does.  `RedisIsSafe`: until the
first failure the counter never lets more than the limit through in any window.
`FallbackIsBounded`: with failures, Redis and n replicas let at most n + 1 limits through;
the instance reaches that bound, two from the counter and two from the memory.

The clock is discrete: the code compares differences of stamps with the window and
nothing else, so a window of two or three ticks has every order of stamps and
expiries that 60 seconds have at this number of messages.

## 6. The dashboard

`Dashboard` is the browser's side: `LoginPage.jsx`, `DashboardPage.jsx` and
`lib/api.js`, with the API as a counter of committed changes (`version`), so that a view is
shown as of some version.

| State | Code |
|---|---|
| `page`, `stored` | the page that is open, `zline.session` in `localStorage` |
| `loading`, `busy`, `feedback`, `draft`, `shown` | React state: `loading`, `actionBusy`, the banner, whether a form is filled in, the version of each view |
| `loads` | the calls of `loadDashboard` in flight, each with a request per view; 0 is the one an action waits for |
| `act`, `clicks` | `executeAction`, `startBilling` or `submitLogin` in flight, how many actions there were |
| `version`, `storedAt`, `inflight`, `valid`, `role` | the API: changes, the change an action made, posts not processed, the token, the user |

A request is `sent`, `read` by the API as of a version, `arrived`, or `stalled`.
`Begin`, `Arrive`, `ShowLoad`, `FailLoad` and `Denied` are the parts of `loadDashboard` between its
awaits: `Promise.all` shows all views when the last one has arrived, is rejected by the
first that fails, and leaves the page on "credentials".  `Click`, `ActionStored` and `ActionFails` are
`executeAction`: the post, then success and the reload, then the buttons.  `ServePost` is
the API and does not ask whether the page still waits, so a broadcast whose answer
is late is reported as timed out and is queued all the same.

Two things in the code decide what the liveness property can say.
`return parseResponse(response)` is not awaited inside the `try` of `apiRequest`, so the timer
is cleared when the headers have come: a body that never ends (`Stall`, `StallPost`) is
waited for without limit, and `ButtonsComeBack` excepts it.  And the API refuses `/api/stats` to
staff, so `Promise.all` is rejected in every load of theirs: they never see data, which is
`ServeGet`'s guard `Shows`.

| Run | Instance | Shows |
|---|---|---|
| `requests`, part `dashboard` | 2 views (one refused to staff), a form and the checkout, one load besides that of the action, one action, one change by others, one reload or stalled body; admin or staff | `SuccessIsStored`, `ChangeIsShown`, `ButtonsComeBack` |

`NewerStays`, `DraftIsKept` and `TypeOK` are proved (section 11) and not run.

One load beside that of the action already gives two in flight whose answers cross, one
change by others makes them differ.  The number of loads, actions and changes is
bounded for TLC only: the proofs of section 11 hold for any.  Fairness: the timers of
`lib/api.js` run out (`LoginFails`, `ActionFails`, `LoadFails`); nothing is assumed of the API, the network
or the user.  Deadlock is not checked, since a user who has done everything may stop.

Abstractions: the interval may fire at any time, as if automatic refresh were on;
filters and sorting are views of the same data; what
is typed while a submission is in flight is part of `draft`, so `DraftIsKept` speaks of the
submitted text (the code empties the fields, later typing included); the moment
between setting `location.href` and leaving the page is not a state.

## 7. Registration

`Signup` is `SignupPage.jsx` with the timer of `lib/api.js`, and the handlers of
`POST /api/register`, which run side by side and go on when their page has given up.

| State | Code |
|---|---|
| `tenants`, `users` | the tables; `by` is the visitor whose password a row holds |
| `signups` | the requests, each with the state of its handler: looked up, id picked, committed or failed |
| `forms` | what each page shows: waiting, the last result, the workspace it was told is ready |

| Run | Instance | Shows |
|---|---|---|
| `requests`, part `signup` | 2 visitors, 2 usernames, 2 names of workspaces with one slug, 3 requests | `AccountsAreWhole` |

Three requests are one for each visitor and one sent again after a timeout, which is
what the property needs to fail in a wrong handler.  Visitors and usernames are alike, so
the first request is taken as that of one visitor for one username.  The suffix that
`register` looks for helps names that differ and have one slug; a second workspace of
the very same name fails the unique constraint on names, with a 500 that nobody
catches (`CommitAccount`).

## 8. The Automos API

One Node process runs the HTTP routes, the jobs of a Bull queue and the calls of
`POST /pipeline/run`.  It yields at awaits only, so an action is everything from one answer to
the next question.

`AutomosRuntime` is what the others share: the profit in `risk/manager.js`, which `checkRisk`
adds to before it compares, and `executeTrade` of `execution/live.js`, whose order is placed, refused or
placed with its answer lost.  `Strategies` holds the signals as functions of a candle.

`CopyTrading`:

| State | Code |
|---|---|
| `followers`, `trades` | the tables |
| `job`, `pc`, `stalls` | a job of the queue, what it waits for, how often its process died under it |
| `left`, `turn` | the rows of the SELECT in `propagate` that are still to be copied, the follower in turn |
| `orders` | orders at the exchange |
| `chosen`, `during` | history: the followers the SELECT found, who followed while the job ran |

`TradingLoop` has, per call, the window of candles, the cell of the tuner, the candle it is
at and its position (`loop`), the signals it sent (`sent`) and the orders at or below the loss limit
since the last reset (`past`).  `Automos` puts the two into one process with `Crash`: the jobs stall
and wait again up to `MaxStalled` times (Bull), the loops are gone, the profit is 0.

`Accounts` is registration, login and the middleware on a clock; `Billing` is checkout and the
handler of Stripe's event, which makes two writes without a transaction.

What the model keeps and a reader may overlook:
- `runUser` negates the object `checkRisk` returns, so a job is never stopped by the limit
  (see Findings); it is the loops that stop, and it is the jobs' losses that stop them, since
  an order's answer carries no profit and a loop's own check adds 0.
- Every call of a loop resets the profit of the process, and with it that of the jobs
  and of the other loops: `past` counts since the last reset.
- `MAX_TRADE_USD` is compared with a quantity.
- With `LIVE_TRADING` and no client, `executeTrade` answers HOLD, and the callers write their rows
  all the same: `RowsHaveOrders` speaks of live clients.
- The queue's processor is registered twice for one queue, and Bull throws at the second
  registration.  Bull is not part of the repository; its stalls, its retries and its concurrency
  are modelled from how the code uses it, and marked external.
- A pipeline starts flat, whatever an earlier one bought.

| Part of `automos` | Instance | Shows |
|---|---|---|
| `copy` | 3 users, 1 job, 5 markets (both signals, two without, one of a refused quantity), 3 requests to follow or unfollow, 1 failure, 1 crash, in each mode | `RowsHaveOrders`, `OncePerAttempt`, `CopiesAreOfFollowers`, `JobsEnd` |
| `risk` | 2 jobs of a loss each, 2 loops, 3 windows of candles, a limit of one loss; a failure or a crash | `LoopsStopAtTheLimit`, `JobsEnd` |
| `accounts` | 1 email, 2 passwords, 3 requests, tokens of 1 tick, 3 ticks, 2 changes of the role | `AdminAccessExpires` |
| `billing` | 2 customers, 2 sessions, 2 deliveries, 2 failures | `SubscriptionIsPaid`, `PaidIsActive` |
| `claim_risk_halts` | a job and a loss | see Findings |

Why the bounds are enough: with three users a master has two followers, so one comes or
goes between the SELECT and the copy of its turn while another is copied; a crash and a
second attempt double every order a job can place; two jobs bring the profit below the limit while
two loops are at their orders, one before its reset and one after; a window of three candles buys,
sells and buys again.  Two deliveries of two sessions cross in every order, with a failure in
each.  A role is given and taken away while a token lives.  One clock tick is longer than a
login takes.

Fairness: weak fairness for the steps of each job (`AutomosFairness`), because Redis, the
database and the exchange answer and the process is restarted when it dies; for `Billing`, weak
fairness for a handler that was reached and strong fairness for delivering an event
until it is answered 200, which is what Stripe does.  Requests, payments, failures and
crashes have none, and no loop has.

## 9. Trading tools

Each of these is a module and a part of the run `trading`.

| Part | Module, code | State and steps | Instance | Shows |
|---|---|---|---|---|
| `arb` | `LatencyArb`: `arb/latency_engine.js` | quotes, positions, locks, cooldowns, sockets; a quote has six pairs checked in one turn (`CheckPair`), each may trade, `Settle` is the microtask after both legs | 3 exchanges, 2 books, 5 quotes, 1 closed socket, limit 2, cooldown 2, quotes good for 1 tick | `PositionsAreHedged`, `QuoteIsDealtOnce` |
| `tasks` | `TaskQueue`: `queue.ts` | `enqueue`, `drain`, a task resolves or throws | 4 tasks | `TasksInOrder`, `TasksRun` |
| `hedges` | `AtomicHedge`: `execution.ts` | two legs answered or rejected in any order, then the residual | one hedge of quantity 3, every partial fill | `HedgesNeverOvershoot` |
| `ticks` | `TickPipeline`: `tick_collector.js`, `tick_storage.js` | LPUSH; LRANGE, the file, LTRIM, of intervals that overlap; a death that leaves an LTRIM under way; a broken connection, after which commands without an answer are sent again | batches of 2, 5 ticks, 2 intervals that read in their order, one restart or one broken connection | `TickLossIsBounded` |
| `backtest` | `Backtest`: `backtest/engine.js`, `trading/backtest.js`, `backtest/tick_engine.ts` | a candle with any signal, stops, fees, slippage, the last sale | 4 candles of prices 0, 3, 6, 12 or NaN; with and without stops | `BooksBalance` |
| `referrals`, `market` | `Ledgers`: `core/affiliate`, `marketplace` | overlapping transactions, row locks, lost answers | 3 referrals, 2 purchases | `ReferralsArePaidOnce` |
| `routing` | `Routing`: three routers and `twapOrder` | a question per exchange, the order, books that move in between | 3 venues, 3 books, 2 moves, 3 slices | `OrdersFollowQuotes` |
| `analytics` | `Analytics`: optimisers, risk measures, weights, votes, quotes | none | every sample of up to 4 numbers from -2 to 3 | `CalculationsAgree` |

Notes on these.
- `LatencyArb`: a quote is refused when it is older than `MAX_LATENCY`, and the cooldown of a pair is
  longer; the proof that no quote is dealt twice rests on that, and the module assumes it.  A
  closed socket opens again even after `close()` of the engine; the model has that.  The
  instance lets quotes come once all three sockets are open, and closes that of one exchange.
- `AtomicHedge`: `Promise.all` throws at the first rejection while the other leg may still fill.  That
  exposure is left and nothing unwinds it: the property says that nothing was sent after,
  and that the last order never overshoots, which is all the code promises.
- `TickPipeline`: LTRIM drops the first `batchSize` elements of what the list is by then, so ticks
  that came between the read and the trim are lost in place of those that were
  stored.  Both clients are ioredis with its default options, which send a command without an
  answer again once the connection is back.  For LPUSH that repeats ticks and loses none; for an
  LTRIM that had run (`TrimUnanswered`) it drops up to a batch that nobody read or wrote, without
  any race.  The property counts those LTRIMs (`repeated`) and says that nothing else is lost.
  Other commands may go between the two runs.  An LTRIM of a process that died may still arrive
  (`left`).  That Redis keeps what it has acknowledged is assumed.  The run has a restart or a broken
  connection; both in one behaviour, and more of each, are covered by the proof only.
- `Ledgers`: the unique constraint on referrals is not in the repository's schema of that
  module; `ON CONFLICT DO NOTHING` presupposes it, and it is marked external.
- `Backtest`: the prices and rates of the instance make every division come out even, so integers
  compute what the code computes.  `endingBalance` is the last point of the curve, taken before the
  last position is sold (`EndingBalance`): never below the balance, and equal unless the last trade is
  that sale.  The engine passes over a candle whose price is 0 or NaN; TickBacktest does not ask, so its
  amounts become 0, Infinity or NaN (`Times`, `Over`), and a sale at 0 leaves it with nothing.
  The two are therefore compared only while every candle has a price (`AllPriced`).
- `Routing`: the Automos router takes the lowest price for sales too; `OrdersFollowQuotes` states that as
  it is.  A TWAP order whose later slice fails throws, and its caller does not learn of the slices that
  were placed.
- `Analytics`: the grid over the EMA shows the strategy 60 prices, so its cells above 50 never
  trade.  `latencyArb` answers NONE when a quote is older than `STALE_MS`, while `checkArb` of the
  Automos engine never drops an old price; they find the same side only of fresh quotes.
  The run compares them over buffers, fees, funding and the ages 29 to 31.

Fairness: weak fairness for the end of the task that runs (`TaskFairness`), because its promise
settles; for the ring see section 3.

## 10. Findings

Each is a run that TLC refutes; `PROJECT.json` quotes the lines.

| Run | Code | What happens |
|---|---|---|
| `claim_untargeted` | `worker.py:356` | a broadcast without a target selects leads of the status "None": it reaches nobody and is settled as sent |
| `claim_dead_letter` | `worker.py:138` | the commit of one record passes another whose processing and dead letter failed |
| `claim_first_contact` | `main.py:876` | two messages of a new user in one request: 500, nothing stored |
| `claim_rate_window` | `main.py:523` | users below the limit are denied until a minute of silence |
| `claim_risk_halts` | `userEngine.js:39` | a job trades although the loss limit is reached |

What the models show besides, and no document contradicts: a record is lost when a worker
dies after BRPOP; a broadcast whose answer was late is queued, and is a second campaign when it
is sent again; an edit that overlaps a webhook may find its price replaced by the default 299;
what is typed while a form is in flight is emptied with it.

## 11. Proofs

TLAPS proves the following for every value of the constants that satisfies the
`ASSUME` of the module.

`BroadcastProofs`
- `TypeCorrect`, by one lemma per action.
- `ImplementsLedger`: every step opens a campaign, settles a delivery or leaves the
  ledger as it was (`LedgerStep`).
- `SentCountIsBacked`: a transaction counts what its loop has delivered, and rows
  and counts change together.
- `EventsOfCommitted`, from `EventsInv`: the list, the topic, a handler past its
  commit and a record in a worker all name campaigns that are committed.
- `CommitsForward`, from `OwnerAhead`: the assignee's position is never behind the
  group's.  Only the assignee commits, so no commit goes back.
- `DeliveriesAreTargeted`, from `TargetsInv`: what is left to push to in a handler or
  a worker is a subset of the leads its filter selected.
- `DuplicatesBounded`, for any workers, batches and faults.  A message for a lead may still come from a handler that
  pushes, from the list, from the part of the topic the group will hand out again (`Due`), from the rest of a batch
  and from a transaction; `CopiesInv` says that these, with the messages the lead got, are no more than the copies
  that were made of the event and one for each crash, eviction and lost dead letter.  Each step moves one of the
  places to another or removes it; only the three faults add one.  It rests on `QueueInv`: an event is in a queue
  once at most (`RedisOnce`, `LogOnce`), a worker out of its batch has worked it off (`BatchInv`).
- `LossBounded`, from `LossInv`: an accepted campaign is safe when it is handled, in the list, the record of a worker
  or in the topic past `Point`, where the partition's owner, or else the next one, goes on.  Those that are not
  (`Loose`) are no more than `MostLost`, and `Lost` is among them.  `Point` moves past a record without taking it only
  when its owner crashes or is evicted (`PointStep`); how much it moves past is bounded by `RestInv`: a worker in a
  batch has taken one record of it, and two when it holds one after a commit.  `AcceptedIsKept` is the case without
  faults.
- `CommittedOnceHandled`: what the documents say of dead letters (`CommittedIsHandled`) holds until a worker crashes or
  is evicted or a dead letter is lost (`Faultless`).  `KeptInv`: until then a worker in a batch owns the partition, and
  a record the group has gone past is handled or with a worker (`ReachedIsKept`).  The run
  `claim_dead_letter` shows that it stops holding; together they say which faults it takes.

`MpscRingProofs`, for a capacity above one
- `InvariantHolds`: `IInv`, the conjunction of `TypeOK`, `CountersInv`, `CellsInv` (each
  cell's `seq` is that of a free, reserved or published position of this lap),
  `WritersInv` (a reserved position belongs to one producer, who is writing it),
  `TriersInv` and `ReaderInv`.  None of the properties is inductive alone: that a
  push may write rests on nobody else holding the position, which rests on the
  numbering of the cells.
- `DataRaceFree`, `NothingOverwritten`, `RefusalsAreRight`, from `IInv`.
- `ImplementsTickets`: `Reserve` takes a ticket, `Publish` publishes it, `Free` pops,
  every other step stutters.

`WebhookProofs`
- `TypeCorrect`.
- `RepliesAreCounted`, from `CountInv`: what a session read of a counter was backed
  when it was read, and `counted` only grows.
- `LeadsAreKept`, from `RowsInv`: rows, sessions and edits hold leads; a changed row
  keeps the phone and the price of the row it was loaded as.  Together with the
  column-wise UPDATE this makes stale copies harmless.
- `NoReplyIsMissed`, from `AloneInv`: until requests overlap, one replica is busy at most, the table has what
  was counted, and a session counts on top of what the table has.
- `LeadsAreOfOneMessage`, from `MessageInv`: until requests overlap or somebody edits, the rows of the
  table and of a session are each of one message, and the session loaded what the table still has.

`DashboardProofs`
- `TypeCorrect`, `SuccessIsCommitted`, `OwnChangeIsShown`, `OlderOnlyIfOvertaken`, `FormIsKept`, for any number
  of views, loads, actions and changes.  The invariant `IInv` adds to the types: `ActInv`
  (the action in flight was started, and once answered has a version unless it is the
  checkout), `InflightInv` (a post that may still be processed has no version yet, and
  there is one per action), `VersionsInv` (nothing is newer than the API), `BannerInv` (a
  success has a version, and the load of an action reads views that have it) and
  `OvertakenInv` (a load that was not overtaken is as new as the page).  The last one is
  what makes `NewerStays` provable: a load that begins after a showing reads versions
  not older than what was shown.

`AutomosProofs`
- `JobsTradeOncePerAttempt` and `CopiesGoToFollowers`, from `IInv`: `TypeOK` and, for each job, `JobInv`, which
  says for every wait of a job what it has ordered and stored so far in terms of its crashes: the owner
  and the followers already copied have one more than the crashes allow before, the one in turn has
  its order and not its row, the rest have none of this attempt.
- `RowsAreOrdered`, from `RInv`: the row a job is about to write has its order, and the orders without a row are
  no more than the attempts that died, plus the one whose row is on its way or failed.  `Unrecorded` is
  a set of numbered orders, so that an order adds one element (`OneOrderMore`) and a row takes one (`OneRowMore`).
- `LoopsAreStopped`, from `LInv`: the signals of a loop alternate because its position says which one was
  last, and a loop that goes on found the profit above the limit.
- `RolesExpire`, from `AccountsInv`: a login on its way saw the clock move once at most (`LoginsInv`), hence a token
  of an administrator expires within `ExpiresIn` and that one tick of a moment its account was one (`TokensInv`).
- `SubscriptionsArePaid`, from `BillingInv`: what a delivery is about is a paid session, and the plan precedes the
  row (`DeliveriesInv`), so that a failure between the two leaves nothing unpaid.

`TradingProofs`
- `ArbIsHedged` and `QuotesAreDealtOnce`, from `IInv`: the positions add up to nothing, quotes are of the past
  (`QuotesAreOfThePast`), and a pair that is not locked traded on quotes no newer than its last
  trade (`DealsAreDated`).  `QuotesAreNew` then uses that the cooldown is longer than a quote is good for.
- `TasksStayInOrder`: with the types the property is inductive; `DrainKeepsOrder` is the lemma on `drain`.
- `HedgesAreBounded`, for any number of calls and any quantity: `CallInv` says per wait which legs have
  filled and that nothing was sent beyond them; `ResidualClosesTheGap` is the arithmetic.
- `OrdersAreOfQuotes`, from `RoutingInv`: the price chosen is the first of the best of those read so far (`ChosenInv`),
  a router that sent its order reads no more (`SentInv`), and a slice in turn is of the last price read (`SliceInv`).
- `TickLossStaysBounded`, for any batches, ticks, intervals, restarts and broken connections, from `TicksInv`: what a
  busy interval would trim is in its batch or its file or has raced, unless its LTRIM ran before (`BatchInv`); while two
  are busy, all the list holds has raced (`OverlapInv`), so that the trim of one leaves the other nothing it has
  not read.  A trim that runs again takes a batch at most (`TrimTakesFirst`, `FirstAreFew`), by which the bound
  grows too (`TrimLosesFew`); no other step loses any (`NoMoreLost`).
- `BooksStayBalanced`, `BacktestSpec /\ []AmountsAreEven => []BooksBalance`, for any prices, signals, stops and number
  of candles.  `BooksInv` says of the account that its books are `Balanced` and that purchases and sales are
  `TakingTurns`, with the position at the price of the last trade; that is what makes a sale above the price of its
  purchase a profit, on which the two statistics agree.  `CurveInv`: the last point of the curve is the worth of the
  account, which the last sale only lowers (`SaleCosts`).  `PricedInv`: while every candle had a price, TickBacktest has
  natural amounts (`TickCounts`) and without stops `Beats` the engine: both hold a position or neither, and
  TickBacktest the larger position or balance (`BuyingBeats`, `SellingBeats`).  `Net` adds up the trades;
  that one trade more adds one term (`NetOfAppend`) holds because the invariant keeps the sums of
  all beginnings (`IsSum`), which are determined by the least place where two of them would differ (`NetIsSum`).
  `AmountsAreEven` is about the model only: what the code divides it does not round, so the model computes what
  the code does while no division leaves a remainder.  `MCTrading` asserts it in every state of the run.

`AnalyticsProofs`
- `CalculationsAreRight`, for samples of integers of any length.  That the two arbitrage engines agree on fresh quotes is
  `SidesAgree`, for any fee, buffer, funding and age.  A sum, a drawdown and a best cell are recursive
  functions over the places of a sequence.  The library's induction theorems take an operator as a parameter, which
  the provers cannot instantiate; `UpTo` states induction up to a number for a SET of numbers instead, from the
  well-foundedness of the order on the naturals.  With it a recursion has its function (`Recursion`), which is the one the
  definition chooses (`OneSolution`, `TotalIsTotal`, `BestIsBest`, `DrawdownIsDrawdown`), and each result its invariant over
  the beginnings of the sequence: `DrawdownIsDeepest` keeps a peak no earlier point exceeds and a fall no earlier
  fall is deeper than (`HigherIsDeeper`, and `NoDeeper`, that comparing fractions is transitive); `BestIsFirst` keeps
  the first of the best.  The value at risk rests on `SortExists`, and on counting the places before and up to its own
  (`VaRBounds`): the order of the sort goes one to one onto them.

`RequestProofs`
- `ReferralsPayOnce`, from `LedgerInv`: a referral on its way has no row yet and no other call is on the way with
  the same pair (`PendingInv`), which is what the unique constraint and the lock on it give.  The credits are
  ten for each row, so the commit of a new row adds one element to a finite set (`FS_AddElement`).
- `AccountsStayWhole`, from `SignupInv`: rows are unique and tenants are those of users (`RowsAreWhole`), a request
  answered "ok" has its user (`AnswersInv`), and a page waits for a request of its own (`FormsInv`).  That the
  lookups are stale when the rows go in is harmless because the commit checks the constraints again.

- `RedisStaysSafe`, `MemoryStaysExact` and `FallbackStaysBounded`, each a refinement of `SlidingWindow`, from
  `RateInv`: the messages of the window that no replica has in its bucket are those Redis let through, they are no
  more than its counter and the limit, and the counter outlives them all (`CounterInv`); no bucket has more than the
  limit of them (`BucketInv`); without Redis there are none of the first kind, and until it fails none of the second
  (`SourceInv`).  The last theorem adds the sets up (`SetsOfAtMost`: so many sets of at most so many elements).

What is assumed: `ASSUME`s on constants that the code justifies (bounds are numbers, the
cooldown is longer than the age of a quote, a ring has more than one cell, a call is a referral or
a purchase, the numbers of a sample are integers, prices of candles are natural numbers or `NotANumber`, and `Infinity` and
`NotANumber` are no numbers, the fee and the slippage of a backtest are below one), and `AmountsAreEven` for
`BooksStayBalanced`; nothing else.

Only model-checked:
- Liveness under fairness, which is beyond the prover: `AcceptedIsHandled`, `EverythingArrives`,
  `ButtonsComeBack`, `JobsEnd`, `PaidIsActive`, `TasksRun`.

## 12. Not modelled

- Reads without effect and single inserts: lead lists, templates, statistics, CSV, history of
  campaigns; in Automos the price cache, KYC and the leaderboard; the routes of the zBAutomos copy
  trading API, whose propagation is the loop `CopyTrading` models.
- Code nothing calls: `trading/engine.js`, `workers/cluster.js`, `profitGuard.js` of Automos, `risk.ts` of the zBAutomos worker.
- Training and scores in floating point, the Sharpe ratio, the covariance and its inverse, calls of
  language models.
- The FIX gateway, whose body length and checksum are matters of bytes.
- The control panel, which runs shell scripts; demo servers and landing pages.
- Installers, Kubernetes, Terraform, nginx: they act on hosts.  Replica counts and
  the restart policy are taken from them as facts.
- Contents of messages, signatures, passwords and tokens.
- The CRM's `add_team_member`, tenant settings and its Stripe webhook: one write each.

## 13. What is left

In the order it is worth doing.

1. An abstract specification of copy trading, a trade with the set of its copies, which `CopyTrading` would
   implement up to the repetitions after a crash.
2. The CRM's team members and Stripe webhook beside `Signup`, for the owner of a workspace and its plan.
