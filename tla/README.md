# onlineOrderGo in TLA+

This directory is the verification project of the Go backend under
`src/internal/` (wired together in `src/cmd/api/main.go`). It models what is
hard to test there: transactions that race on one row, idempotency records that
expire under their holders, background runs that overlap, confirms and deliveries
that come late, twice or never, processes that die between two steps. TLC checks the models on small instances; TLAPS proves the
main theorems for any number of orders, requests and calls.

## The system

| Component | State it keeps | Operations | Interacts through |
|---|---|---|---|
| `order` | `orders` rows (status, version), `order_table_index`, `order_outbox` | CreateOrder, CancelOrder, TransitStatus | SQL transactions, idempotency store, cart reader |
| `payment_callback` | `orders.status` / `pay_status`, `payment_record`, `payment_outbox`, callback log | HandleCallback | the same `orders` rows, idempotency store; providers retry until they are acknowledged |
| order sharding | one table per month, `order_table_index`, the id sequence of each table | EnsureTable, SaveOrder, GetByID, UpdateWithVersion | the order service reads and writes through it; reports read the same tables |
| idempotency stores | one record per scene and key in Redis (memory, or SQL for the cart, without a Redis client) | Acquire, MarkDone, MarkFailed, GetDoneResult | every write of order, cart, product, payment callbacks and consumed events |
| `compensation` | `compensation_task`, its dead-letter and run tables, Redis locks | RunOnce, ReplayFailed | cron runner, replay endpoint; the executor calls the order service and the event outbox; `cmd/api` starts none of it |
| `order_event` | `order_event_outbox`, RabbitMQ queues | Publish, FlushOutbox / Relay.Flush, consume with retries and a dead-letter queue | SQL, RabbitMQ, idempotency store; `transport/worker` starts it, `cmd/api` does not |
| `cart` | `cart` rows (quantity, version) | AddItem, SubItem, UpdateQuantity, Clear | SQL, idempotency store, product snapshot |
| `websocket_push` | session registry and gateway clients of each node, dedupe store shared through Redis | Connect, Disconnect, Heartbeat, Push, Broadcast, DeliverLocal | goroutines per client, RabbitMQ between nodes |
| `product` | catalogue tables, Redis read cache, invalidation outbox | category/dish/setmeal writes, cached reads | SQL, Redis |
| `identity` | token versions and revoked tokens in Redis | Login, VerifyToken, Logout | Redis |
| `report` | a cache in Redis | QueryOverview, QueryTrend, QueryOrderList | reads the month tables one after the other |
| `baseline` | an idempotency store of its own | health checks, ExecuteIdempotent | none of the others calls it |

What is hard: several requests and callbacks on one `orders` row, of which only
the order service uses the version; a guard in Redis around a transaction in
MySQL, with two stores that fail apart; replies that are lost after they took
effect; TTLs that run out under a slow holder; overlapping background runs;
duplicate and late messages, and confirms nothing ties to their publish; ids that
repeat from table to table. `PROJECT.json` lists the hazards of the code that the
application runs, each at its line, with the properties that cover it, or the reason why
none does.

What makes each component correct:

- order: one event per committed change and no other; the events of an order
  are a path of its status machine; nothing leaves COMPLETED or CANCELED;
- payment: an order is paid exactly when one payment of it is recorded;
- idempotency: one reported execution per key and life of its record, truthful
  replays, no interference between successive holders, no key blocked for ever;
- sharding: an id leads to the order it was given to, and a change reaches the order
  that was read;
- compensation: one executor per task at a time, bounded attempts, a table that
  tells the truth, nothing stuck without a fault;
- order events: at-least-once delivery, a retry limit that ends in the
  dead-letter queue, nothing marked published that the broker does not hold;
- cart: no lost update, no negative quantity, retries that make sense;
- websocket: one session per user and client type, no close that waits for
  itself, a message shown once for each record of its id, queues that drain;
- product: a cached list that differs from the tables has an invalidation on its
  way, unless a fault took it or the read was overtaken; no dish or setmeal is left in a deleted category,
  unless it came after the check;
- identity: a request passes only with a token that was neither outdated nor logged
  out, and a logout that returned has ended the tokens of its version;
- report: every order of the range once, in a version not older than the request,
  for a client whose clock is the server's, and a known remainder for any other.

## Modules

**OrderStatus** has the status machine as relations: `allowedTransitions`,
`CanCancel`, `CanTransit` and the type of the outbox events.

**OrderMachine** is the abstract order service: `status` and `log`, one atomic
move with one truthful event at a time.

**OrderLifecycle** is the detailed one, for the order service and the payment
callbacks over the same rows. A request goes `idle -> loaded -> locked -> done`
or `failed`. `Load` is `GetByID` / `GetOrderByNo` with the checks of CancelOrder,
TransitStatus and HandleCallback on what was read (the transaction's snapshot,
`snap`). `UpdateWithVersion` and `UpdateOrderPaidIfPending` evaluate their WHERE
on the last committed row and take its lock, as InnoDB does; what they will
commit is `new`. `Commit` publishes the row, the outbox row and the payment
record together, and `Abort` drops all of them (an error of a later statement, a
cancelled request, a crash). A CreateOrder transaction is one INSERT that keeps
its row locked. `paid` is `pay_status`; items, amounts and times are left out,
the callback's amount and merchant check is the Boolean `matches`.

**OrderShards** is the same order repository with one table per month, which is the
default of `cmd/api`. An order is a table, an id there, its number, its `order_time`
and its version. Time is a number of instants, and `MonthAt` says in which month an
instant is on the clock of a UTC offset: `WriteTable` asks the server's clock (`Here`),
`ResolveTables` those that the client of a report wrote into `from` and `to`, while
`RowsIn` compares instants. A request goes `idle -> stamped -> done`: `Stamp` is the
part of CreateOrder that takes the time, and with it the table, before `SaveOrder`
inserts the row and upserts its entry of `order_table_index` (`Upserted` is ON
DUPLICATE KEY UPDATE with its two unique keys); or `idle -> loaded -> done`: `GetByID`
looks the id up in the index and fixes the snapshot, `UpdateWithVersion` runs on the
row that is there by then. `Tick`, `EnableSharding` and `EnsureTable` are the
clock, a deployment and whoever makes the tables; the application itself never calls
`PrepareWriteShard`. A report (`ReportMisses`, `QueryTable` per table, `ReportEnds`)
reads the tables of its range, oldest first, in no common snapshot, or `orders` alone
where REPORT_SHARDING_ENABLED is off (`scanning`, which is independent of `sharding`),
and may put the result in the cache under the instants of its range (`CacheKey`), from
where `ReportExpires` takes it. `before` records history, in the cache too.

**OncePerWindow** is what an idempotency key promises its caller. **IdempotencyGuard**
is `withIdempotency` and baseline's `ExecuteIdempotent` over the Redis store: `record`
is the Redis value, a token is represented by the call that drew it, `Step` is one
call's way through the function. `variant` is the guard of the key: `replay` answers a
duplicate with the stored result or refuses it (order, cart, product), `ack`
acknowledges it (payment callbacks, consumed events), `takeover` keeps the record of a
failed call for the next one to take over in a second round trip (baseline). `Expire`
may happen at any time a record exists, `Crash` between any two steps, every Redis
round trip may fail before or after it took effect, and a commit may take effect but
report an error (`doubtful`; in baseline also when the result cannot be encoded).
`window` counts the lives of the record; it and `committed`, `doubtful`, `answer`
record history and guide no step.

**CompensationTasks** is RunOnce and ReplayFailed over the task table: the lock,
the scan (any `BatchSize` of the candidates), one claim UPDATE per row, the
execution, and the marks with their conditions; MarkFailed is its SELECT, its
UPDATE and the dead-letter INSERT. A fault (at most `MaxFaults`) is a crash of a
run, or an error of a statement that did or did not take effect; the errors the
code drops are dropped. Locks expire at any time. `attempts` and `effects`
count executions and guide no step. `Executor` is the dispatch by job type, of which
only what it reports matters here: it took effect, or failed. An effect whose answer was
an error (a COMMIT that was not heard of) counts as a failure, so that `AttemptsBounded`
and `FinishedIsTrue` speak of reported executions, as the promise of the idempotency guard does. What
the executor does to orders, the run log and the month tables are left out.

**PushSessions** is one node's registry and gateway. A thread is the request that
connects a session, a pump of its client, or a POST /ws/disconnect; `place` is its
position and `target` the session it disconnects. A Connect goes
`find -> supersede -> open -> done`, with one Disconnect (`get -> close -> remove`)
for each older session, and then attaches a client with its two pumps, fails the
upgrade, or (POST /ws/connect) stops there. `EnterOnce` is `client.close()`: the
first thread in runs the callback, which is Disconnect again (`inCallback`), and
the others wait for it. A pump whose client went away by itself takes the client
out of the map inside that callback and calls `close()` a second time: no step is
enabled for it any more (`Hung`). Each registry call is one step, as its mutex
makes it. `raced` and `orphans` record history and guide no step. Tokens, channels,
heartbeats and the pushes themselves are left out.

**CartItem** is one line of one user's cart. A request goes `idle -> trying -> written
-> done`, or ends `refused`, `conflict` or `failed`. `GetByKey` fixes the snapshot of
its transaction; `Insert`, `UpdateQuantity`, `DeleteByID` and `ClearByUser` are one
statement each, evaluated on the committed `line`, with the pass of the Go loop
around it: it either has a row to commit (`new`) or goes through `Retry`, which
reads the snapshot again. A statement that met the row holds its lock (`holder`)
until `Commit` or `Rollback`. `nextId` is AUTO_INCREMENT, which a duplicate INSERT
uses up too. Names, prices and the idempotency guard around it are left out; the
product lookup is the Boolean `ok`.

**ProductCatalog** is the catalogue with its lists in Redis. A writer goes `idle ->
begun -> listing -> draining -> deleting -> done`, or ends `refused` or `stopped`.
`Begin` is the first read of its transaction, with the checks that a category or dish
is not in use, and `Commit` one of the twelve changes of the rows; then it runs the
tasks of the outbox that are due (`ListDue`, `RunTask`) and its own
(`RunOwn`), prefix by prefix (`DeleteByPrefix`). Redis may fail in each step: the task
goes to the outbox, which is in the same Redis (`DeleteFails`), or is lost
(`EnqueueFails`, `LoseTask`), as it is with the process (`Stop`). A reader goes `idle ->
waiting -> again -> rows -> parts -> set -> done`: two GETs with the mutex of the list
between them, one query for the rows and one for what hangs on them, and the SET. A row is known by the request
that wrote it last, a list by its kind and category; names, prices, statuses,
clients and the idempotency guard are left out. `home = All` is CategoryID 0, which
UpdateDish and UpdateSetmeal accept; nobody asks for the list of that category. `Warm` are the lists that are in Redis
at first. `before`, `lost` and `raced` record history and guide no step.

**EventOutbox** is `order_event` from the outbox row to the handler. A relay (`pc`) is
one flusher: it fetches what is pending without claiming it, and for each row goes
`send -> wait -> published` or `failed`, with `Attempts` tries. Relays of one process
share a producer, whose channel is `wire` (publishes the broker has not read) and
`confirms` (answers nobody has read): `ReadConfirm` takes the next answer whichever
publish it belongs to. `Route` is the broker, whose queues are bound from the start:
a message that finds none, which it would return and confirm, does not occur. A consumer acks a duplicate (`Skip`),
handles a delivery (`Handle`), or after `HandleFails` republishes a copy with a higher
retry count (`Republish`) or rejects it into the dead-letter queue (`Reject`), and acks.
A fault (at most `MaxFaults`) is a timeout, a refusal of the broker, a lost mark or
connection, a restart, or an expired record. `misled` and `refused` name the two ways
in which an event gets lost; with `effects`, `failures` and `forgotten` they record
history and guide no step.

**LoginSessions** is identity. A call is a login (`ensure -> issue -> in`), or a request
that carries the token of one through RequireAuth (`flag -> version -> account ->
accepted`) and, for a logout, on through `again -> mark -> raise -> out`. Every command
of Redis is a step that may fail before or after its effect; a logout that set the flag
and stopped there is `halfway`. Tokens expire, flags outlive them, accounts are switched
off. `began` and `late` record history and guide no step.

**PushBroadcast** is pushes between nodes. A request records its message id in the
store of its node (`Ask`), shows the message to the sessions there (`Send`), and
publishes to the fanout exchange (`Publish`, `EndPublish`). A consumer takes a delivery
through DeliverLocal (`Receive`, which asks the same store again, and `Show`), retries
it to its own queue or buries it (`PublishAgain`), and acks. `unread` counts the
confirms on the node's one channel that nobody reads; from the second on the client
library blocks (`Stuck`). A fault is an error of the store, a refused publish, a
timeout, an expired record, a lost connection or a restart. `shown` (per store), `lost` and
`wasted` record history and guide no step. Who has a session where is left out: to show
is the loop over the sessions of a node, however many. `MCPush` checks both sides of the
push service in one run, one at a time, as they share no variable and no property.

The `MC*` modules hold constants and symmetry sets for TLC. The `*Proofs` modules
hold theorems and proofs.

## Runs

`CHECK_DEADLOCK FALSE` is set for every run but `compensation_tasks`: requests, calls
and events are served once there, or faults run out, and the behaviour ends when all
are. CompensationTasks runs for ever, and deadlock is checked.

| Run | Instance | Shows |
|---|---|---|
| `order_payments` | 2 orders, 4 requests, 2 transactions that pay the first | the outbox, payment and status properties with callbacks among the requests; the order nobody pays implements OrderMachine |
| `order_race` | 1 order, 3 requests, 1 transaction | **violated**: of a racing cancel and payment both succeed |
| `order_shards` | `orders` and 2 months, ids 1 and 2, 2 numbers, 3 requests, 1 client of reports, 3 instants, 3 UTC offsets, 4 ranges | ids lead to an order of their number, are redirected only by a twin, changes reach what was read; reports have every order of their range once, but for a named remainder |
| `idempotency_guard` | 3 calls, each of the three guards | one reported execution per window, truthful replies, undisturbed holders; the key of a dead process is freed |
| `idempotency_ack` | 2 calls, ack | **violated**: an acknowledged duplicate is lost with the first delivery |
| `compensation_tasks` | 2 tasks, 1 node and the replay, 1 retry, 1 fault | exclusive execution, bounded attempts, truthful table; every task is done, dead or stranded by a fault |
| `event_outbox` | 2 events, 1 relay, 1 consumer, 1 retry, 2 attempts, 2 faults | published rows are accounted for, dead letters earned, events handled once; every event settles, is lost in a named way, or meets a dead connection |
| `push` | either 2 sessions of one user and 1 disconnect request, or 2 nodes with one Redis and a queue each, 1 message id, 2 requests, 1 retry, 2 faults | one session unless Connects overlapped, reachable clients, only pumps hang, a Disconnect is final, every request returns; one showing per record of the id; queues drain unless their consumers are cut off or stuck |
| `cart_items` | 1 line, 4 requests, counts of 1 | versions that identify, positive quantities, only a removal loses an update, every request ends |
| `cart_concurrent` | 1 line, 2 requests | **violated**: one of two concurrent adds is refused |
| `product_catalog` | 2 writers, 1 reader, an empty category and one to be created, 2 dishes and 2 setmeals of which one each is there without a category, one list warm | lists that are stale for a reason, nothing in use deleted unless it came after the check |
| `login_sessions` | 4 calls, 2 accounts, with and without IDENTITY_REVOKE_ALL_ON_LOGOUT | requests pass with live tokens only; a logout that returned ended its version unless one beside it failed half way |

Why the bounds are enough. Every conflict on a row is between what one request
read and what another committed in between: four requests allow create, two
conflicting changes and one that meets their result, two orders show that
nothing leaks between rows, two transactions of one order give a duplicate and a
competing payment. Two month tables and `orders` make the same id up to three times;
three requests are an order, its twin of another month and a change that reached for
either; a report over both months can be overtaken between them. `FewBesideReports`
bounds what is beside a report: two requests, an order and its change or two orders, and
no second report, as nothing a report does is seen by another but its entry of the cache,
of which `ReportTells` speaks by itself. Of three instants the
server's second month has the last, that of a client to the east the last two, and that
of one to the west none; the four ranges are those of the server, of either, and of a
client that summer time moves east in between, and three of them share one entry of the
cache. Three calls of one key
are a slow holder, the one that replaces it after the expiry (or takes its failed record
over) and a duplicate. A node and the replay endpoint
overlap on two tasks: a claim that loses a race, a batch of which one task is
taken, an expired lock under its holder; one retry reaches FAILED, the retry and
DEAD; one fault strands a task. Two events on one channel are a publish that times out
and the one that takes its confirm, and the second fault is the refusal this hides; one
retry separates the republished copy from the dead letter; one consumer that
restarts or forgets meets its own redeliveries. A second relay multiplies the states
beyond reach: with one event and `Relays = {r1, r2}` on one producer the four properties
hold too (104,160 states, among them steps in which one relay reverts to FAILED what the
other has marked PUBLISHED), and all but `Delivered` are proved for any relays. With a
producer each there is no end to the states: a relay that lost its connection may revert
a row again and again, and the copies of the other pile up. Two sessions of one user overlap in
their Connects or supersede each other, and with its two pumps and the disconnect request
a client is closed by four threads at once. Two nodes and two requests with one message
id meet as two senders, sender and copy, or copy and retry; two unread confirms block a
node. Four requests on a cart line are one with an old
snapshot, a removal, the INSERT of a new line and one more change. Two writers of
the catalogue are a check and the write that overtakes it, or a failed invalidation
and the writer that finds it in the outbox; one reader is overtaken by both. The empty
category lets DeleteCategory pass its check while a dish or a setmeal is created in it.
Four calls of identity are a login, two logouts of its token and a request that comes late.
Requests, calls, orders and accounts that are interchangeable are symmetric in the runs
without liveness. What these instances leave out for the modules with proofs (two nodes
that hold one lock in turn, a third session, several
users, more months, larger counts) is covered by the proofs, which are for all constants.

Fairness. `FairSpec` of IdempotencyGuard: a call that started goes on unless its
process dies, and Redis expires the record; nothing obliges anyone to call. Of
CompensationTasks: a run that started goes on (a crash ends it), the cron runner
starts the runs of its job again and again, locks and backoffs run out; nothing
obliges anyone to call the replay endpoint. Of EventOutbox: the ticker of
`worker/bootstrap.go` flushes again and again, the broker routes, a consumer goes on
with its delivery, backoffs elapse; strong fairness for taking one of the messages that
wait, as the queue is first in, first out and the model keeps no order in it. Nothing
restarts a process or dials again. Of PushSessions: goroutines are
scheduled, so a request or a pump that can go on does; once a client is being
closed its connection and its `done` channel are closed too, which ends both pumps.
Nothing obliges anyone to connect, or a client to go away. Of PushBroadcast: requests
and consumers go on; a consumer that is not stuck is given a delivery again and again
while one waits (strong fairness, as the requests of the node stop and free it in
between). Of CartItem: a request
that waits for no lock of another goes on; nothing obliges anyone to send one, or a
transaction to fail. OrderLifecycle, OrderShards, LoginSessions and ProductCatalog are
checked for safety only: each of their requests runs straight to its end.

The three violated runs are findings about the code, quoted in `PROJECT.json`:

- `UpdateOrderPaidIfPending` neither tests nor raises the version. A cancel that
  read the pending order before the callback commits still passes its own version
  check, and both succeed: the order is CANCELED with `pay_status` set and a payment
  recorded, and its event says it left PENDING_PAYMENT. A test of the service says
  one of the two must conflict (its fake repository raises the version).
- `withIdempotency` of the payment callbacks acknowledges a duplicate as soon as a
  record exists, also a PROCESSING one. Callbacks are concurrent HTTP requests over
  one Redis store: when the first delivery then fails and releases the key, the
  provider has already been told 200 and need not deliver again.
  `withConsumeIdempotency` has the same code and calls it safe in its comment. The
  in-memory store it comes with serves one sequential consumer per process, so
  there the loss needs consumers that share a store behind `ConsumeIdempotencyStore`.

- The loops of the cart that retry a failed compare-and-set read the line again inside
  the transaction that has read it already, and in REPEATABLE READ get the same row: the
  three attempts are one (`RetriesNeverHelp` proves it), and the second of two concurrent
  adds is refused (`ConcurrentChangesSucceed`). Two tests of the service fail when one of
  their concurrent adds or subs is refused (their transactions are a no-op).

Other behaviours the models show. A property names each as the exception or the fact
it is, unless said otherwise:

- Cart. A SubItem that takes the last piece it saw removes the line
  with whatever was added since (`LostOnlyByRemoval`).
- Sessions. A pump that closes a client by itself hangs in `close()`, and its session
  is never removed from the registry. The next Connect of the user removes one it finds,
  but Connects that overlap do not see each other, so two sessions may stay
  (`OneSessionUnlessRaced`). A test of the service expects one at most after concurrent
  Connects.
- Broadcasts. The sender records the message id in the store that every node asks again
  in DeliverLocal. Where the nodes share Redis, no other node shows the broadcast unless
  the record expires first (`ShownOncePerRecord`). A Push without a target is refused
  after its id was recorded, and a repetition with a target is a duplicate (`wasted`).
  Nobody reads the confirms of retries and dead letters, and at the second the node
  receives nothing any more (`Drained`). The default of `WS_MQ_NODE_QUEUE` is one name
  for all nodes, which then share one queue; the model's `QueueOf` allows it.
- Sharding. Every table counts its ids from 1, and an order is found by its id alone:
  an order of a second month redirects the id of the first (`RedirectedByTwin`). Payment
  callbacks look for an order in `orders` only, so that they find none that is in a
  month table; and nothing in the application makes those tables, though sharding is on
  by default. These last two are read off the code and need no run.
- Reports. They are not a snapshot: their rows are as old as the request or newer, each
  by itself (`ReportTells`). An order is in the table of the server's month
  (`create_order.go:44`, `router/month_shard_router.go:32` of the order service), while a
  report takes the months of the UTC offsets that its client wrote (`report_handler.go:130`,
  `router/month_shard_router.go:43-44` of the reports) and compares `order_time` as an
  instant. With a server on UTC, an order of 2026-04-01T01:00+08:00 is in `orders_202603`
  and a report from 2026-04-01T00:00+08:00 reads `orders_202604` only. Where `to` is
  written east of `from`, as it is over the start of summer time, the loop of line 47
  compares midnights of two offsets and leaves the whole month of `to` out. The cache key
  has the instants only, so that one client gets what another's months gave. Reports read
  either the month tables or `orders`, never both, whatever was written when.
  `MayOverlook` names exactly these orders; no doc or test speaks of time zones (the tests
  use one), so that no run is expected to fail. Distinct users are counted per month and added up, and the
  queries name columns (`pay_status`, `store_id`) that the tables of `order_schema.sql`
  do not have; both are outside the model.
- Events. A publish that timed out leaves its confirm behind, and the next one takes it:
  a row can be PUBLISHED that the broker refused; and a copy to be retried goes out on
  a channel without confirms before the delivery is acked (`NothingUnaccounted`). A
  producer or a consumer that lost its connection stays so until its process restarts
  (`Delivered`).
- Logout. When the version could not be raised, the flag that was set before makes
  every later logout of the token fail in RequireAuth: the other tokens of the account
  stay valid (`LogoutEndsAll`).
- Baseline. A result that cannot be encoded marks FAILED what was committed, and the
  next call executes it again (`doubtful`; `KeepsPromise` speaks of reported executions).
- Compensation. A run that scanned a task before another run failed it claims it without
  waiting for its backoff, because the claim does not test `next_execute_at`. On the 31st
  the scan of month tables skips a month, as AddDate normalises (outside the model).
- Catalogue. A reader that read before a commit puts the old list back after the
  invalidation; what the outbox holds waits for the next write of the catalogue, as
  nothing else runs it (`StaleIsExplained`; the TTL ends both). A product created in a
  category while that is deleted is never checked (`OrphansCameLate`). `expectedVersion`
  of the writes is ignored (outside the model).

## Proofs

**OrderLifecycleProofs** holds for any `Orders`, `Requests`, `Txns` and `OrderOf`.
None of the properties is inductive: they speak of committed rows, while a step
commits what a request decided earlier from a snapshot. `IInv` therefore says what a
request in flight knows: a lock belongs to the one open transaction on the row
(`LockInv`); with the version a request read, the row is the one it read or that
row paid since (`ReadInv`, `SameOrPaidSince`); what a transaction will commit is
one of three changes of the current row (`NewInv`); and the outbox and the
payments agree with the rows (the properties themselves). One lemma per part
shows that every step keeps it. `TerminalKept` and `TableFollowed` are action
properties read off `NewInv` at a commit, `ServiceImplementsMachine` (for the orders
no payment transaction belongs to) maps each commit to one move of the machine: the row
is the snapshot, so the move was allowed when it commits, not only when it was read.

**OrderShardsProofs** holds for any months, ids, numbers, requests and clients. An id
below `nextId` was given out, no other (`FreshIds`); a table holds the orders of its
month on the server's clock (`Dated`); what a request stamped or loaded belongs to the table it works on
(`Stamped`, `Loaded`): that is why an UPDATE in the table of the snapshot hits the order
that was read, whatever the index says by then. A report has read no table it has
still to read, and what it began with is there in that version or a later one
(`Reading`), which makes `ReportTells` inductive. An order of the range whose table the
report does not read is one that `MayOverlook` names (`LeftOut`): an instant between
`from` and `to` has a month between theirs on either clock, as clocks do not run
backwards (`Clocks`), so where those clocks agree with the server's on its month, only
the last month can be missing. What is in the cache stays true because rows only get
newer (`CacheStep`). `IndexTells` follows the upsert case
by case, and `RedirectedOnlyByTwin` is read off it.

**IdempotencyGuardProofs** holds for any `Calls` and `Variants`. The invariant: at most
one reported execution per window; a window whose record is PROCESSING has only the
holder's, and one whose record is FAILED has none; no execution belongs to a future
window; a DONE record names one. From it
follow `DoneCommitted`, `HolderKept` and `GuardKeepsPromise`, the implementation of
OncePerWindow.

**CompensationTasksProofs** holds for any tasks, runs, jobs, retry limit, batch size
and number of faults. What makes a claim safe is its status test, not the lock, so
the invariant follows the tasks a run has claimed: they are RUNNING, and no other
run has them (`HoldInv`, `ExclusiveExecution`); the retry count MarkFailed read is
still the row's, and a task about to be archived is dead (`PlaceInv`); every
execution is a failure the table has counted, but for the one a run has not marked
yet, and a row whose mark was lost stays RUNNING, where nobody claims it
(`CountInv`). `StrandedByFault` follows because a step that lets go of a task
without a fault has changed its status.

**EventOutboxProofs** holds for any events, relays, producers, consumers, retries,
attempts and faults. A positive confirm that is still unread stands for a message that
is somewhere or was lost in a named way (`ConfirmInv`), so a relay that reads the confirm of its own publish may
mark the row (`PublishedInv`), and whoever takes another's is `misled`. A copy with
retry count n has failed n times (`RetryInv`), from which `DeadLetterIsEarned` follows
however often a copy was redelivered. An event is in a consumer's store exactly when it
was handled once more than it was forgotten (`KnownInv`): that is `HandledOnce`.

**CatalogLoginProofs** is about the two components that keep their state in Redis.
For ProductCatalog it holds for any rows, writers, readers, commands, processes and
lists. A commit changes the lists of one kind only, and its invalidation begins with all
lists of that kind (`ListFrame`, `ScopeCovers`): every list the commit made stale is its
writer's to delete. `TaskInv` follows that duty: only writers that have committed are in the
outbox, and a task in hand has nothing to delete but the lists of the command it was
made for, so a task that fails, and goes back as a whole, still has whatever was in hand.
`StaleIsExplained` then holds step by step: what explained a list still does, or the step
hands it on (`StaleDispatch`), deletes the list, or puts it in `lost`. `PartsInv` and
`ViewInv` say that readers saw rows that were there, which the types of the lists need;
`MutexInv` that a mutex has one owner, which its part of `TypeOK` needs.
`OrphansCameLate` speaks of deletes that have committed, and is not inductive: `LateInv`
says the same of a delete from its check on, which comes before the commit.

For LoginSessions it holds for any calls and accounts. A call carries the owner and
the version of its token (`Carries`), which is not ahead of its account (part of
`TypeOK`); versions only grow (`Grows`); a call that passed the comparison had a version not below the
account's when it began (`Compared`); a late call finds the flag, or the token has expired
(`Flagged`); and who set a flag has raised the version, will, or failed half way
(`Endings`).

**PushProofs** is about the two sides of the push service. For PushSessions it holds
for any sessions, owners and requests. `AimInv` says what
a thread can be after, `AddedInv` that a session is in the registry, in the map or
somebody's target only after its `Add`, so that what was removed never returns
(`FinalInv`). `ReachInv`: a session leaves the registry after its client left the
map. `TakeInv`: a client is taken out of the map once, so one thread at most
closes it on behalf of others, and inside a callback only a pump can. `RacedInv`
and `SettledInv`: a Connect that has looked for older sessions has disconnected, or
still will, every one whose Connect did not overlap with it.

For PushBroadcast it holds for any nodes, queues, stores, messages and requests, any
retry limit and any number of faults. `ShownOncePerRecord` is an account kept for each
store and message: records that were made on one side, what came of each on the other,
namely showings, requests and deliveries that are about to show, and records that were
wasted. The proof follows the two sets that are about to show (`Sending`, `Showing`),
which are finite as requests and nodes are: a step moves one member between them or out
of them, and books it. The account by itself is inductive, given the types and that a
copy goes back to its queue only while it may be retried (`RetryInv`).
`BroadcastAtMostOnce` is what it means where nothing expires: the nodes that share a store
show a message once at most.

**CartItemProofs** holds for any requests and counts. A line only grows newer and its
id does not return, so what a request read is the line of now, or older with the
same id, or gone (`ReadInv`). That makes `VersionTells` inductive; a row waiting for
its commit follows from the line, which its lock keeps (`NewInv`); and the reason
why a statement failed stays true (`FutileInv`): the row that stopped an INSERT is
locked, and a version or an id that was missed does not come back. From it follows
`RetriesAreFutile`: after one failed attempt none succeeds, which is why
`ConcurrentChangesSucceed` is violated. `NoUpdateLost`
is read off `NewInv` at a commit.

Two proof modules extend two components each, which share no variable and no name:
`Init`, `Next`, `Spec` and `TypeOK` of PushBroadcast and LoginSessions carry the name of
their component (`BroadcastSpec`, `LoginSpec`).

Each of these modules proves the type invariant of its components too, except that of
the guard, where it is part of `IInv`. Assumptions are those named in the modules, in
`OrderLifecycle` (`OrderOfAssumption`, `NoRequestAssumption`), `OrderShards`
(`ShardsAssumption`, `NothingAssumption`, and `CalendarAssumption`: on the clock of every
offset a later instant is in no earlier month), `IdempotencyGuard` (`VariantsAssumption`),
`CompensationTasks` (`JobOfAssumption`, `KeyOfAssumption`, `RetryAssumption`,
`NullAssumption`), `EventOutbox` (`EventsAssumption`, `ProducerAssumption`,
`RetriesAssumption`, `NullAssumption`), `LoginSessions` (`NullAssumption`),
`PushSessions` (`OwnerOfAssumption`, `NoSessionAssumption`), `CartItem`
(`CountsAssumption`, `NobodyAssumption`), `ProductCatalog` (`CommandsAssumption`,
`KindsAssumption`, `AuthorsAssumption`, `SeededAssumption`, `NoEntryAssumption`: tables
have rows of their own, and the markers are no rows, requests or lists) and
`PushBroadcast` (`QueueOfAssumption`, `StoreOfAssumption`, `NoCopyAssumption`, and
`BoundsAssumption`: there are finitely many nodes and requests). TLC evaluates all of them in the runs.

Only model-checked: liveness (`KeyFreed`, `Settles`, `Delivered`, `RequestsReturn`,
`Drained`, `RequestsEnd`), which needs ENABLED, out of the prover's reach. Every
invariant, action property and refinement that a passing run checks is a theorem.

## Not modelled yet, and the plan

1. The composition of provider retries, the `ack` guard and the order, in which
   `AckIsSafe` becomes a payment that is never recorded.
2. Compensation: the run log, the choice of month tables (`month_scan_router.go:41`, which
   the application does not construct), and what the executor does to an order.
3. The cart's SQL idempotency store, whose cleanup of expired records does not test the
   token. `cmd/api` always has a Redis client and never builds it.
4. The sums, pages and status rules of the reports, as functions over bounded rows.
5. A server whose own clock has summer time, or processes on different ones, where
   `MonthAt[Here]` would be a choice of each write.

Left out for good: HTTP and JSON conversion, configuration and wiring (no state
of their own), JWT signatures and password hashes (cryptography), health checks,
heartbeats and the offline store of the push service, which nobody reads.
