# Ecom: a TLA+ verification project

The repository is a small e-commerce backend in Go: an API gateway in front of
four services (auth, catalog, orders, payment), a rate-limiter library with
in-memory and Redis implementations, and a Kafka-driven checkout saga. This
directory holds TLA+ models of the parts that carry protocol state, the TLC
configurations that check them on small instances, and TLAPS proofs of the
results that matter most. `PROJECT.json` is the machine-readable index: runs,
the source lines each definition models, findings, hazards and theorems.

    tlc -workers 2 -config MCCatalogTxn.cfg MCCatalogTxn  # one run
    tlapm CatalogProofs.tla                               # one proof module

## 1. The system

| Component | State | Operations | Interacts with |
|---|---|---|---|
| catalog store (`services/catalog`) | `products.stock`, `products.reserved`, `reservations` rows | CreateProduct, Reserve, Release, Commit, AddStock; reads | called over HTTP by orders; its routes are also behind the gateway (below) |
| orders (`services/orders`) | `orders.status`, `order_items`; a request's locals | createOrder, releaseAll, HandlePaymentSucceeded, HandlePaymentFailed, UpdateStatus | calls catalog, publishes `order.created`, consumes `payment.*` |
| payment (`services/payment`) | `payments`, unique by order; the external processor | HandleOrderCreated, HTTP charge, publishOutcome | consumes `order.created`, publishes `payment.succeeded` / `payment.failed` |
| event bus (`pkg/events`, Kafka) | partition logs, committed offsets, the reader's position | Publish, FetchMessage, handler, CommitMessages | between orders and payment |
| in-memory limiters (`ratelimiter/algorithms`) | a bucket, a log of timestamps, or two window counters per key | Allow | called by gateway goroutines |
| Redis limiters (`ratelimiter/redis`) | a hash or sorted set per key, its expiry | three Lua scripts | called by every gateway instance |
| gateway (`gateway`) | the requests under way; buckets in Redis | strip headers, RequireJWT, rate limit, proxy; correlation, access log | limiter, all services |
| auth (`services/auth`) | `users`, unique by lower(email) | signup, login, me | gateway verifies its tokens |
| shared packages (`pkg/*`) | none | logging, metrics, correlation, database pool, JSON | all |

What is hard here, and hard to test:

- **Several calls, no common transaction.** createOrder makes up to 50 catalog
  calls, a database transaction and a publish. Any of them may fail before or
  after it took effect, and the client may leave in the middle.
- **At-least-once delivery.** Handlers run again after crashes, rebalances and
  failed offset commits; two executions for one order may overlap.
- **Row locks instead of a mutex.** Connections of the pool interleave the
  statements of Reserve, Release and Commit; what saves the inventory is which
  row each statement locks, in which order, and what it re-checks then.
- **Money outside the database.** The processor is called before the row that
  makes the call idempotent exists.
- **A loop that must retry.** The consumer's promise that a failed handler is
  retried depends on what kafka-go's reader does after `continue`.
- **A clock read outside the lock** (in memory), **a wall clock, rounding and key
  expiry** (in Redis).
- **Trust by header.** Services believe X-User-ID; whether it is true depends on
  which middlewares a route has and in which order they run, also while tokens
  expire, Redis is down and answers are lost.

What makes each part correct: the catalog never promises more than exists and
loses no unit; payment records one outcome per order and announces only that;
the bus passes over nothing unhandled; order status, charge and warehouse agree
at every instant and in the end; a limiter never allows more than its
configuration says, and the waits it reports are long enough; the gateway lends
nobody an identity or another account's budget, and an account stays with whoever
was told it was theirs.
The complete list, each at its line, is `hazards` in `PROJECT.json`.

Two facts of the wiring matter for how the results read. The gateway forwards
`/catalog/*` to every authenticated client (`router.go:130-133`), and with it the
catalog's `/reservations`, `/reservations/release` and `/reservations/commit`
(`catalog/handlers.go:50-55`), which check no caller. `Orders` and `Checkout` assume
that only the orders service calls them, and what they show about an order's
holds is conditional on that; `Catalog` and `CatalogTxn` take calls from anyone, so
the inventory's own invariants are not. And the gateway knows a connection by its
remote address only (`ClientIP`, which ignores X-Forwarded-For;
`ratelimit.go:51-58` leaves that to a later phase), so in the repository's own
deployment, nginx in front of two gateways (`deploy/nginx.conf`), all traffic on
the public routes shares one rate-limit budget.

## 2. Modules

| Module | Models | Notes |
|---|---|---|
| `Catalog` | the inventory tables, one action per transaction | proved about in `CatalogProofs` |
| `CatalogTxn` | the statements of those transactions under READ COMMITTED, on a pool of connections | implements `Catalog`, which it extends; `CatalogProofs` |
| `EventBus` | topics, `Consumer.Run`, faults of the broker | the broker and kafka-go's Reader are external; `EventBusProofs` |
| `Payment` | HandleOrderCreated and charge, step by step | executions overlap freely; `PaymentProofs` |
| `Orders` | createOrder and the saga handlers, one step per call | `INSTANCE Catalog` for the calls it makes; `OrdersProofs` |
| `Checkout` | the three services wired as in their `main.go` | `INSTANCE`s of `Orders`, `Payment`, `EventBus`; `CheckoutProofs` instances their proofs |
| `Saga` | what the saga promises, without services or messages | `Checkout` refines it |
| `Auth` | the users table, signup, login, me, and what a token says | operators; `Gateway` extends it |
| `Gateway` | a request's way through the middlewares to a service, one step each | time, token bucket per key, an upstream that may not answer; `GatewayProofs` |
| `LimiterClock` | the clock reading that precedes the mutex | shared by the in-memory limiters |
| `TokenBucket`, `SlidingWindowLog`, `SlidingWindowCounter` | the in-memory algorithms | |
| `RedisKey` | TIME, set back or not, and key expiry | shared by the scripts |
| `RedisTokenBucket`, `RedisSlidingWindowLog`, `RedisSlidingWindowCounter` | the Lua scripts | |
| `MemoryLimiters`, `RedisLimiters` | the implementations behind `ratelimiter.Limiter`, one of them picked at start-up | compose the three algorithms over one clock, so that one run checks them all; `MemoryLimitersProofs`, `RedisLimitersProofs` |
| `MC*` | instances for TLC | symmetry sets, carts, hash functions |

Operators introduced by a comment "Mutant of X" (or before a definition, "Mutant")
are variants of X with a plausible bug. No specification uses them: they document, for every checked
property, a change of the code that the property would notice.

How state and actions correspond to the code:

- **Catalog.** A reservation row is its quantity (0: no row), a product its SKU.
  A transaction is atomic, which `CatalogTxn` justifies. Calls that are refused
  change nothing; `ReserveRefused` is the condition of the one refusal a caller
  acts on. `sold` and `supplied` are history variables.
- **CatalogTxn.** `txn[t]` is the transaction of one connection: at its INSERT or
  DELETE ("row"), at its UPDATE, ready to commit, or about to answer that
  nothing had to change. Catalog's variables are the committed tables. A
  statement that finds its row locked waits; since it then looks at the newest
  version of the row, waiting is a guard (`Ready`) and `WaitsFor` is the graph
  `NoDeadlock` is about. A transaction may abort at any statement, and a commit
  may take effect without being answered. A history variable, `told`, follows
  the lines whose Reserve was answered with success.
- **EventBus.** `position` is what the Reader hands out next, `committed` what
  the group has stored. `HandlerFails` is the `continue` of `Run`: nothing is
  committed and the position stays after the failed message. A new generation
  (restart, rebalance) starts at the committed offsets; a rebalance may happen
  while a handler is running.
- **Payment.** `worker[w]` is one execution: lookup, charge, record, winner,
  publish. The processor is the StubGateway, whose answer depends on the amount
  only. `charges` counts its calls.
- **Orders.** `request[o]` is createOrder for the order id it generated: new,
  reserve, record, publish, or release after giving up. Each call has three
  outcomes: it succeeds, it fails without effect, or it takes effect and its
  answer is lost (`...Unanswered`, also the late effect of a timed-out call). A
  client that leaves cancels the context, after which calls are not answered.
  A loop over lines takes them in any order, because the request's order is
  the client's and `ORDER BY product_id` orders random UUIDs.
- **Checkout.** A handler starts when its consumer fetches and is committed or
  given up when it returns. The crash of a service takes its requests, handlers
  and reader positions together and keeps its database.
- **Gateway and Auth.** `request[c]` is the one request of a client under way:
  before RequireJWT, before the limiter, or with a service; time and the other
  client's requests come in between. A password is the client that knows it, an
  account its address (unique by the index), so `users[e]` is who may log in as
  `e`. Addresses are spelled plainly, with a display name, or not at all
  parseable. A token has the subject and the two times, in whole seconds, that
  the parser checks. `Address[c]` is where a client's connections come from, and
  clients may share it. A bucket is what the script stores: tokens, and a ts that
  `tostring` rounds to `Grain`, after allowed and refused calls alike (`Script`,
  `Stored`), also when the gateway never sees the reply (`LimiterFails`). It stays
  for ever, since a key only expires a second after it would be full again, and
  TIME is not set back; both are in `RedisTokenBucket`. Three histories follow the
  rounding: `early`, the time by which a stored ts lies before its call,
  `stalled`, the ticks ahead of which one was stored, and `promised`, what
  Retry-After said of a key that has not been used since. createOrder is cut
  down to recording its owner, and one order is followed.
- **Limiters.** Token and estimate arithmetic is exact: a token is `Interval`
  units and a request `Window` units, so each quantity the code computes in
  floating point is an integer. `allowed` is history, by true time. The one
  rounding that matters, of the Redis bucket's timestamp by `tostring`, is
  modelled (`Stored`), with a coarser grain so that it shows in few ticks.

## 3. Runs

Passing runs:

| Run | Shows | Bounds |
|---|---|---|
| `catalog` | reserved equals the rows, holds are backed, units conserved, only Reserve takes; a hold once answered stays; no circular waiting; `CatalogTxn` implements `Catalog` | 3 connections, 2 orders, 1 product (a transaction touches one), INTEGER up to 2, supply 3 |
| `eventbus` | only failed events are skipped; an order's events are on one partition and tried in order; every event is handled in the end but one whose handler failed or whose consumer stopped | 3 keys on 2 partitions, 3 events in each, 2 faults of any kind |
| `payment` | one recorded outcome, final, announced as recorded | two deliveries and an HTTP caller, declined and accepted amounts, faults |
| `orders` | terminal status and warehouse agree; submitted means held; a fault that does not end the request strands one line at most | 3 orders contending for stock, 2 overlapping handlers, 2 faults of any kind |
| `checkout` | consistency, announcements, refinement of `Saga`; every submitted order settled in the end, but for events given up and stopped consumers | 2 orders (one declined), 2 faults of any kind, an HTTP charge being one |
| `memory_limiters` | log: ceiling up to the delay, waits enough; bucket: burst plus refill; counter: no boundary burst; retry enough | 2 callers, limit 2, window 5, 10 ticks, readings up to 1 tick old |
| `redis_limiters` | log: exact ceiling, waits enough; bucket: burst plus refill plus what rounding credits twice; counter: no boundary burst, retry enough; all through key expiry and TIME set back | limit 3, window 4 ticks of half a millisecond, 9 ticks, TIME set back once, ts rounded to 3 ticks, 2 ticks rounded off |
| `gateway` | identity is proven and unexpired; a signup answered 201 keeps the e-mail address; a refusal is due to the traffic of one's own account, or of one's address on public routes; services are shielded, limiter up or down; Retry-After is enough; the last three up to what the stored ts rounds off | 2 clients behind 1 network address, 2 e-mail addresses, one of them taken; 3 requests, 5 ticks, a second of 3 ticks, limit 1 in 3 ticks, ts rounded to 3 ticks, tokens for 3 |

In `memory_limiters` the promises of the bucket and the counter are claimed until
a call is overtaken: until a goroutine with an older reading of the clock gets
the mutex after one with a later reading. In `redis_limiters` the counter's is
claimed until TIME has been set back. Beyond these conditions they do not hold
(see the limits below), and stating them so keeps the runs about the rest.

Runs that end in a violation, each a disagreement between the code and what a
comment, test or decision record of the repository says (quoted under `findings`):

| Run | What happens |
|---|---|
| `checkout_stuck` | a failed handler's event is not redelivered, so one failed Release leaves a declined order pending for ever |
| `payment_charged_once` | the processor can be called twice for one order |
| `orders_stranded` | compensation under the cancelled request context leaves stock held |
| `gateway_retry` | a ts rounded up makes a Retry-After of whole seconds too short: the client that obeys it is refused a second time, against ADR 0001 |

Limits of the code that the models exhibit and no run claims the contrary of:

- Reserve is idempotent while its row exists; repeated after Commit or Release it
  holds stock again.
- CreateOrder re-reads the order after its commit; when that fails, the handler
  releases the holds of an order that is recorded as pending (`RecordUnanswered`).
- In the in-memory limiters an overtaken call enters an old timestamp: the log's
  ceiling is exact only up to the delay, and the bucket's `lastSeen` goes back, so
  that the next call is credited the same time again.
- `durationFor` truncates, so the bucket's RetryAfter may be a tick short; the
  counter's ResetAfter is the end of the current window, whose own count then
  still weighs in full.
- TIME set back over a window boundary lets a burst through the Redis counter.
- `tostring(now)` keeps 14 significant digits, so the Redis bucket's ts is rounded
  to 0.1 ms. After rounding down, the same time is credited to the next call
  too, and a refused call may do that again and again. `ThrottledToRefill` of
  `redis_limiters` and `ShieldedFromBursts` of `gateway` hold with that excess
  allowed for, and fail without. After rounding up, the bucket does not refill
  until the clock has reached ts: `RefusedForOwnTraffic` and `RetryAfterIsEnough`
  allow for these ticks, and fail without. In the code they are at most 0.05 ms
  per call, so `gateway_retry` shows only where the wait is within that of a whole
  number of seconds, as for an emptied bucket of 60 per minute.
- Clients behind one address share a budget on the public routes, behind nginx
  all of them: one client's logins can use up everybody's. `RefusedForOwnTraffic`
  speaks of the address there and of the account everywhere else, which no
  client behind the same address can spend.
- A Reserve whose answer is lost stays held when the order is given up
  (`EachFaultStrandsOneLine` says that nothing else does).
- `/auth/*` is a public group: X-User-ID is stripped and RequireJWT does not run,
  so GET /auth/me answers 401 to everyone who comes through the gateway, also
  with a valid token (`Me` with the subject "none").
- signup accepts `Name <a@b>` and keeps `a@b`; login looks for the address as it
  is spelled, and finds no account by the spelling with which it was made.
- A lost answer to createOrder leaves the client with a 502 and an order; there
  is no idempotency key by which a repeat could be recognised.

Why the bounds are enough. Two orders and two products are the smallest
instance with contention between orders and a loop that fails between two
lines; a third repeats these. Three connections let one wait while another
repeats its call and a third settles the line. In `gateway` three requests are
a signup or login, the use of its token, and one of the other client; five
ticks see a token expire, a bucket refill once it was empty, and a ts rounded
both up and down. With `Grain`, `Window` and `Second` equal, the wait for a token is
a whole second and rounding is as large as it can be against it: bounds on the
limiter that ignored it would fail in this instance. Two faults cover every pair
(a lost call and the crash that follows, a failed commit and a rebalance), and no handler has a third
recovery layer. `MaxEvents` of 4 lets an event be announced again after each
fault. Limiter runs span at least two windows (or refills), so that rolls,
expiry and recreation of a key all happen. Bounds are guards on history
(`MaxSupply`, `MaxEvents`, `MaxFaults`, `MaxSteps`, `MaxEarly`, `MaxRequests`,
`MaxTime`); no code path is
cut off by them except the end of the run. `CHECK_DEADLOCK FALSE` is used where a
finite number of requests really comes to an end.

Fairness. `EventBus` and `Checkout` assume weak fairness of each consumer
goroutine: fetch while there is a message, let the handler's next step happen,
return, commit. `main` starts these goroutines for the life of the process.
Their calls of the catalog time out after 10 s (`catalog_client.go:40`); those of
the database and the broker have the consumer's context and no deadline of their
own, so fairness assumes that PostgreSQL and Kafka answer or fail in the end.
Clients, HTTP
requests and faults are not fair. Faults are bounded, so that a behaviour has a
last one. The liveness properties name the two things that do keep an event from
being handled: a handler that gave it up (that this should not be so is
`checkout_stuck`) and a consumer that stopped and was not restarted. As an event,
once published, and an order, once submitted, stay so, a stop that a restart ends
excuses nothing.

## 4. Proofs

Each theorem holds for every value of the constants: any sets of orders,
products, connections, workers, topics, partitions, clients or callers (finite
only where a sum or a count needs it) and any bounds. Every inductive invariant
below was first checked by TLC as an invariant of its component's instance.
`theorems` in `PROJECT.json` names the property of a run that each one states.

| Module | Theorems | Inductive invariant |
|---|---|---|
| `CatalogProofs` | of `Catalog`: types, ReservedMatchesRows, HoldsAreBacked, StockConserved, OnlyReserveTakesStock | `IndInv` |
| | of `CatalogTxn`: NoDeadlock, ToldHoldsLast, ImplementsCatalog, and Catalog's invariants at every statement | `TxnInv` |
| `PaymentProofs` | TypeOK, OutcomesAgree, PaymentIsFinal | `IndInv` |
| `EventBusProofs` | types, OnlyFailedIsSkipped, TriedInOrder | `IndInv` |
| `OrdersProofs` | TypeOK, ConfirmedIsSold, CancelledIsReleased, SubmittedIsHeld, EachFaultStrandsOneLine | `OrderInv`, `LeaksCounted` |
| `CheckoutProofs` | OutcomeIsConsistent, PaidIsBacked, CommittedIsAnnounced, ImplementsSaga | `SagaInv`, `Tracked` |
| `MemoryLimitersProofs` | log: TypeOK, CeilingWithinDelay, WaitsAreEnough; bucket and counter: ThrottledToRefill, NoBoundaryBurst, RetryIsEnough | `LimiterInv` |
| `RedisLimitersProofs` | log: CeilingIsExact, WaitsAreEnough; bucket: ThrottledToRefill; counter: NoBoundaryBurst, RetryIsEnough | `RedisInv` |
| `GatewayProofs` | IdentityIsProven, AccountsLast, RefusedForOwnTraffic, ShieldedFromBursts, RetryAfterIsEnough | `IdentityInv`, `BudgetInv` |

The arguments, and why the invariants say more than the properties:

- **Catalog.** ReservedMatchesRows alone is not inductive: without
  `reserved <= stock` the `GREATEST` in Commit could cut a stock off at zero and
  units would vanish, and without exact row sums the `GREATEST` in Release could
  hide a drift. Sums over orders are cardinalities of sets of units (`Units`), so
  that the theorems on finite sets apply; lemmas state how a change of one line
  changes them. HoldsAreBacked follows from the invariant;
  OnlyReserveTakesStock is proved action by action.
- **CatalogTxn.** `TxnInv` adds what each transaction knows of the row it has
  locked and that no two hold the same lock. The commit of a transaction is then
  the atomic action of `Catalog`, and every other statement a stutter.
  NoDeadlock is an order: a transaction that holds a product waits for nobody,
  so a chain of waits ends after two steps.
- **Payment.** OutcomesAgree needs to know that an execution about to publish
  carries the status of the row, and for that, that one which lost the race to
  insert finds the winner's row.
- **EventBus.** OnlyFailedIsSkipped needs to know that a partition's
  deliveries leave no gap: when the handler of an event returns and its offset
  is committed, everything before it has been tried, in this generation or in an
  earlier one. TriedInOrder needs besides that every event is in the partition
  of its key (`Keyed`).
- **Orders.** `OrderInv(D)` is stated for the verdicts `D` an order may be told,
  so that both the component by itself (`D` the constant `Outcomes`) and the saga
  (`D` whatever payment has announced) can use it. It relates a request's
  `held` and a handler's `todo` to the rows that must exist or be gone.
  EachFaultStrandsOneLine is about a count: `Leaked` are the lines that a request
  will leave behind, known as soon as releaseAll has passed them, and a step adds
  one to it only when it is a fault.
- **Checkout.** `SagaInv` is the invariants of the three components and `Linked`,
  what their messages say about each other's state. The verdicts are a bound
  variable of it: payment's OutcomesAgree is what shows that no order is told
  both. `Tracked` follows an OrderCreated event through its consumer to its
  announcement. ImplementsSaga: what a catalog call changes is a move of one
  line, recording, publishing, inserting the payment and the final status are
  Saga's steps the first time they take effect, and everything else stutters.
- **Log.** No timestamp lags its decision by more than MaxDelay, and a request
  whose timestamp is within the window is still in the log: then the requests of
  the shortened span are all in the log, which the admission test bounds.
- **Bucket and counter.** For every start of a span, what was let through since
  and what the bucket still has are at most a full bucket and the refill
  (`BucketFits`); of the counter, a span that starts within a window is counted in
  its counters, and their weighted sum was within the limit at the last decision
  (`CounterFits`). Both follow the last reading, which is the latest one until a
  call is overtaken. RetryIsEnough is about one state and needs only its type
  and that a previous count leaves the current one below the limit (`Counts`).
- **Redis scripts.** TIME never runs ahead of the time (`ServerInv`), so a
  request of the last window has a score that is still within it, and PEXPIRE
  outlives the youngest member: such a request is still a member when the
  admission test counts (`LogInv`). For the bucket, `Level` is what a call at some
  TIME may find, whether the key is still there or has expired; the key lives
  until the bucket would be full (`Lives`), so expiry credits nothing that time
  would not have, and setting TIME back only lowers the level. `BucketFits` weighs
  it against the requests let through, and a timestamp stored too early is
  credited once to its right-hand side. The counter's windows lie on one grid: while
  TIME shows the time, `CounterFits` says of every span which counters contain it,
  and the key outlives two windows, so what expires counts for no span any more.
  Once TIME was set back only `Counts` remains, which is all RetryIsEnough needs.
- **Gateway.** `IdentityInv` says of a token in a wallet whose it is and until
  when, of a request what RequireJWT has established at the step it is at, and that
  acknowledged accounts still belong to whom they were acknowledged. `BudgetInv`
  bounds each key's bucket and traffic (`KeyInv`): from above (`AtMost`: for every
  start of a span, what was let through and what is left are at most a full
  bucket, the refill and the time counted in `early`; for ShieldedFromBursts), from
  below (`AtLeast`: what a bucket lacks its principal has used or `stalled` ticks
  have not refilled; for RefusedForOwnTraffic) and at the end of a promised wait
  (`Kept`). For each, `KeyTyped` says that the ticks between the clock and a ts
  ahead of it are all in `stalled`. The address of a client plays no part in the
  proofs but to name a principal, so they hold for any sharing of addresses.

Assumptions are those the modules declare, and TLC evaluates each of them in a
run: natural bounds and positive limits, windows and lifetimes
(`CatalogAssumption`, `BusAssumption`, `LimiterAssumption`, `ClockAssumption`,
`RedisAssumption`, `RedisLimiterAssumption`, `AuthAssumption`, `GatewayAssumption`); carts with at least one line and
quantities that fit an INTEGER (`OrdersAssumption`, `CheckoutAssumption`); positive
amounts of an HTTP charge and workers of two kinds (`PaymentAssumption`).
`OrdersAssumption` also says that the environment does not tell an order both
outcomes; `CheckoutProofs` does not assume this, but has it from payment's
OutcomesAgree. The test `TestLateEventCannotFlipASettledOrder` (`saga_test.go:210`)
tells a settled order the other outcome as well; with this payment service that
does not happen, and it is outside what is shown of `Orders`.
ShieldedFromBursts is proved for `FailOpen = FALSE`, which is what the gateway's
`main` leaves it at: a limiter that fails open shields nobody while it is down.

Only model-checked: **liveness** (PublishedIsHandled, SubmittedIsSettled), since
the prover handles neither fairness nor ENABLED.

## 5. Not modelled

- **Shared packages** (logging, metrics, correlation ids, pool, JSON) and the
  gateway's correlation and access-log middlewares: output without protocol
  state. The deployment files and load tests are configuration.
- **Process start and stop**: migrations, configuration, and the shutdowns. The
  gateway drains for 20 s while an upstream call may last 30 s, so a call cut
  off there is one of the calls whose answer is lost.
- **Cryptography**: bcrypt and HS256 are taken to be what they claim. Clocks of
  the gateway and of auth are one clock in the model; with skew, the parser's
  zero leeway refuses a token before its nbf.
- **Reads** (listOrders, ListProducts, getCharge) change nothing; getOrder is
  modelled for whom it answers.
- **Direct calls of the catalog's reservation endpoints** by clients of the gateway
  (section 1), within `Orders` and `Checkout`. A client's direct call of the payment
  service's charge is modelled.
- **Prices and currency**: totals enter the saga as given amounts. Nothing bounds a
  price, so the int64 total may overflow, and it has the last line's currency.
- **Float rounding** in the limiters, except where it is the point
  (`RedisTokenBucket`), `Result.Remaining`, and Redis windows that are not whole
  milliseconds.
- **Malformed events and requests**, which are rejected before the first step,
  and topic creation at start-up.

## 6. Plan

Done: the modules above, in the order catalog, bus, payment, orders, checkout
with its abstract promise, limiters, statement-level catalog, gateway and auth;
then the proofs of every invariant and action property that a passing run
checks.

