# Formal specifications of the orders service

TLA+ models of the Go service under `src/`: an HTTP API that accepts orders, a
background worker that settles them, and the metrics, logs and traces that are
meant to tell the truth about both. TLC checks the models on small instances
(`tlc -config X.cfg MCModule`); TLAPS proves every safety property the runs check
for all values of the constants (`tlapm XProofs.tla`). `PROJECT.json` is the index: it
ties every definition to its source lines, every run to its properties, every
property to a code change that would break it, and every hazard to the
properties that guard against it.

## 1. The system

| Component | State it keeps | Operations | Talks to |
|---|---|---|---|
| Order handlers (`httpapi/handlers.go`) | none of its own | create, get, list, health, slow query | store, business metrics |
| Order store (`store/orders.go`) | the `orders` table in Postgres | INSERT, claim (`FOR UPDATE SKIP LOCKED`), guarded UPDATE, counts, oldest age | pgx pool |
| Worker (`worker/worker.go`) | the claimed batch, the order in hand | poll, claim, pay, mark, release on shutdown, recover | store, business metrics |
| Backlog refresher (`worker/backlog.go`) | the cached gauges | refresh on a ticker, publish | store, business metrics |
| Migrations (`store/store.go`) | `schema_migrations` | apply each embedded file in its own transaction | Postgres |
| Process (`cmd/api/main.go`) | signal context, error channel, 15 s shutdown context, pool, exporter | start, serve, tear down | everything |
| Middleware chain (`httpapi`, `metrics/http.go`, `tracing/http.go`) | recorders, request copies, in-flight gauge | tracing, metrics, request ID, access log, recover, mux | the three pillars |
| Log pipeline (`logging/`) | level, sampler's map, counters | filter, count, sample, write; switch level | all goroutines |
| Query observation (`metrics/db.go`, `*/pgx.go`, `store/tracer.go`) | nothing between start and end but the context; histograms, lines, spans; the pool's counts | fan out each acquisition's and query's start and end; collect | pgx, pgxpool |
| Configuration (`config/config.go`) | none | read the environment, refuse or accept | every constructor in `run()` |
| Load generator (`cmd/loadgen`) | a channel of ticks, a ring of IDs, results | tick, draw, request, record, print | orders API |
| Alert sink (`cmd/alertsink`) | the last 200 notifications | handle a webhook, list | Alertmanager |

Replicas share nothing but Postgres. Within a replica the goroutines share the
signal context, the pool, the registry and the logger.

What is hard here, and what makes each part correct:

* **Orders** - several replicas claim from one table while statements outlive
  the clients that sent them. A statement whose client gave up (shutdown, the
  5 s write timeout, a crash) may still commit. Correct means: one party at a
  time may act on an order, a customer is charged at most once, the status
  written is the result of that charge, counters never run ahead of the table,
  a shutdown ends and leaves nothing behind that it had received.
* **Process** - a signal, a failed server and a failed start take different ways
  out, and one shutdown context is shared by three steps. Correct means: the pool
  outlives its users, metrics are served to the end, exit status 0 means that
  every request was answered and every span reached a batch that was given to the
  collector - whether the collector took it is only logged.
* **Backlog** - a cache that reads as calm when it is frozen. Correct means: the
  timestamp never vouches for older values, and a refresh that does not
  happen is visible in some counter.
* **Migrations** - all replicas run them at once with no lock but a primary key.
* **Middleware** - three recorders, two request copies and a panic unwinding
  through all of them must end with client, metric, log line and span agreeing.
* **Queries** - three tracers share one context each way, a call may give up in
  the queue, under construction, on the wire or between rows. Correct means: one
  story per query in metrics, log and trace, waiting told apart from working, and
  every connection given back.
* **Configuration** - `Load` lets zero and negative numbers through; correct means
  that no constructor starts a part that cannot run.
* **Tools** - a rate loop whose channel, ring and history are at their limits, and
  handlers that overtake each other.
* **Logs** - records meet the sampler out of time order, and the map that
  bounds its memory forgets. Correct means: rate and memory are bounded, what was
  dropped is reported, and the audit trail names the level in force.

The full list, with source lines, is `hazards` in `PROJECT.json`.

## 2. Modules

| Module | Models | Role |
|---|---|---|
| `OrderLifecycle` | statuses and transitions of `domain/order.go` | abstract specification: table and payments only |
| `OrderProcessing` | create handler, workers, store, Postgres sessions | detailed specification; refines `OrderLifecycle` |
| `OrderProcessingProofs` | | theorems about `OrderProcessing` |
| `Backlog`, `BacklogProofs` | refresher and gauges; EXTENDS `OrderLifecycle` as its environment | composition with the moving table |
| `ServiceLifecycle`, `ServiceLifecycleProofs` | `run()` of `cmd/api/main.go` | one process |
| `Migrations`, `MigrationsProofs` | `Store.Migrate` on several replicas | |
| `RequestChain`, `RequestChainProofs` | the middleware chain | |
| `LogPipeline`, `LogPipelineProofs` | `logging.New`'s handler chain, level switch | |
| `QueryObservation`, `QueryObservationProofs` | `MultiTracer`, the three pgx tracers, the pool and its collector | |
| `Configuration` | `config.Load` and the constructors that take its numbers | |
| `LoadGen` | `cmd/loadgen` | |
| `AlertSink` | `cmd/alertsink` | |
| `StandaloneProofs` | | theorems about `Configuration`, `LoadGen` and `AlertSink` |
| `MC*` | | instances: model values, symmetry sets, restrictions that keep a run small; `MCStandalone` holds the five parts that share no state |

### OrderProcessing

A worker is a program counter (`pc`) through `Run`, `runOnce` and `processOne`:
`idle` (the select), `claiming`/`claimwait` (in `ClaimPendingOrders`), `batch`
(the loop), `working` (`simulatePayment`), `marking`/`markwait` (in
`MarkOrder`), `stopped`, `down`. `stmt` is what each Postgres session runs. The
client and the server side of a statement are separate actions:
`SendClaim`, `ClaimLock`, `ClaimCommit`, `ClaimReply` and so on. Whenever the Go
side returns early, `Abandon` leaves the statement with owner `"gone"`, free to
commit. `Orders` are numbers that stand for `created_at`, because the claim
takes the oldest first. The refinement mapping to `OrderLifecycle` is the
projection on the table and the payments (`Lifecycle == INSTANCE OrderLifecycle
WITH ...`): sessions, workers, requests and counters are hidden. `counted` is what
the counters say, `happened` what Postgres committed, `charges` the payment attempts that completed.

Faults are named (`disconnect`, `dberror`, `connloss`, `panic`, `timeout`,
`shutdown`, `crash`); a cfg says which kinds may occur and how many in all.
Latency and `FailureRate` are nondeterminism.

Postgres is external. What is assumed of it: row locks are held from
`FOR UPDATE SKIP LOCKED` to the commit, a locked row is skipped, a guarded
UPDATE sees the committed status, a commit is atomic. The MARK statement locks,
tests and commits in one step: it touches one row, which it either moves or not.

### Other modules

* `ServiceLifecycle`: `main` walks `run()`; a handler or background goroutine is
  `idle`, holds a connection (`db`), was `refused` by a closed pool or is `done`.
  Of the span batcher it keeps whether its queue holds spans and which of the four
  `Losses` have struck: an ended span may find the queue `full` or end `late`, after
  `Shutdown`; a batch the collector refuses is cleared like one it takes (`Deliver`,
  in the background or by the flush), its error goes to the handler that logs it; and
  what is in the queue when the process exits is `left`. `tp.Shutdown` returns nil
  (`Flushed`) or the error of its context (`FlushTimesOut`), never the exporter's.
* `Backlog`: whole time units; a goroutine that is ready runs before the clock
  moves, and a query ends at its deadline at the latest. `SetBacklog` takes one
  step per gauge, the oldest age (`SetOldest`) and the timestamp (`SetTimestamp`)
  included, so a scrape may see any prefix.
* `Migrations`: `recorded` holds the rows of open transactions; a second insert
  of the same key waits for the first to end, as a primary key makes it.
* `RequestChain`: one action per layer and direction. `pattern` keeps the
  `Request.Pattern` of the server's request and of each copy separately,
  `rec` one status recorder per layer.
* `LogPipeline`: the clock is read when a record is made, the sampler runs later
  as one critical section, and the counters are bumped in steps of their own. `target`
  is the level an administrator has set and not yet logged, `trail` the levels that
  written audit lines name.
* `QueryObservation`: a context is a function from keys to values, and a callback
  of a tracer maps (what the pillars know of the call, context, error) to what
  they know next, so `MultiTracer` is the composition of three such maps. A call
  walks `queued`, `building` (its connection is made), `granted`, `running`,
  `reading` (the row loop), `answered`, `ended`, `returned`, or ends in `failed`.
  SQL texts are short sequences of characters because the three copies of the
  normalisation are what one property is about.
* `Configuration`: a stage per constructor of `run()`; the nine numeric variables
  are unset, empty, unparsable, NaN or a number.
* `LoadGen`: main, the workers and the API; the client's request is one step that
  answers or fails, and may fail although the order was created.
* `AlertSink`: a post is decoded and kept in two steps, between which others
  overtake it; Alertmanager repeats what was not answered.

## 3. Runs

Passing runs:

| Run | Instance | Shows |
|---|---|---|
| `order_faults` | 2 replicas, 2 sessions, 2 orders, batch 2, any 2 faults of a worker or its connection | custody, conflict, charge, settlement and counter invariants; a live worker's missing heartbeat is a counted panic |
| `order_shutdown` | 2 replicas, 2 sessions, 3 orders, 1 shutdown or client disconnect | what a worker received it settles or releases; counters equal the table while nothing disturbs, and miss no order whose client got a 201; implements `OrderLifecycle` |
| `order_live` | 1 replica, 2 orders, batch 1, 2 faults and any number of write timeouts | a shutdown ends although Postgres hangs; pending orders settle if it does not |
| `service` | 2 requests, a collector that may refuse or hang | teardown order, exit status; the process ends |
| `backlog` | interval 1, timeout 2, 4 units with 1 order, 1 unit with 2 | timestamp and staleness with ticks dropped; exact gauges at rest, no pending order hidden |
| `log` | 2 goroutines, 2 administrators who switch to DEBUG, WARN and ERROR, 3 messages, a map of 1, 4 calls, 3 ticks | budget, accounting, reported drops; the trail names the level in force |
| `queries` | 2 calls, 1 connection, 4 kinds of statement, 2 time units | pillars agree on every query, waits attributed, no leak, every call returns |
| `standalone` | request: 1 request of every endpoint, status, panic, traceparent, ID, tracing on or off, sampled or not, and 1 more beside it; migrations: 3 replicas, 2 files, 2 faults; loadgen: 2 workers, channel 1, ring 2, 5 ticks; alertsink: 2 notifications, 3 posts, history 2; configuration: any 2 of 9 variables | pillars agree, exemplars name recorded traces, shared gauge and panic counter; exactly once, in order, all come up; ticks accounted, ring, history, runnable configuration, loadgen ends |

Why these bounds: two claimers, one batch of two and a second claim are what an
overlap needs; three orders let a batch of two leave one behind. Two faults
allow the worst pairs (a timeout, then a crash; a shutdown in both replicas);
custody, charges and counters are proved for any number anyway. In `order_live`
a batch of one makes the second order wait for a later claim, and two faults are
enough to release or strand it twice. Three replicas of `Migrations` let one wait
on a second while a third finds the file applied. `backlog` allows a refresh
to outlast two intervals and a failed one to follow with one order; `MCNext` lets
the second order in only during the first unit and before a shutdown, where counts
reach two and the oldest is one of several. In `queries` the second call always
reads rows, the statement with most ways to end, and the first runs any; with one
connection one of them waits, and two time units put the wait and the query into
different units. The five parts of `standalone` share no state, so `MCNext` lets
one of them run per behaviour: the state space is their sum. Only the requests are
checked for deadlock; the other parts may stop (`Ended`). Its ring of two is
overwritten more than once by five ticks, its history of two trimmed by three
posts; the load is creates and gets, the two kinds that touch the ring (the others
differ only in the codes the API answers). Two variables at a time are enough for
`Configuration` because no check or constructor reads more than two.
`log` has room for a window that begins at tick 1 and is rolled over at 3 by a
record that was delayed at the mutex, and for the map to overflow. A second
request in the chain suffices because requests share only a gauge, a counter and
a set of series; it asks for a path nobody registered, which the first may do too.
Symmetry is used only for interchangeable workers, sessions, orders of `Backlog`, goroutines and messages, never in a run with a liveness
property, and never for `Orders` of `OrderProcessing`, which are ordered.
(`ImplementsLifecycle` is a safety property.)

`CHECK_DEADLOCK FALSE` stands where the modelled system may stop: a process
that exited or a clock at its bound.

Runs that TLC is expected to refute; each is a sentence of the repository that
the code does not keep (`findings`):

| Run | The repository says | The code |
|---|---|---|
| `order_strands` | `worker.go:163` a shutdown never strands orders in `processing` | a claim committed but not yet read when the context ends is lost |
| `backlog_blind` | `worker.go:140` the backlog-age alert catches a stranded row | the age covers `pending` rows only |
| `service_flush` | `tracing.go:200` Shutdown flushes what is still in the batch queue | a batch the collector refuses is cleared, its error logged; `tp.Shutdown` returns nil, `run()` too |
| `log_silent` | `level.go:57` a level change is visible even at a raised level | a switch to ERROR filters its own WARN line |

Smaller disagreements that show in the models and have no run of their own; the
properties above are stated so that they hold with them:

* `config.go:100` the ratio must be 0..1: `NaN` parses and passes both comparisons.
* `db.go:386` the branch for a pool that is nil is never taken: the collector is
  registered after the pool was opened.
* `db.go:198` speaks of the caller's span as the active one; with `MultiTracer` it
  is the span of the query, in the same trace.
* `tracing/pgx.go:148` the three normalisers must agree: `strings.Fields` also splits
  at form feeds, vertical tabs, U+0085 and U+00A0, the two loops do not. No text of
  the store has one (`TextsAssumption`).
* `loadgen/main.go:275` code 0 is a transport error: ticks left in the channel when
  the run ends are recorded as such although nothing was sent. With `-concurrency 0`
  they are neither sent nor counted (`ClientsAssumption`), and a `-rate` above 10^9
  gives `time.NewTicker` a zero interval.
* `loadgen/main.go:61` defaults to port 8086, `config.go:74` to 8087.
* `worker.go:185` "Every exit path records a WorkerRun": a panic in the claim or the
  loop leaves through the guard at 193, which moves `WorkerPanic` alone, and the
  return at 198, taken while shutting down, records nothing (`HeartbeatUnbroken`
  speaks of live workers and says that a hole is a counted panic;
  `HeartbeatHasNoHoles` is about builds in which nothing panics).
* `handlers.go:86` the created counter matches the database: an INSERT that
  commits after its client hung up is not counted (`NeverOvercounted`, and
  `LedgerExact`: what was answered with 201 is).
* `config.go:128` accepts a `SHUTDOWN_TIMEOUT` of zero or less: the shutdown context is
  over when it begins, an `Expire` right after the select of `ServiceLifecycle`.
* `tracing.go:205` Shutdown must be called before the process exits: a start that
  fails after `tracing.Init` returns without it.
* `main.go:128` a panic is observed as a 500: not when the handler had already
  written its header; and then `tracing/http.go:93` sets `Ok` over the `Error` of
  `RecordPanic` (`PanicsCounted` speaks of panics before the response).
* `router.go:10` lists every instrumented endpoint: `/debug/slow` is missing.
* `handler.go:179` the true volume is never invisible: emptying the full map
  forgets drops nobody has reported (`forgotten` in `DropsReported`).

## 4. Fairness

* `WorkerFairness`: a goroutine that can go on does (weak); Go's `select` picks
  at random among ready cases, so `ctx.Done()` cannot lose for ever to the
  ticker (strong fairness on `Stop`); the timer of the write context fires.
* `ServiceFairness`, a premise of `PendingSettles` only: Postgres finishes statements, the
  pool serves waiters in order (strong fairness on sending), and
  `restart: unless-stopped` in `docker-compose.yml` brings replicas back.
  `ShutdownCompletes` does without it: `Run` must return although Postgres hangs.
* `ServiceLifecycle`: main, servers and the 15 s timer run, and Postgres answers
  the queries it was sent. Handlers that hang outside a query and a collector that
  hangs or refuses are allowed: nothing is fair to `Export` and `Flushed`, and the
  flush then ends with its context (`FlushTimesOut`).
* `Migrations` (in `MCStandalone`): a replica that can go on does, and is restarted
  when it exits.
* `QueryObservation`: the goroutine of a call goes on when it can. That Postgres
  answers is a premise (`PostgresFairness`) of one half of `EveryCallReturns`; the
  half about an ended context does without it.
* `LoadGen`: main and the workers run, and a request ends because the client has a
  timeout of 10 s. The ticker and the end of the run need not happen.

## 5. Proofs

All for arbitrary constants that satisfy the named `ASSUME`s (finite sets of
orders, sessions, calls and requests, positive sizes, and the like); TLC evaluates
each of them on the instances it checks. The bounds (`MaxFaults`, `MaxTime`,
`MaxTicks`, ...) are arbitrary too, so the theorems hold for behaviours of any
length. Every safety property of the passing runs is stated by a theorem; each
`IInv` was found from the location where an action would break the property, and
says what the code has already done there.

**OrderProcessingProofs.** `ExclusiveCustody` is not inductive: to see that no
second party gets an order one has to know who owns which session. `IInv` adds
to `TypeOK`, `ExclusiveCustody` and `NeverConflict`:
`OwnerInv` (a live statement belongs to the worker whose `pc` waits for it, one
each), `InsertInv` (an INSERT in flight is about a row that is not there),
`LockInv` (locked rows are pending and locked once), `WorkerInv` (what `batch`,
`cur` and `outcome` hold at each location), `MarkInv` (an update in flight writes
what was charged) and `ChargeInv` (a pending order was never charged, a
processing one only by the party that holds it or by one that lost it for good).
From it: `TypeCorrect`, `CustodyIsExclusive`, `MarksNeverConflict` - the
`ErrConflict` branch of `processOne` is dead code - `NoDoubleCharge`,
`SettledFaithfully` and `Refinement`, the step simulation that shows
`OrderProcessing` implements `OrderLifecycle`. `CountersNeverAhead` needs
`LedgerInv`: a reply that has not been delivered accounts for one commit that has
not been counted. `HeartbeatHolesArePanics` is inductive with the types: every way back
to the select of `Run` records the run, counts a panic or has a cancelled context
behind it. `HeartbeatHasNoHoles` follows for fault kinds without `"panic"`, its only
hypothesis: the code keeps worker.go:185-187 exactly as far as nothing panics.

Two properties hold only under some faults. `DeliveredIsNeverStranded` has the
hypothesis that the faults are shutdowns and client disconnects
(`FaultKinds \subseteq {"shutdown", "disconnect"}`), that is, the run's; a crash or a
lost connection does strand an order the worker had received. `LedgerStaysExact`
needs no hypothesis, because `LedgerExact` speaks of behaviours without faults:
`CalmInv` says that up to then everybody who sent a statement still waits for it
(`Attended`), an update in flight is its worker's (`MarkOwned`), a commit is counted
or its reply is on the way (`LedgerEven`), and every processing order is somebody's
(`NoneLost`). Its second half, about orders whose client got a 201, holds after any
fault: `CreateInv` says that a row is inserted once and counted before it is answered.

**MigrationsProofs.** `IInv` is `MigrateTypeOK`, `AppliedExactlyOnce`, `AppliedInOrder`,
`RowWhileOpen` (a row is uncommitted only while its transaction is at the
commit), `KeysUnique` (no two open transactions hold the same key, none holds a
committed one) and `LoopBehind` (every file behind the loop's position is
applied). It yields `AppliedOnce` and `InOrder`.

**ServiceLifecycleProofs.** What is safe to close depends on how far `run()` has
come. `StageInv` says what exists at each stage, `DrainInv` and `BackgroundInv` what
has ended after each step of the teardown, `ErrChInv` that the channel holds at most
one error of each failed server (so that the capacity of two is enough,
`NoSenderBlocks`), `CleanInv` what an exit without errors has behind it: an exporter
shut down with its queue empty, and no span that came late or was left. That the queue
overflowed or the collector refused a batch is compatible with exit status 0, and the
theorem `CleanExit` does not deny it (run `service_flush`).

**BacklogProofs.** What the gauges show was true at three times: when the refresh
began, when the counts were taken, when the age was asked for. `ClockInv` orders
them, `FreshInv` bounds how long a refresher that has reported no failure can go
without publishing, `CountInv` says which gauges of a half-done `SetBacklog` are new,
`AgeInv` what the age covers. `FreezeIsTold` holds for every `Interval` and `Timeout`,
also where a refresh outlasts the interval and ticks are dropped.

**RequestChainProofs.** `ChainInv` follows one request through the chain: which
copy of it knows the route (`RouteInv`), that all recorders and the client have seen
the same write (`WriteInv`), what a panic has left behind (`PanicInv`), which IDs are
where (`IdInv`), what span, access line and sample say (`SpanInv`, `LineInv`,
`SampleInv`). A step of one request leaves the others alone (`Apart`), so gauge and
panic counter are the cardinalities of two sets of requests (`Counted`), each of which
grows or shrinks by one.

**LogPipelineProofs.** `RateCapped`: no message whose bucket was not thrown away
gets more than `PerInterval` records per elapsed window. The strengthening says of
every message that what has passed is at most what its open window has seen plus `PerInterval` times
the windows that fit before that window's start (`WindowInv`), that recorded times
never exceed the clock (`TimeInv`), and that only sampled messages have buckets
(`SampledInv`). `SamplerMapBounded` comes from the same invariant. The accounting
theorems count the records in flight instead of summing over goroutines: per level
what was attempted is what was written, what was dropped and the number of goroutines
in between (`VolumeInv`), per message what was discarded is reported, held or about to
be (`DropInv`). `LevelNamed` has no hypotheses on the levels: whoever switched the level
last logs after setting it, and only ERROR filters that line, so the level in force is
ERROR, is on the trail, or an administrator who set it has yet to log.

**QueryObservationProofs.** `CallInv` says what the contexts carry that the tracers
of a call were given and, to the field, what the pillars know at each location;
`PoolInv` says where every slot of the pool is. With them `ScrapesAreTrue`,
`WaitsAttributed` and `QueryPillarsAlwaysAgree`. The names on the three pillars are
computed by different normalisers; `NormalisersAgree` shows that these give every text
the same form: after each turn the loop of `normalise` has written the words and one
space behind every word (`LoopWrites`), which is what `strings.Fields` keeps but for a
space at the end, and that one is trimmed. Its hypothesis, that the text has no space
only `unicode.IsSpace` knows, holds of the store's constants (`TextsAssumption`).
`TypeCorrect` leaves out the queue.

**StandaloneProofs.** Induction over data is done, as in `NormalisersAgree`, by the
least number for which a claim would be false (`LeastNatural`, from the
well-foundedness of the naturals): the loop of `dedupe` exists and keeps every name once (`LoopExists`,
`DedupeNamesOnce`).
`DeliveredStaysListed` needs that the history is the end of what was received and that
the records are in the order of their stamps; `RingAlwaysLatest` that the ring is the
end of what was added, turned by `next` places (`Turned`), and that every ID on its
way to it is an order that exists (`IdsExist`); `TicksAlwaysAccounted` that the ticks
are those dropped, in the channel, in hand and recorded (`TickInv`);
`ConfigAlwaysRunnable` that every part started has a number it can run with.

What proving changed in the models: `dedupe` is a recursive function, the loop it
models, instead of a fold; the results of the load generator are their number and
the set of what was seen instead of a bag; `LogQueryEnd` had two `CASE` arms that were
both true for a slow failed query, which the code decides by their order, and is now
an `IF` in that order; `normaliseSQL` splits at every space that `unicode.IsSpace`
knows, and `normalise` is the loop it models.

Only model-checked: the liveness properties (`ShutdownCompletes`,
`PendingSettles`, `ShutdownEnds`, `AllServe`, `EveryCallReturns`, `LoadEnds`),
because TLAPS here does neither fairness nor ENABLED.

## 6. What is not modelled

* Decoding, validation, paging and JSON of the handlers; what the read-only queries
  return (they are calls of `QueryObservation`, their rows are opaque).
* Values of histograms, bucket boundaries, exemplar text, log text, redaction.
* The strings and flags of `config.Load`, which are passed on unread; flag parsing,
  request bodies, latencies and percentiles of the load generator; what the alert
  sink prints, and its abrupt close on a signal.
* Registration of collectors and the wiring of `metrics/registry.go`: straight-line
  code without state of its own.
* Prometheus rules, dashboards, Logstash and Kibana configuration, scripts:
  third-party programs or read-only tools.

## 7. Plan

Done, in this order, the most important behaviour first: order path and its
abstract lifecycle; proofs; process lifecycle; backlog; migrations with proofs;
middleware; log pipeline with proofs; query observation; configuration, load
generator and alert sink; proofs of every safety property of every run.

Next:

1. Operators for order validation (`domain.NewOrder.Validate`) and for the paging
   parameters, checked against a reference definition, and lemmas about them.
2. Action properties: which steps may move an order, a connection or the level.
