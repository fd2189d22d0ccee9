------------------------------ MODULE Backlog ------------------------------
(***************************************************************************)
(* The cached backlog gauges (worker/backlog.go, metrics/business.go): a    *)
(* refresher counts the orders by status, asks for the age of the oldest    *)
(* pending one, and publishes both with the time of the refresh, while the  *)
(* table moves on as OrderLifecycle lets it.                                *)
(*                                                                         *)
(* Time is a clock of whole units.  A goroutine that is ready runs before   *)
(* the clock moves on, and a query returns before its deadline or fails     *)
(* there.  The error and panic counters are abstracted to whether they have *)
(* moved since the last publication.                                        *)
(***************************************************************************)
EXTENDS OrderLifecycle, Naturals, FiniteSets

CONSTANTS
    Interval,     \* BACKLOG_INTERVAL
    Timeout,      \* the timeout of one refresh
    MaxTime       \* bound: the clock stops here

ASSUME OrdersAssumption   == IsFiniteSet(Orders)
ASSUME IntervalAssumption == Interval \in Nat \ {0}
ASSUME TimeoutAssumption  == Timeout \in Nat
ASSUME MaxTimeAssumption  == MaxTime \in Nat

VARIABLES
    now,          \* the clock
    created,      \* [Orders -> Nat] created_at
    calm,         \* history: orders that have not moved since the refresh began
    ctx,          \* main's signal context
    pc,           \* where the refresher is
    nextTick,     \* when the ticker fires next; 0 before NewTicker
    tick,         \* whether a tick waits in the ticker's channel
    began,        \* when the current refresh began
    counts,       \* what CountOrdersByStatus returned: statuses with rows only
    countedAt,    \* history: when it did
    age,          \* what OldestPendingAge returned
    todo,         \* [Seq(Known)] the statuses SetBacklog has still to set
    gauge,        \* [Known -> Nat] orders_backlog_orders
    shownFrom,    \* history: when the value of each gauge was counted
    oldest,       \* orders_backlog_oldest_age_seconds
    shownBegan,   \* history: when the refresh that set it began
    shownCalm,    \* history: orders that have not moved since then
    refreshedAt,  \* orders_backlog_last_refresh_timestamp_seconds
    told          \* the error or panic counter moved since refreshedAt was set

tableVars  == <<lifecycleVars, created, calm, shownCalm>>
localVars  == <<began, counts, countedAt, age, todo>>
gaugeVars  == <<gauge, shownFrom, oldest, shownBegan, refreshedAt>>
tickerVars == <<nextTick, tick>>
vars       == <<tableVars, localVars, gaugeVars, tickerVars, now, ctx, pc, told>>

\* domain.AllStatuses, in the order SetBacklog visits them.
AllStatuses == <<"pending", "processing", "paid", "failed", "cancelled">>
Known == {AllStatuses[i] : i \in 1..Len(AllStatuses)}
Busy  == {"counting", "ageing", "publishing", "stamping"}

Rows(s) == {o \in Orders : status[o] = s}
MinOf(S) == CHOOSE x \in S : \A y \in S : x <= y

\* Type correctness of the whole state.
TypeOK ==
    /\ status \in [Orders -> Statuses] /\ charges \in [Orders -> Seq(Outcomes)]
    /\ created \in [Orders -> Nat] /\ calm \subseteq Orders /\ shownCalm \subseteq Orders
    /\ now \in Nat /\ ctx \in {"live", "cancelled"} /\ pc \in Busy \cup {"waiting", "stopped"}
    /\ nextTick \in Nat /\ tick \in BOOLEAN
    /\ began \in Nat /\ countedAt \in Nat /\ age \in Nat /\ todo \in Seq(Known)
    /\ DOMAIN counts \subseteq Known /\ \A s \in DOMAIN counts : counts[s] \in Nat
    /\ gauge \in [Known -> Nat] /\ shownFrom \in [Known -> Nat]
    /\ oldest \in Nat /\ shownBegan \in Nat /\ refreshedAt \in Nat
    /\ told \in BOOLEAN
-----------------------------------------------------------------------------
\* The handlers and workers of all replicas, until the gauges are gone with the
\* process that shows them.
Table ==
    /\ pc # "stopped"
    /\ LifecycleNext
    /\ created' = [o \in Orders |-> IF status[o] = "new" /\ status'[o] # "new" THEN now ELSE created[o]]
    /\ LET moved == {o \in Orders : status'[o] # status[o]}
       IN  calm' = calm \ moved /\ shownCalm' = shownCalm \ moved
    /\ UNCHANGED <<localVars, gaugeVars, tickerVars, now, ctx, pc, told>>

\* The clock.  The ticker's channel holds one tick; a second one is dropped.
Advance ==
    /\ now < MaxTime
    /\ pc \in Busy => now < began + Timeout
    /\ pc = "waiting" => ~tick /\ ctx = "live"
    /\ pc # "stopped"
    /\ now' = now + 1
    /\ IF nextTick = now + 1
       THEN tick' = TRUE /\ nextTick' = nextTick + Interval
       ELSE UNCHANGED tickerVars
    /\ UNCHANGED <<tableVars, localVars, gaugeVars, ctx, pc, told>>

Shutdown ==
    /\ ctx = "live"
    /\ ctx' = "cancelled"
    /\ UNCHANGED <<tableVars, localVars, gaugeVars, tickerVars, now, pc, told>>
-----------------------------------------------------------------------------
(* BacklogRefresher.Run and refresh. *)

\* refresh returns to Run, which makes its ticker after the first one.
\* Its locals go out of scope.
BackToRun ==
    /\ pc' = "waiting"
    /\ began' = 0 /\ counts' = <<>> /\ countedAt' = 0 /\ age' = 0 /\ todo' = <<>>
    /\ IF nextTick = 0 THEN nextTick' = now + Interval /\ UNCHANGED tick ELSE UNCHANGED tickerVars

\* Run's select takes the tick.
Begin ==
    /\ pc = "waiting" /\ tick
    /\ pc' = "counting" /\ tick' = FALSE /\ began' = now
    /\ calm' = Orders
    /\ UNCHANGED <<lifecycleVars, created, shownCalm, counts, countedAt, age, todo, gaugeVars, nextTick, now, ctx, told>>

\* Run's select takes ctx.Done().
Stop ==
    /\ pc = "waiting" /\ ctx = "cancelled"
    /\ pc' = "stopped"
    /\ UNCHANGED <<tableVars, localVars, gaugeVars, tickerVars, now, ctx, told>>

\* SELECT status, count(*) ... GROUP BY status
Count ==
    /\ pc = "counting"
    /\ counts' = [s \in {x \in Known : Rows(x) # {}} |-> Cardinality(Rows(s))]
    /\ countedAt' = now
    /\ pc' = "ageing"
    /\ UNCHANGED <<tableVars, began, age, todo, gaugeVars, tickerVars, now, ctx, told>>

\* mutant: the age of the newest pending order
PendingAgeNewest ==
    IF Rows("pending") = {} THEN 0
    ELSE MinOf({now - created[o] : o \in Rows("pending")})

\* COALESCE(now() - MIN(created_at), 0) ... WHERE status = 'pending'
PendingAge ==
    IF Rows("pending") = {} THEN 0
    ELSE now - MinOf({created[o] : o \in Rows("pending")})

OldestAge ==
    /\ pc = "ageing"
    /\ age'  = PendingAge
    /\ todo' = AllStatuses
    /\ pc'   = "publishing"
    /\ UNCHANGED <<tableVars, began, counts, countedAt, gaugeVars, tickerVars, now, ctx, told>>

\* mutant: the error paths of refresh do not count
CountedPanicOnly(why) == told' = (told \/ why = "panic")

\* BacklogRefreshFailed, or WorkerPanic from the deferred recover.
Counted(why) == told' = TRUE

\* A query fails: at its deadline, by a database error, or because the context
\* was cancelled.  The gauges keep their values.
Fail ==
    /\ pc \in {"counting", "ageing"}
    /\ Counted("error")
    /\ BackToRun
    /\ UNCHANGED <<tableVars, gaugeVars, now, ctx>>

\* A panic anywhere in refresh is recovered.
Panic ==
    /\ pc \in Busy
    /\ Counted("panic")
    /\ BackToRun
    /\ UNCHANGED <<tableVars, gaugeVars, now, ctx>>

\* mutant: the loop visits the rows of the result instead of the known statuses
SetGaugeReturned(s) ==
    /\ pc = "publishing" /\ todo # <<>> /\ s = Head(todo)
    /\ todo' = Tail(todo)
    /\ gauge' = IF s \in DOMAIN counts THEN [gauge EXCEPT ![s] = counts[s]] ELSE gauge
    /\ shownFrom' = IF s \in DOMAIN counts THEN [shownFrom EXCEPT ![s] = countedAt] ELSE shownFrom
    /\ UNCHANGED <<tableVars, began, counts, countedAt, age, oldest, shownBegan, refreshedAt,
                   tickerVars, now, ctx, pc, told>>

\* SetBacklog: one known status after the other, zero when the map has no entry.
SetGauge(s) ==
    /\ pc = "publishing" /\ todo # <<>> /\ s = Head(todo)
    /\ todo'      = Tail(todo)
    /\ gauge'     = [gauge EXCEPT ![s] = IF s \in DOMAIN counts THEN counts[s] ELSE 0]
    /\ shownFrom' = [shownFrom EXCEPT ![s] = countedAt]
    /\ UNCHANGED <<tableVars, began, counts, countedAt, age, oldest, shownBegan, refreshedAt,
                   tickerVars, now, ctx, pc, told>>

\* After the statuses SetBacklog sets the age.
SetOldest ==
    /\ pc = "publishing" /\ todo = <<>>
    /\ oldest' = age /\ shownBegan' = began /\ shownCalm' = calm
    /\ pc' = "stamping"
    /\ UNCHANGED <<lifecycleVars, created, calm, localVars, gauge, shownFrom, refreshedAt,
                   tickerVars, now, ctx, told>>

\* Last comes the time of the refresh, with which it is published.
SetTimestamp ==
    /\ pc = "stamping"
    /\ refreshedAt' = now
    /\ told' = FALSE
    /\ BackToRun
    /\ UNCHANGED <<tableVars, gauge, shownFrom, oldest, shownBegan, now, ctx>>
-----------------------------------------------------------------------------
\* The process starts at time 0 and Run refreshes at once.
Init ==
    /\ LifecycleInit
    /\ created = [o \in Orders |-> 0] /\ calm = Orders /\ shownCalm = {}
    /\ now = 0 /\ ctx = "live" /\ pc = "counting"
    /\ nextTick = 0 /\ tick = FALSE
    /\ began = 0 /\ counts = <<>> /\ countedAt = 0 /\ age = 0 /\ todo = <<>>
    /\ gauge = [s \in Known |-> 0] /\ shownFrom = [s \in Known |-> 0]
    /\ oldest = 0 /\ shownBegan = 0 /\ refreshedAt = 0
    /\ told = FALSE

Refresher ==
    \/ Begin \/ Stop \/ Count \/ OldestAge \/ Fail \/ Panic \/ SetOldest \/ SetTimestamp
    \/ \E s \in Known : SetGauge(s)

Next == Table \/ Advance \/ Shutdown \/ Refresher

Spec == Init /\ [][Next]_vars
-----------------------------------------------------------------------------
(* The timestamp is an honest freshness signal even for a scrape that lands in *)
(* the middle of SetBacklog: every count on display was taken, and the refresh *)
(* that asked for the age on display began, at most Timeout before the         *)
(* timestamp on display, statuses without orders included.                     *)
TimestampNeverAhead ==
    /\ \A s \in Known : refreshedAt <= shownFrom[s] + Timeout
    /\ refreshedAt <= shownBegan + Timeout

(* When no order has moved since the published refresh began, the gauges are    *)
(* exact: an emptied status reads zero, and no order is counted twice.         *)
GaugesExactAtRest ==
    pc = "waiting" /\ ~told /\ shownCalm = Orders =>
        \A s \in Known : gauge[s] = Cardinality(Rows(s))

(* "A frozen plausible number reads as calm": a running refresher that has not *)
(* published for more than Interval + Timeout has moved the error or the panic *)
(* counter since.                                                              *)
FrozenIsNotSilent ==
    ctx = "live" /\ now > refreshedAt + Interval + Timeout => told

(* The published age covers every order that has been pending since before the *)
(* refresh began, releases included.                                           *)
NoPendingOrderHidden ==
    \A o \in Orders :
        o \in shownCalm /\ status[o] = "pending" => oldest + created[o] >= shownBegan

(* worker.guard: "let OrdersBacklogAgeHigh catch the stranded row" - the age   *)
(* the alert reads covers an order that has been in processing since before    *)
(* the refresh began.                                                          *)
StrandedOrderIsSeen ==
    \A o \in Orders :
        o \in shownCalm /\ status[o] = "processing" => oldest + created[o] >= shownBegan
============================================================================
