-------------------------- MODULE OrderProcessing --------------------------
(***************************************************************************)
(* The path of an order through the service: the create handler inserts it *)
(* (httpapi/handlers.go), the workers of several replicas claim it, attempt *)
(* the payment and write the outcome (worker/worker.go), all through SQL    *)
(* statements that run on Postgres sessions (store/orders.go).              *)
(*                                                                         *)
(* A statement and its client are two processes.  The server locks and     *)
(* commits at its own pace; the client may stop waiting (shutdown, the 5 s  *)
(* write timeout, a dropped connection, a crash) while the statement still *)
(* runs, and the statement may then commit with nobody left to hear of it. *)
(***************************************************************************)
EXTENDS Integers, FiniteSets, Sequences

CONSTANTS
    Workers,      \* one background worker per replica
    Orders,       \* numbers: the created_at stamps of the orders ever built
    Sessions,     \* Postgres backends available to the replicas' pools
    BatchSize,    \* worker.Config.BatchSize
    FaultKinds,   \* which faults a behaviour may contain
    MaxFaults     \* bound: how many of them

ASSUME OrdersAssumption    == Orders \subseteq Nat
ASSUME BatchSizeAssumption == BatchSize \in Nat \ {0}
ASSUME MaxFaultsAssumption == MaxFaults \in Nat
ASSUME FiniteAssumption    == IsFiniteSet(Orders) /\ IsFiniteSet(Sessions)
ASSUME OwnersAssumption    == {"api", "gone"} \cap Workers = {}

VARIABLES
    \* Postgres
    status,       \* [Orders -> Statuses] the orders table; "new" = no row yet
    stmt,         \* [Sessions -> Statement] what each session is executing
    \* the create handler, one request per order
    req,          \* [Orders -> Requests]
    \* the workers
    pc,           \* [Workers -> Locations] where Run / runOnce / processOne is
    ctx,          \* [Workers -> {"live", "cancelled"}] main's signal context
    batch,        \* [Workers -> SUBSET Orders] claimed, not yet begun
    cur,          \* [Workers -> SUBSET Orders] the order in processOne, if any
    outcome,      \* [Workers -> Targets] the status processOne will write;
                  \* "pending" when it has none in scope
    run,          \* [Workers -> RunStates] how the last runOnce ended: a WorkerRun,
                  \* or a panic whose guard moved WorkerPanic only
    \* what the metrics say, and what they should say
    counted,      \* [Orders -> [Transitions -> Nat]] increments of the counters
    happened,     \* history: transitions that Postgres committed
    charges,      \* history: payment attempts that completed
    faults        \* bound: faults injected so far

dbVars     == <<status, stmt, happened>>
workerVars == <<pc, ctx, batch, cur, outcome, run>>
vars       == <<dbVars, req, workerVars, counted, charges, faults>>
-----------------------------------------------------------------------------
Outcomes    == {"paid", "failed"}
Statuses    == {"new", "pending", "processing"} \cup Outcomes
Targets     == Outcomes \cup {"pending"}
Transitions == {"create", "claim", "release"} \cup Outcomes
Requests    == {"unsent", "inserting", "created", "failed"}
Locations   == {"idle", "claiming", "claimwait", "batch", "working",
                "marking", "markwait", "stopped", "down"}
RunStates   == {"open", "recorded", "panicked"}

\* One SQL statement on a session: which query, how far the server is with it,
\* the rows it is about, the status it writes, and the client that waits for it
\* ("gone" when nobody does any more).
Statement ==
    [kind  : {"free", "insert", "claim", "mark"},
     phase : {"sent", "locked", "committed", "conflict", "aborted"},
     rows  : SUBSET Orders,
     to    : Statuses,
     owner : Workers \cup {"api", "gone"}]

Free ==
    [kind |-> "free", phase |-> "sent", rows |-> {}, to |-> "new", owner |-> "gone"]

Query(kind, rows, to, owner) ==
    [kind |-> kind, phase |-> "sent", rows |-> rows, to |-> to, owner |-> owner]

\* The client stops waiting.  A statement the server has not finished runs on;
\* a finished one is simply forgotten with its connection.
Abandon(q) == IF q.phase \in {"sent", "locked"} THEN [q EXCEPT !.owner = "gone"] ELSE Free

Disown(w) ==
    [s \in Sessions |-> IF stmt[s].owner = w THEN Abandon(stmt[s]) ELSE stmt[s]]

\* The server finishes the statement of session s; the reply waits for the owner.
Finish(s, phase) ==
    IF stmt[s].owner = "gone" THEN Free ELSE [stmt[s] EXCEPT !.phase = phase]

Transition(to) == IF to = "pending" THEN "release" ELSE to

\* One more increment of transition t for each order of a set.
Bump(ledger, os, t) ==
    [o \in Orders |-> IF o \in os THEN [ledger[o] EXCEPT ![t] = @ + 1] ELSE ledger[o]]

\* mutant: any answer of the server counts
CountsAny(phase) == TRUE

\* mutant: the counter call is on the wrong branch
CountsConflict(phase) == phase = "conflict"

\* The counters follow the commit: nothing is counted for a statement that failed
\* or that moved no row.
Counts(phase) == phase = "committed"

Fault(kind) ==
    /\ kind \in FaultKinds
    /\ faults < MaxFaults
    /\ faults' = faults + 1
-----------------------------------------------------------------------------
(* httpapi.createOrder: the request was decoded and validated (other modules) *)
(* and the order built.                                                      *)

\* store.CreateOrder sends the INSERT.
SendInsert(o, s) ==
    /\ req[o] = "unsent"
    /\ stmt[s] = Free
    /\ req'  = [req EXCEPT ![o] = "inserting"]
    /\ stmt' = [stmt EXCEPT ![s] = Query("insert", {o}, "pending", "api")]
    /\ UNCHANGED <<status, happened, workerVars, counted, charges, faults>>

\* CreateOrder returns: 201 and the created counter, or 500 and nothing.
InsertReply(o, s) ==
    /\ stmt[s].kind = "insert" /\ stmt[s].rows = {o} /\ stmt[s].owner = "api"
    /\ stmt[s].phase \in {"committed", "aborted"}
    /\ req'     = [req EXCEPT ![o] = IF stmt[s].phase = "committed" THEN "created" ELSE "failed"]
    /\ counted' = IF Counts(stmt[s].phase) THEN Bump(counted, {o}, "create") ELSE counted
    /\ stmt' = [stmt EXCEPT ![s] = Free]
    /\ UNCHANGED <<status, happened, workerVars, charges, faults>>

\* The request's context ends before the reply (the client hangs up, the
\* connection drops, the replica dies): CreateOrder returns an error.
InsertAbandoned(o, s) ==
    /\ Fault("disconnect")
    /\ stmt[s].kind = "insert" /\ stmt[s].rows = {o} /\ stmt[s].owner = "api"
    /\ req'  = [req EXCEPT ![o] = "failed"]
    /\ stmt' = [stmt EXCEPT ![s] = Abandon(@)]
    /\ UNCHANGED <<status, happened, workerVars, counted, charges>>
-----------------------------------------------------------------------------
(* Postgres.                                                               *)

\* Rows that a running claim has locked and not yet committed.
Locked == UNION {stmt[s].rows : s \in {x \in Sessions : stmt[x].phase = "locked"}}

\* mutant: no SKIP LOCKED
ClaimableLocked == {o \in Orders : status[o] = "pending"}

\* mutant: no WHERE status = 'pending'
ClaimableAny == {o \in Orders : status[o] # "new"} \ Locked

\* WHERE status = 'pending' ... FOR UPDATE SKIP LOCKED
Claimable == {o \in Orders : status[o] = "pending"} \ Locked

\* mutant: LIMIT is one short
OldestButOne(os, n) == {o \in os : Cardinality({p \in os : p < o}) < n - 1}

\* ORDER BY created_at LIMIT n
Oldest(os, n) == {o \in os : Cardinality({p \in os : p < o}) < n}

\* qClaimPending's subquery locks the rows it returns.
ClaimLock(s) ==
    /\ stmt[s].kind = "claim" /\ stmt[s].phase = "sent"
    /\ stmt' = [stmt EXCEPT ![s] = [@ EXCEPT !.phase = "locked",
                                             !.rows  = Oldest(Claimable, BatchSize)]]
    /\ UNCHANGED <<status, happened, req, workerVars, counted, charges, faults>>

\* qClaimPending's UPDATE commits for the locked rows.
ClaimCommit(s) ==
    /\ stmt[s].kind = "claim" /\ stmt[s].phase = "locked"
    /\ status'   = [o \in Orders |-> IF o \in stmt[s].rows THEN "processing" ELSE status[o]]
    /\ happened' = Bump(happened, stmt[s].rows, "claim")
    /\ stmt'     = [stmt EXCEPT ![s] = Finish(s, "committed")]
    /\ UNCHANGED <<req, workerVars, counted, charges, faults>>

\* qMarkOrderStatus: UPDATE ... WHERE id = $1 AND status = 'processing'.
MarkCommit(s) ==
    /\ stmt[s].kind = "mark" /\ stmt[s].phase = "sent"
    /\ LET hit == {o \in stmt[s].rows : status[o] = "processing"}
       IN  /\ status'   = [o \in Orders |-> IF o \in hit THEN stmt[s].to ELSE status[o]]
           /\ happened' = Bump(happened, hit, Transition(stmt[s].to))
           /\ stmt'     = [stmt EXCEPT ![s] =
                             Finish(s, IF hit = {} THEN "conflict" ELSE "committed")]
    /\ UNCHANGED <<req, workerVars, counted, charges, faults>>

\* qInsertOrder.
InsertCommit(s) ==
    /\ stmt[s].kind = "insert" /\ stmt[s].phase = "sent"
    /\ status'   = [o \in Orders |-> IF o \in stmt[s].rows THEN stmt[s].to ELSE status[o]]
    /\ happened' = Bump(happened, stmt[s].rows, "create")
    /\ stmt'     = [stmt EXCEPT ![s] = Finish(s, "committed")]
    /\ UNCHANGED <<req, workerVars, counted, charges, faults>>

\* A statement fails and releases its locks: a database error, or the cancel
\* request that pgx sends for a statement its client abandoned.
Abort(s) ==
    /\ stmt[s].kind # "free" /\ stmt[s].phase \in {"sent", "locked"}
    /\ \/ stmt[s].owner = "gone" /\ UNCHANGED faults
       \/ stmt[s].owner # "gone" /\ Fault("dberror")
    /\ stmt' = [stmt EXCEPT ![s] = Finish(s, "aborted")]
    /\ UNCHANGED <<status, happened, req, workerVars, counted, charges>>
-----------------------------------------------------------------------------
(* worker.Run and worker.runOnce.                                          *)

\* Run's select takes the tick; runOnce begins.  The select may do so even when
\* ctx.Done() is ready too.
Tick(w) ==
    /\ pc[w] = "idle"
    /\ pc'  = [pc EXCEPT ![w] = "claiming"]
    /\ run' = [run EXCEPT ![w] = "open"]
    /\ UNCHANGED <<dbVars, req, ctx, batch, cur, outcome, counted, charges, faults>>

\* Run's select takes ctx.Done().
Stop(w) ==
    /\ pc[w] = "idle" /\ ctx[w] = "cancelled"
    /\ pc' = [pc EXCEPT ![w] = "stopped"]
    /\ UNCHANGED <<dbVars, req, ctx, batch, cur, outcome, run, counted, charges, faults>>

\* ClaimPendingOrders acquires a connection and sends the claim.
SendClaim(w, s) ==
    /\ pc[w] = "claiming" /\ ctx[w] = "live"
    /\ stmt[s] = Free
    /\ pc'   = [pc EXCEPT ![w] = "claimwait"]
    /\ stmt' = [stmt EXCEPT ![s] = Query("claim", {}, "processing", w)]
    /\ UNCHANGED <<status, happened, req, ctx, batch, cur, outcome, run, counted, charges, faults>>

\* ClaimPendingOrders returns the claimed rows: an empty batch ends the run, a
\* full one is counted as claimed before any order is begun.
ClaimReply(w, s) ==
    /\ pc[w] = "claimwait"
    /\ stmt[s].owner = w /\ stmt[s].phase = "committed"
    /\ batch' = [batch EXCEPT ![w] = stmt[s].rows]
    /\ IF stmt[s].rows = {}
       THEN pc' = [pc EXCEPT ![w] = "idle"] /\ run' = [run EXCEPT ![w] = "recorded"]
       ELSE pc' = [pc EXCEPT ![w] = "batch"] /\ UNCHANGED run
    /\ counted' = Bump(counted, stmt[s].rows, "claim")
    /\ stmt'    = [stmt EXCEPT ![s] = Free]
    /\ UNCHANGED <<status, happened, req, ctx, cur, outcome, charges, faults>>

\* mutant: the claim runs on a detached context
ClaimDetached(w) == pc[w] = "claiming" /\ ctx[w] = "cancelled"

\* The claim's context is cancelled, before it is sent or while it runs.
ClaimInterrupted(w) == pc[w] \in {"claiming", "claimwait"} /\ ctx[w] = "cancelled"

\* mutant: if err != nil { return }
SilentAlways(w) == TRUE

\* if ctx.Err() != nil { return }
Silent(w) == ctx[w] = "cancelled"

\* runOnce's error branch: silent when the context is gone, else an "error" run.
\* ClaimPendingOrders fails because the context is cancelled, because the server
\* said so, or because the connection broke.
ClaimError(w) ==
    /\ \/ ClaimInterrupted(w) /\ UNCHANGED faults
       \/ /\ pc[w] = "claimwait" /\ UNCHANGED faults
          /\ \E s \in Sessions : stmt[s].owner = w /\ stmt[s].phase = "aborted"
       \/ pc[w] = "claimwait" /\ Fault("connloss")
    /\ stmt' = Disown(w)
    /\ pc'   = [pc EXCEPT ![w] = "idle"]
    /\ run'  = IF Silent(w) THEN run ELSE [run EXCEPT ![w] = "recorded"]
    /\ UNCHANGED <<status, happened, req, ctx, batch, cur, outcome, counted, charges>>

\* A panic in the claim or in the loop reaches runOnce's guard, which moves
\* WorkerPanic and logs; no WorkerRun is recorded and the rest of the batch is
\* dropped.
BatchPanic(w) ==
    /\ Fault("panic")
    /\ pc[w] \in {"claimwait", "batch"}
    /\ stmt'  = Disown(w)
    /\ pc'    = [pc EXCEPT ![w] = "idle"]
    /\ batch' = [batch EXCEPT ![w] = {}]
    /\ run'   = [run EXCEPT ![w] = "panicked"]
    /\ UNCHANGED <<status, happened, req, ctx, cur, outcome, counted, charges>>

\* The loop takes the next order.  RETURNING promises no order.
Begin(w, o) ==
    /\ pc[w] = "batch" /\ o \in batch[w]
    /\ pc'    = [pc EXCEPT ![w] = "working"]
    /\ batch' = [batch EXCEPT ![w] = @ \ {o}]
    /\ cur'   = [cur EXCEPT ![w] = {o}]
    /\ UNCHANGED <<dbVars, req, ctx, outcome, run, counted, charges, faults>>

\* The loop is done: WorkerRun("ok").
EndRun(w) ==
    /\ pc[w] = "batch" /\ batch[w] = {}
    /\ pc'  = [pc EXCEPT ![w] = "idle"]
    /\ run' = [run EXCEPT ![w] = "recorded"]
    /\ UNCHANGED <<dbVars, req, ctx, batch, cur, outcome, counted, charges, faults>>
-----------------------------------------------------------------------------
(* worker.processOne and worker.simulatePayment.                           *)

\* mutant: a cancelled context alone releases the order
StatusIgnoringErr(w, result, err) == IF ctx[w] = "cancelled" THEN "pending" ELSE result

\* mutant: an interrupted attempt counts as a failed one
StatusIgnoringCancel(w, result, err) == IF err THEN "failed" ELSE result

\* What processOne writes once process has returned (result, err).
StatusToWrite(w, result, err) ==
    IF err /\ ctx[w] = "cancelled" THEN "pending" ELSE IF err THEN "failed" ELSE result

\* The payment attempt completes.  It may do so although the context was
\* cancelled meanwhile: the select picks either ready case.
Charge(w, result) ==
    /\ pc[w] = "working"
    /\ pc'      = [pc EXCEPT ![w] = "marking"]
    /\ outcome' = [outcome EXCEPT ![w] = StatusToWrite(w, result, FALSE)]
    /\ charges' = [o \in Orders |-> IF o \in cur[w] THEN Append(charges[o], result) ELSE charges[o]]
    /\ UNCHANGED <<dbVars, req, ctx, batch, cur, run, counted, faults>>

\* mutant: the release runs on the cancelled context and fails unsent
InterruptDropped(w) ==
    /\ pc[w] = "working" /\ ctx[w] = "cancelled"
    /\ pc'  = [pc EXCEPT ![w] = "batch"]
    /\ cur' = [cur EXCEPT ![w] = {}]
    /\ UNCHANGED <<dbVars, req, ctx, batch, outcome, run, counted, charges, faults>>

\* The context is cancelled before the attempt completes: simulatePayment returns
\* (pending, ctx.Err()), and no charge was made.
Interrupt(w) ==
    /\ pc[w] = "working" /\ ctx[w] = "cancelled"
    /\ pc'      = [pc EXCEPT ![w] = "marking"]
    /\ outcome' = [outcome EXCEPT ![w] = StatusToWrite(w, "pending", TRUE)]
    /\ UNCHANGED <<dbVars, req, ctx, batch, cur, run, counted, charges, faults>>

\* The attempt panics; processOne's guard recovers, the loop goes on.
ProcessPanic(w) ==
    /\ Fault("panic")
    /\ pc[w] = "working"
    /\ pc'  = [pc EXCEPT ![w] = "batch"]
    /\ cur' = [cur EXCEPT ![w] = {}]
    /\ UNCHANGED <<dbVars, req, ctx, batch, outcome, run, counted, charges>>

\* MarkOrder acquires a connection and sends the update, on the detached context.
SendMark(w, s) ==
    /\ pc[w] = "marking"
    /\ stmt[s] = Free
    /\ pc'   = [pc EXCEPT ![w] = "markwait"]
    /\ cur'  = [cur EXCEPT ![w] = {}]
    /\ outcome' = [outcome EXCEPT ![w] = "pending"]
    /\ stmt' = [stmt EXCEPT ![s] = Query("mark", cur[w], outcome[w], w)]
    /\ UNCHANGED <<status, happened, req, ctx, batch, run, counted, charges, faults>>

\* MarkOrder returns: only a row that was really moved is counted.
MarkReply(w, s) ==
    /\ pc[w] = "markwait"
    /\ stmt[s].owner = w /\ stmt[s].phase \in {"committed", "conflict", "aborted"}
    /\ pc'      = [pc EXCEPT ![w] = "batch"]
    /\ counted' = IF Counts(stmt[s].phase)
                  THEN Bump(counted, stmt[s].rows, Transition(stmt[s].to)) ELSE counted
    /\ stmt'    = [stmt EXCEPT ![s] = Free]
    /\ UNCHANGED <<status, happened, req, ctx, batch, cur, outcome, run, charges, faults>>

\* mutant: a write that timed out is tried again
MarkTimeoutRetried(w) ==
    /\ "timeout" \in FaultKinds
    /\ pc[w] = "markwait"
    /\ \E s \in Sessions :
        /\ stmt[s].owner = w
        /\ cur' = [cur EXCEPT ![w] = stmt[s].rows]
        /\ outcome' = [outcome EXCEPT ![w] = stmt[s].to]
    /\ pc'   = [pc EXCEPT ![w] = "marking"]
    /\ stmt' = Disown(w)
    /\ UNCHANGED <<status, happened, req, ctx, batch, run, counted, charges, faults>>

\* The 5 s of the write context pass, in the pool's queue or on the wire.
MarkTimeout(w) ==
    /\ "timeout" \in FaultKinds
    /\ pc[w] \in {"marking", "markwait"}
    /\ pc'   = [pc EXCEPT ![w] = "batch"]
    /\ cur'  = [cur EXCEPT ![w] = {}]
    /\ outcome' = [outcome EXCEPT ![w] = "pending"]
    /\ stmt' = Disown(w)
    /\ UNCHANGED <<status, happened, req, ctx, batch, run, counted, charges, faults>>
-----------------------------------------------------------------------------
(* The replica's process (cmd/api/main.go, docker-compose.yml).            *)

\* SIGTERM: main cancels the context that Run was given.
Shutdown(w) ==
    /\ Fault("shutdown")
    /\ ctx[w] = "live" /\ pc[w] \notin {"stopped", "down"}
    /\ ctx' = [ctx EXCEPT ![w] = "cancelled"]
    /\ UNCHANGED <<dbVars, req, pc, batch, cur, outcome, run, counted, charges>>

\* The process dies; what it sent to Postgres stays sent.
Crash(w) ==
    /\ Fault("crash")
    /\ pc[w] \notin {"stopped", "down"}
    /\ pc'    = [pc EXCEPT ![w] = "down"]
    /\ batch' = [batch EXCEPT ![w] = {}]
    /\ cur'   = [cur EXCEPT ![w] = {}]
    /\ outcome' = [outcome EXCEPT ![w] = "pending"]
    /\ stmt'  = Disown(w)
    /\ UNCHANGED <<status, happened, req, ctx, run, counted, charges>>

\* restart: unless-stopped, or the next deployment.
Restart(w) ==
    /\ pc[w] \in {"stopped", "down"}
    /\ pc'  = [pc EXCEPT ![w] = "idle"]
    /\ ctx' = [ctx EXCEPT ![w] = "live"]
    /\ run' = [run EXCEPT ![w] = "recorded"]
    /\ UNCHANGED <<dbVars, req, batch, cur, outcome, counted, charges, faults>>
-----------------------------------------------------------------------------
Init ==
    /\ status   = [o \in Orders |-> "new"]
    /\ stmt     = [s \in Sessions |-> Free]
    /\ req      = [o \in Orders |-> "unsent"]
    /\ pc       = [w \in Workers |-> "idle"]
    /\ ctx      = [w \in Workers |-> "live"]
    /\ batch    = [w \in Workers |-> {}]
    /\ cur      = [w \in Workers |-> {}]
    /\ outcome  = [w \in Workers |-> "pending"]
    /\ run      = [w \in Workers |-> "recorded"]
    /\ counted  = [o \in Orders |-> [t \in Transitions |-> 0]]
    /\ happened = [o \in Orders |-> [t \in Transitions |-> 0]]
    /\ charges  = [o \in Orders |-> <<>>]
    /\ faults   = 0

Handler(o, s) == SendInsert(o, s) \/ InsertReply(o, s) \/ InsertAbandoned(o, s)

Server(s) == ClaimLock(s) \/ ClaimCommit(s) \/ MarkCommit(s) \/ InsertCommit(s) \/ Abort(s)

\* The steps a worker takes by itself.
WorkerStep(w) ==
    \/ Tick(w) \/ Stop(w) \/ ClaimError(w) \/ EndRun(w) \/ Interrupt(w)
    \/ \E o \in Orders : Begin(w, o)
    \/ \E result \in Outcomes : Charge(w, result)
    \/ \E s \in Sessions : SendClaim(w, s) \/ ClaimReply(w, s) \/ SendMark(w, s) \/ MarkReply(w, s)

\* What is done to it.
WorkerFault(w) ==
    BatchPanic(w) \/ ProcessPanic(w) \/ MarkTimeout(w) \/ Shutdown(w) \/ Crash(w)

Next ==
    \/ \E o \in Orders, s \in Sessions : Handler(o, s)
    \/ \E s \in Sessions : Server(s)
    \/ \E w \in Workers : WorkerStep(w) \/ WorkerFault(w) \/ Restart(w)

Spec == Init /\ [][Next]_vars

\* A worker's goroutine keeps running, Go's select is random, so a ready
\* ctx.Done() is taken in the end, and the write context's timer fires.
WorkerFairness ==
    \A w \in Workers :
        WF_vars(WorkerStep(w)) /\ SF_vars(Stop(w)) /\ WF_vars(MarkTimeout(w))

\* Postgres finishes what it started, the pool's queue is first come first
\* served, and a replica that went away comes back.
ServiceFairness ==
    /\ \A s \in Sessions : WF_vars(Server(s))
    /\ \A o \in Orders : WF_vars(\E s \in Sessions : SendInsert(o, s) \/ InsertReply(o, s))
    /\ \A w \in Workers :
        /\ SF_vars(\E s \in Sessions : SendClaim(w, s))
        /\ SF_vars(\E s \in Sessions : SendMark(w, s))
        /\ WF_vars(Restart(w))

\* Postgres may hang for ever and replicas may stay away: only the workers are fair.
FairSpec == Spec /\ WorkerFairness
-----------------------------------------------------------------------------
(* Who is responsible for a processing order.                              *)

Holds(w) == batch[w] \cup cur[w]

\* A claim whose reply is on its way, or an update the server has yet to run.
Carries(s) ==
    IF \/ stmt[s].kind = "claim" /\ stmt[s].phase = "committed"
       \/ stmt[s].kind = "mark" /\ stmt[s].phase = "sent"
    THEN stmt[s].rows ELSE {}

Stranded(o) ==
    /\ status[o] = "processing"
    /\ \A w \in Workers : o \notin Holds(w)
    /\ \A s \in Sessions : o \notin Carries(s)
-----------------------------------------------------------------------------
(* Type correctness of the whole state. *)
TypeOK ==
    /\ status   \in [Orders -> Statuses]
    /\ stmt     \in [Sessions -> Statement]
    /\ req      \in [Orders -> Requests]
    /\ pc       \in [Workers -> Locations]
    /\ ctx      \in [Workers -> {"live", "cancelled"}]
    /\ batch    \in [Workers -> SUBSET Orders]
    /\ cur      \in [Workers -> SUBSET Orders]
    /\ outcome  \in [Workers -> Targets]
    /\ run      \in [Workers -> RunStates]
    /\ counted  \in [Orders -> [Transitions -> Nat]]
    /\ happened \in [Orders -> [Transitions -> Nat]]
    /\ charges  \in [Orders -> Seq(Outcomes)]
    /\ faults   \in 0..MaxFaults

(* FOR UPDATE SKIP LOCKED and the status guard of qMarkOrderStatus give every *)
(* processing order at most one party that may still act on it - a worker's   *)
(* batch, a claim's reply or an update in flight, abandoned or not - and      *)
(* nobody may act on an order that is not processing.                         *)
ExclusiveCustody ==
    /\ \A w \in Workers : \A o \in Holds(w) : status[o] = "processing"
    /\ \A s \in Sessions : \A o \in Carries(s) : status[o] = "processing"
    /\ \A w, v \in Workers : w # v => Holds(w) \cap Holds(v) = {}
    /\ \A s, r \in Sessions : s # r => Carries(s) \cap Carries(r) = {}
    /\ \A w \in Workers, s \in Sessions : Holds(w) \cap Carries(s) = {}

(* MarkOrder never finds its row already moved: the ErrConflict that           *)
(* processOne calls expected under concurrency is never returned, whatever    *)
(* times out, crashes or commits late.                                        *)
NeverConflict == \A s \in Sessions : stmt[s].phase # "conflict"

(* No customer is charged twice: an order whose payment attempt completed is  *)
(* never handed to another attempt, even when writing its outcome failed.     *)
ChargedAtMostOnce == \A o \in Orders : Len(charges[o]) <= 1

(* A terminal status is the result of the order's one payment attempt, never  *)
(* that of an interrupted or a foreign one.                                   *)
SettledAsCharged ==
    \A o \in Orders : status[o] \in Outcomes => charges[o] = <<status[o]>>

(* createOrder, runOnce and processOne count a transition only after its      *)
(* commit: no counter is ever ahead of the table, order by order.             *)
NeverOvercounted ==
    \A o \in Orders, t \in Transitions : counted[o][t] <= happened[o][t]

(* The table and the payments follow the order lifecycle, whatever the        *)
(* replicas, the pool and Postgres do underneath.                             *)
Lifecycle == INSTANCE OrderLifecycle
                WITH Orders <- Orders, status <- status, charges <- charges
ImplementsLifecycle == Lifecycle!LifecycleSpec

(* worker.go:185-187, the counter of runs is the worker's heartbeat: a worker *)
(* that is not shutting down is back in Run's select only with a WorkerRun    *)
(* recorded, or with its panic counted instead where the code can panic.  No  *)
(* failure of the claim, a payment or an update leaves a hole.                *)
HeartbeatUnbroken ==
    \A w \in Workers : pc[w] = "idle" /\ ctx[w] = "live" =>
        run[w] = "recorded" \/ (run[w] = "panicked" /\ "panic" \in FaultKinds)

(* worker.runOnce: "Every exit path records a WorkerRun", for workers that are *)
(* not shutting down.                                                         *)
EveryRunRecorded ==
    \A w \in Workers : pc[w] = "idle" /\ ctx[w] = "live" => run[w] = "recorded"

(* When shutdowns are the only disturbance, an order is stranded in           *)
(* processing only if the reply to its last claim never reached a worker:     *)
(* every order a worker did receive is settled or released.                   *)
DeliveredNeverStranded ==
    \A o \in Orders : Stranded(o) => counted[o]["claim"] < happened[o]["claim"]

(* Where writes do not time out and no other fault has happened yet, no order *)
(* is stranded and, whenever no statement is in flight, the counters agree    *)
(* with the table exactly.  After a fault too, an order whose creation was    *)
(* answered with 201 is counted: what the counter of created orders may miss  *)
(* is only rows whose client was told of an error, or of nothing.             *)
LedgerExact ==
    /\ faults = 0 /\ "timeout" \notin FaultKinds =>
          /\ \A o \in Orders : ~Stranded(o)
          /\ (\A s \in Sessions : stmt[s] = Free) => counted = happened
    /\ \A o \in Orders :
          req[o] = "created" => counted[o]["create"] = 1 /\ happened[o]["create"] = 1

(* Run returns after a shutdown even if Postgres never answers again.         *)
ShutdownCompletes ==
    \A w \in Workers : ctx[w] = "cancelled" ~> pc[w] \in {"stopped", "down"}

(* If Postgres answers and replicas come back, every pending order is settled *)
(* or, through a fault, stranded; it is never passed over for ever and never  *)
(* released for ever.                                                         *)
PendingSettles ==
    ServiceFairness =>
        \A o \in Orders : status[o] = "pending" ~> status[o] \in Outcomes \/ Stranded(o)

(* worker.Run: "a shutdown never leaves orders stranded in `processing`".     *)
ShutdownStrandsNothing ==
    (\A w \in Workers : pc[w] = "stopped") /\ (\A s \in Sessions : stmt[s] = Free)
        => \A o \in Orders : status[o] # "processing"
=============================================================================
