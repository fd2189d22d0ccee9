------------------------- MODULE ServiceLifecycle -------------------------
(***************************************************************************)
(* One replica's process from start to exit: run() of cmd/api/main.go with *)
(* the goroutines it starts - the two HTTP servers, the worker, the backlog *)
(* refresher, the request handlers - and what they share: the signal        *)
(* context, the error channel, the 15 s shutdown context, the connection    *)
(* pool and the span exporter.                                              *)
(***************************************************************************)
EXTENDS Naturals, Sequences

CONSTANTS Requests      \* the API requests that may arrive

Servers    == {"api", "metrics"}
Background == {"worker", "refresher"}

VARIABLES
    main,     \* where run() is
    ctx,      \* the context of signal.NotifyContext
    timer,    \* shutdownCtx: "unset", "running" or "expired"
    server,   \* [Servers -> ServerStates]
    errCh,    \* the error channel
    bg,       \* [Background -> GoStates] the goroutines bg waits for
    request,  \* [Requests -> GoStates] the handlers
    scrape,   \* whether /metrics is being read
    pool,     \* "none", "open", "closing" (Close waits) or "closed"
    tracer,   \* "none", "running" or "shut"
    spans,    \* whether ended spans wait in the batch queue
    lost,     \* history: the Losses that have struck spans
    errs      \* the errors run() has collected

procVars  == <<main, ctx, timer>>
traceVars == <<tracer, spans, lost>>
vars      == <<procVars, server, errCh, bg, request, scrape, pool, traceVars, errs>>

Startup      == {"load", "trace", "open", "migrate", "bindapi", "bindmetrics", "start"}
Teardown     == {"drain", "await", "endmetrics", "flush", "close"}
Gone         == {"exited", "killed"}
ServerStates == {"off", "bound", "up", "failing", "failed", "closed"}
GoStates     == {"off", "idle", "db", "refused", "done"}
Losses       == {"full", "late", "refused", "left"}
-----------------------------------------------------------------------------
(* The batcher. *)

\* A span ends.  It is queued, unless the queue is full; after Shutdown it is dropped.
EndSpan ==
    /\ UNCHANGED tracer
    /\ \/ tracer = "running" /\ spans' = TRUE /\ UNCHANGED lost
       \/ tracer = "running" /\ spans /\ lost' = lost \cup {"full"} /\ UNCHANGED spans
       \/ tracer # "running" /\ lost' = lost \cup {"late"} /\ UNCHANGED spans

\* The collector takes the batch, or the exporter's error goes to the handler that
\* logs it: either way the batch is cleared.
Deliver ==
    /\ spans' = FALSE
    /\ \/ UNCHANGED lost
       \/ spans /\ lost' = lost \cup {"refused"}

\* The batcher's goroutine: every 5 s, and on through a Shutdown that gave up on it.
Export ==
    /\ main \notin Gone /\ spans
    /\ Deliver
    /\ UNCHANGED <<procVars, server, errCh, bg, request, scrape, pool, tracer, errs>>
-----------------------------------------------------------------------------
(* run(), up to the select. *)

Goto(from, to) == main = from /\ main' = to

\* config.Load succeeds.
Load ==
    /\ Goto("load", "trace")
    /\ UNCHANGED <<ctx, timer, server, errCh, bg, request, scrape, pool, traceVars, errs>>

\* tracing.Init.
InitTracing ==
    /\ Goto("trace", "open")
    /\ tracer' = "running"
    /\ UNCHANGED <<ctx, timer, server, errCh, bg, request, scrape, pool, spans, lost, errs>>

\* store.Open pings on the signal context.
OpenStore ==
    /\ Goto("open", "migrate") /\ ctx = "live"
    /\ pool' = "open"
    /\ UNCHANGED <<ctx, timer, server, errCh, bg, request, scrape, traceVars, errs>>

\* st.Migrate runs, on the signal context, queries that are traced.
Migrate ==
    /\ Goto("migrate", "bindapi") /\ ctx = "live"
    /\ EndSpan
    /\ UNCHANGED <<ctx, timer, server, errCh, bg, request, scrape, pool, errs>>

\* net.Listen, twice.
Bind(s, from, to) ==
    /\ Goto(from, to)
    /\ server' = [server EXCEPT ![s] = "bound"]
    /\ UNCHANGED <<ctx, timer, errCh, bg, request, scrape, pool, traceVars, errs>>

\* The background goroutines (WORKER_ENABLED) and the servers are started.
Start(enabled) ==
    /\ Goto("start", "serve")
    /\ server' = [s \in Servers |-> "up"]
    /\ bg' = [b \in Background |-> IF enabled THEN "idle" ELSE "off"]
    /\ UNCHANGED <<ctx, timer, errCh, request, scrape, pool, traceVars, errs>>

\* Any stage may fail: return err, and the deferred st.Close() if there is a pool.
\* A failed metrics bind closes the API listener first.
StartupFails ==
    /\ main \in Startup \ {"start"}
    /\ errs'   = errs \cup {"startup"}
    /\ server' = [s \in Servers |-> "off"]
    /\ main'   = IF pool = "open" THEN "close" ELSE "exited"
    /\ UNCHANGED <<ctx, timer, errCh, bg, request, scrape, pool, traceVars>>

\* SIGTERM or an interrupt.
Signal ==
    /\ main \notin Gone /\ ctx = "live"
    /\ ctx' = "cancelled"
    /\ UNCHANGED <<main, timer, server, errCh, bg, request, scrape, pool, traceVars, errs>>

\* stop() restored the default disposition: another signal ends the process.
Kill ==
    /\ main \in Teardown /\ timer # "unset"
    /\ main' = "killed"
    /\ UNCHANGED <<ctx, timer, server, errCh, bg, request, scrape, pool, traceVars, errs>>
-----------------------------------------------------------------------------
(* The servers' goroutines. *)

\* mutant: room for one error only
ErrChCapOne == 1

ErrChCap == 2

\* Serve returns with an error of its own.
ServeFails(s) ==
    /\ main \notin Gone /\ server[s] = "up"
    /\ server' = [server EXCEPT ![s] = "failing"]
    /\ UNCHANGED <<procVars, errCh, bg, request, scrape, pool, traceVars, errs>>

\* errCh <- err
SendErr(s) ==
    /\ main \notin Gone /\ server[s] = "failing"
    /\ Len(errCh) < ErrChCap
    /\ server' = [server EXCEPT ![s] = "failed"]
    /\ errCh'  = Append(errCh, s)
    /\ UNCHANGED <<procVars, bg, request, scrape, pool, traceVars, errs>>

\* Prometheus reads /metrics.
Scrape ==
    /\ main \notin Gone /\ server["metrics"] = "up"
    /\ scrape' = ~scrape
    /\ UNCHANGED <<procVars, server, errCh, bg, request, pool, traceVars, errs>>

ScrapeEnds ==
    /\ main \notin Gone /\ scrape /\ server["metrics"] # "up"
    /\ scrape' = FALSE
    /\ UNCHANGED <<procVars, server, errCh, bg, request, pool, traceVars, errs>>
-----------------------------------------------------------------------------
(* Whoever uses the pool: request handlers and background goroutines. *)

Acquire(f, x) == f[x] = "idle" /\ f' = [f EXCEPT ![x] = IF pool = "open" THEN "db" ELSE "refused"]
Release(f, x) == f[x] = "db"   /\ f' = [f EXCEPT ![x] = "idle"]

Arrive(r) ==
    /\ main \notin Gone /\ server["api"] = "up" /\ request[r] = "off"
    /\ request' = [request EXCEPT ![r] = "idle"]
    /\ UNCHANGED <<procVars, server, errCh, bg, scrape, pool, traceVars, errs>>

HandlerQuery(r) ==
    /\ main \notin Gone
    /\ Acquire(request, r) \/ Release(request, r)
    /\ UNCHANGED <<procVars, server, errCh, bg, scrape, pool, traceVars, errs>>

\* The handler returns and the server span ends.
Respond(r) ==
    /\ main \notin Gone /\ request[r] \in {"idle", "refused"}
    /\ request' = [request EXCEPT ![r] = "done"]
    /\ EndSpan
    /\ UNCHANGED <<procVars, server, errCh, bg, scrape, pool, errs>>

\* A claim, an update, a refresh: a query in a span of its own.
BackgroundQuery(b) ==
    /\ main \notin Gone
    /\ \/ Acquire(bg, b) /\ UNCHANGED traceVars
       \/ Release(bg, b) /\ EndSpan
    /\ UNCHANGED <<procVars, server, errCh, request, scrape, pool, errs>>

\* Run returns.
BackgroundStops(b) ==
    /\ main \notin Gone /\ bg[b] = "idle" /\ ctx = "cancelled"
    /\ bg' = [bg EXCEPT ![b] = "done"]
    /\ UNCHANGED <<procVars, server, errCh, request, scrape, pool, traceVars, errs>>
-----------------------------------------------------------------------------
(* run(), from the select on. *)

Active     == {r \in Requests : request[r] \notin {"off", "done"}}
BgFinished == \A b \in Background : bg[b] \in {"off", "done"}

\* Serve returns ErrServerClosed; a server that failed by itself stays failed.
CloseListener(s) == [server EXCEPT ![s] = IF @ = "up" THEN "closed" ELSE @]

\* mutant: the error branch returns at once
ReturnEarly ==
    /\ main = "serve" /\ errCh # <<>>
    /\ errs'  = errs \cup {"run"}
    /\ errCh' = Tail(errCh)
    /\ main'  = "close"
    /\ UNCHANGED <<ctx, timer, server, bg, request, scrape, pool, traceVars>>

\* mutant: the error branch does not call stop()
ServerErrorNoStop ==
    /\ Goto("serve", "drain") /\ errCh # <<>>
    /\ errs'   = errs \cup {"run"}
    /\ errCh'  = Tail(errCh)
    /\ timer'  = "running"
    /\ server' = CloseListener("api")
    /\ UNCHANGED <<ctx, bg, request, scrape, pool, traceVars>>

\* A server failed.  stop(), the 15 s start, apiSrv.Shutdown begins.
ServerError ==
    /\ Goto("serve", "drain") /\ errCh # <<>>
    /\ errs'   = errs \cup {"run"}
    /\ errCh'  = Tail(errCh)
    /\ ctx'    = "cancelled"
    /\ timer'  = "running"
    /\ server' = CloseListener("api")
    /\ UNCHANGED <<bg, request, scrape, pool, traceVars>>

\* ctx.Done(), even if an error is waiting too.
SignalReceived ==
    /\ Goto("serve", "drain") /\ ctx = "cancelled"
    /\ timer'  = "running"
    /\ server' = CloseListener("api")
    /\ UNCHANGED <<ctx, errCh, bg, request, scrape, pool, traceVars, errs>>

Expire ==
    /\ main \in Teardown /\ timer = "running"
    /\ timer' = "expired"
    /\ UNCHANGED <<main, ctx, server, errCh, bg, request, scrape, pool, traceVars, errs>>

\* apiSrv.Shutdown returns: all connections are idle, or the context ended.
Drain ==
    /\ Goto("drain", "await")
    /\ \/ Active = {} /\ UNCHANGED errs
       \/ Active # {} /\ timer = "expired" /\ errs' = errs \cup {"api"}
    /\ UNCHANGED <<ctx, timer, server, errCh, bg, request, scrape, pool, traceVars>>

\* mutant: nobody waits for the background goroutines
NoWait ==
    /\ Goto("await", "endmetrics")
    /\ server' = CloseListener("metrics")
    /\ UNCHANGED <<ctx, timer, errCh, bg, request, scrape, pool, traceVars, errs>>

\* bg.Wait() returns, metricsSrv.Shutdown begins.
AwaitBackground ==
    /\ Goto("await", "endmetrics") /\ BgFinished
    /\ server' = CloseListener("metrics")
    /\ UNCHANGED <<ctx, timer, errCh, bg, request, scrape, pool, traceVars, errs>>

EndMetrics ==
    /\ Goto("endmetrics", "flush")
    /\ \/ ~scrape /\ UNCHANGED errs
       \/ scrape /\ timer = "expired" /\ errs' = errs \cup {"metrics"}
    /\ UNCHANGED <<ctx, timer, server, errCh, bg, request, scrape, pool, traceVars>>

\* mutant: the error of the flush is not joined
TraceErrorDropped == {}

\* What a failed tp.Shutdown adds to errors.Join.
TraceError == {"trace"}

\* tp.Shutdown returns nil: the batcher has worked off its queue.
Flushed ==
    /\ Goto("flush", "close")
    /\ tracer' = "shut"
    /\ Deliver
    /\ UNCHANGED <<ctx, timer, server, errCh, bg, request, scrape, pool, errs>>

\* The context ends first: the queue is left to the batcher and the error joined.
FlushTimesOut ==
    /\ Goto("flush", "close") /\ timer = "expired"
    /\ tracer' = "shut"
    /\ errs'   = errs \cup TraceError
    /\ UNCHANGED <<ctx, timer, server, errCh, bg, request, scrape, pool, spans, lost>>

\* The deferred st.Close() refuses new acquires and waits for the holders.
ClosePool ==
    /\ main = "close" /\ pool = "open"
    /\ pool' = "closing"
    /\ UNCHANGED <<procVars, server, errCh, bg, request, scrape, traceVars, errs>>

\* run() returns errors.Join(...): the process exits, and the queue with it.
Exit ==
    /\ Goto("close", "exited") /\ pool = "closing"
    /\ \A r \in Requests : request[r] # "db"
    /\ \A b \in Background : bg[b] # "db"
    /\ pool' = "closed"
    /\ lost' = IF spans THEN lost \cup {"left"} ELSE lost
    /\ UNCHANGED <<ctx, timer, server, errCh, bg, request, scrape, tracer, spans, errs>>
-----------------------------------------------------------------------------
Init ==
    /\ main = "load" /\ ctx = "live" /\ timer = "unset"
    /\ server  = [s \in Servers |-> "off"]
    /\ errCh   = <<>>
    /\ bg      = [b \in Background |-> "off"]
    /\ request = [r \in Requests |-> "off"]
    /\ scrape  = FALSE
    /\ pool    = "none"
    /\ tracer  = "none" /\ spans = FALSE /\ lost = {}
    /\ errs    = {}

BindAPI     == Bind("api", "bindapi", "bindmetrics")
BindMetrics == Bind("metrics", "bindmetrics", "start")

Boot ==
    \/ Load \/ InitTracing \/ OpenStore \/ Migrate \/ BindAPI \/ BindMetrics
    \/ \E enabled \in BOOLEAN : Start(enabled)

Down ==
    \/ ServerError \/ SignalReceived \/ Drain \/ AwaitBackground
    \/ EndMetrics \/ FlushTimesOut \/ ClosePool \/ Exit

Next ==
    \/ Boot \/ StartupFails \/ Down \/ Flushed
    \/ Signal \/ Kill \/ Expire \/ Export \/ Scrape \/ ScrapeEnds
    \/ \E s \in Servers : ServeFails(s) \/ SendErr(s)
    \/ \E r \in Requests : Arrive(r) \/ HandlerQuery(r) \/ Respond(r)
    \/ \E b \in Background : BackgroundQuery(b) \/ BackgroundStops(b)

Spec == Init /\ [][Next]_vars

\* main, the servers and the timer run (the collector need not answer); Postgres
\* answers a query, which then returns its connection; Go's select is random, so a
\* ready ctx.Done() is taken in the end.
Fairness ==
    /\ WF_vars(Boot \/ StartupFails) /\ WF_vars(Down) /\ WF_vars(Expire)
    /\ \A s \in Servers : WF_vars(SendErr(s))
    /\ \A r \in Requests : WF_vars(request[r] = "db" /\ HandlerQuery(r))
    /\ \A b \in Background : WF_vars(bg[b] = "db" /\ BackgroundQuery(b)) /\ SF_vars(BackgroundStops(b))

FairSpec == Spec /\ Fairness
-----------------------------------------------------------------------------
(* Type correctness of the whole state. *)
TypeOK ==
    /\ main    \in Startup \cup {"serve"} \cup Teardown \cup Gone
    /\ ctx     \in {"live", "cancelled"}
    /\ timer   \in {"unset", "running", "expired"}
    /\ server  \in [Servers -> ServerStates]
    /\ errCh   \in Seq(Servers)
    /\ bg      \in [Background -> GoStates]
    /\ request \in [Requests -> GoStates]
    /\ scrape  \in BOOLEAN
    /\ pool    \in {"none", "open", "closing", "closed"}
    /\ tracer  \in {"none", "running", "shut"}
    /\ spans   \in BOOLEAN
    /\ lost    \subseteq Losses
    /\ errs    \subseteq {"startup", "run", "api", "metrics", "trace"}

(* "Shutdown ordering that is only correct on the happy path is not correct":  *)
(* on every way out - signal, server error, failed start - neither the worker  *)
(* nor the refresher is alive when the pool is closed, and a handler meets a   *)
(* closed pool only if the drain ran out of time and run() reports it.         *)
PoolOutlivesItsUsers ==
    /\ pool \in {"closing", "closed"} => BgFinished
    /\ (\E r \in Requests : request[r] = "refused") => "api" \in errs

(* /metrics is served until the last background goroutine has finished and the *)
(* API was drained or given up, unless the metrics server failed by itself.    *)
MetricsDieLast ==
    server["metrics"] = "closed" => BgFinished /\ (Active = {} \/ "api" \in errs)

(* The buffer of errCh is large enough: a server's goroutine never blocks on   *)
(* its send, whichever fails and whoever is still listening.                   *)
SendNeverBlocks == \A s \in Servers : server[s] = "failing" => Len(errCh) < ErrChCap

(* "shutdown complete" means that the shutdown was: when run() returns nil     *)
(* every request was answered, every batch finished, and the exporter was shut *)
(* down after the last span, with nothing left in its queue.  What its queue   *)
(* could not hold or the collector refused is only logged, see the next one.   *)
CleanExitIsComplete ==
    main = "exited" /\ errs = {} =>
        /\ Active = {} /\ BgFinished
        /\ tracer = "shut" /\ ~spans /\ lost \cap {"late", "left"} = {}

(* "Shutdown flushes any spans still in the batch queue", tracing.go:200: a    *)
(* tp.Shutdown that returns nil has lost none of them.  It may have: the       *)
(* collector's refusal of the last batch goes to the error handler.            *)
FlushedMeansExported ==
    [][main = "flush" /\ main' = "close" /\ errs' = errs => lost' = lost]_vars

(* A signal or a failed server ends the process, even if handlers hang and the *)
(* collector is gone, as long as Postgres answers the queries it was sent.     *)
ShutdownEnds == (main = "serve" /\ (ctx = "cancelled" \/ errCh # <<>>)) ~> main \in Gone
===========================================================================
