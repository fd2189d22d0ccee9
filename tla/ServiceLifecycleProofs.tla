---------------------- MODULE ServiceLifecycleProofs ----------------------
(***************************************************************************)
(* Theorems about ServiceLifecycle, for any number of requests.             *)
(*                                                                         *)
(* The properties speak of what is gone when something is closed; that they *)
(* hold depends on where run() was when it was closed.  IInv therefore says *)
(* what exists at each stage of run() (StageInv), what has ended after each *)
(* step of the teardown (DrainInv, BackgroundInv), what the error channel   *)
(* holds (ErrChInv), and what an exit without errors has behind it          *)
(* (CleanInv).  A running batcher may lose what its queue cannot hold or    *)
(* the collector refuses, and nothing else (StageInv).                      *)
(***************************************************************************)
EXTENDS ServiceLifecycle, TLAPS

\* Before the teardown is over the pool is open and spans are exported.
Pooled == {"migrate", "bindapi", "bindmetrics", "start", "serve", "drain", "await", "endmetrics", "flush"}
Traced == Pooled \cup {"open"}

\* Nothing runs yet, or a start has failed and nothing ever will.
NothingRuns ==
    /\ timer = "unset" /\ errCh = <<>>
    /\ \A s \in Servers : server[s] \in {"off", "bound"}
    /\ \A b \in Background : bg[b] = "off"
    /\ \A r \in Requests : request[r] = "off"

\* No span has ended after the exporter was shut down or been left in its queue.
Kept == lost \cap {"late", "left"} = {}

StageInv ==
    /\ main \in Startup => errs = {} /\ NothingRuns
    /\ "startup" \in errs => main \in {"close", "exited"} /\ NothingRuns
    /\ main \in {"load", "trace", "open"} => pool = "none"
    /\ main \in {"load", "trace"} => ~spans /\ lost = {}
    /\ main \in Pooled => pool = "open"
    /\ main \in Traced => tracer = "running" /\ Kept
    /\ pool \in {"closing", "closed"} => main \in {"close", "exited", "killed"}

DrainInv ==
    /\ main \in Teardown \cup Gone => server["api"] # "up"
    /\ main \in {"await", "endmetrics", "flush", "close", "exited"} => Active = {} \/ "api" \in errs
    /\ (\E r \in Requests : request[r] = "refused") => "api" \in errs

BackgroundInv ==
    /\ main \in {"endmetrics", "flush", "close", "exited"} => BgFinished
    /\ pool \in {"closing", "closed"} => BgFinished
    /\ server["metrics"] = "closed" =>
          main \in {"endmetrics", "flush", "close", "exited", "killed"}
    /\ MetricsDieLast

\* A message in the channel is from a server that has failed, one from each.
ErrChInv ==
    /\ \A i \in 1..Len(errCh) : server[errCh[i]] = "failed"
    /\ \A i, j \in 1..Len(errCh) : errCh[i] = errCh[j] => i = j

CleanInv ==
    main \in {"close", "exited"} /\ errs = {} => tracer = "shut" /\ ~spans /\ Kept

IInv == TypeOK /\ StageInv /\ DrainInv /\ BackgroundInv /\ ErrChInv /\ CleanInv
-----------------------------------------------------------------------------
\* Before main starts anything, nothing is owed.
LEMMA InitIInv == Init => IInv
<1> SUFFICES ASSUME Init PROVE IInv
  OBVIOUS
<1> USE DEF Init, Startup, Teardown, Gone, Pooled, Traced, Servers, Background, ServerStates,
    GoStates
<1>1. TypeOK
  <2>1. server \in [Servers -> ServerStates] /\ bg \in [Background -> GoStates]
    OBVIOUS
  <2>2. request \in [Requests -> GoStates] /\ errCh \in Seq(Servers)
    OBVIOUS
  <2> QED
    BY <2>1, <2>2 DEF TypeOK
<1>2. StageInv /\ DrainInv /\ CleanInv
  BY DEF StageInv, NothingRuns, DrainInv, CleanInv, Kept
<1>3. BackgroundInv /\ ErrChInv
  BY DEF BackgroundInv, MetricsDieLast, ErrChInv
<1> QED
  BY <1>1, <1>2, <1>3 DEF IInv

\* A span that ends while the exporter runs is queued or meets a full queue.
LEMMA EndSpanEffect ==
  ASSUME TypeOK, EndSpan
  PROVE  /\ tracer' = tracer /\ spans' \in BOOLEAN /\ lost' \subseteq Losses
         /\ tracer = "running" /\ Kept => Kept'
<1>1. spans' \in BOOLEAN
  BY DEF TypeOK, EndSpan
<1>2. lost' \subseteq Losses
  BY DEF TypeOK, EndSpan, Losses
<1>3. tracer = "running" /\ Kept => Kept'
  BY DEF EndSpan, Kept
<1> QED
  BY <1>1, <1>2, <1>3 DEF EndSpan

\* A batch that is delivered or refused leaves the queue empty.
LEMMA DeliverEffect ==
  ASSUME TypeOK, Deliver
  PROVE  ~spans' /\ spans' \in BOOLEAN /\ lost' \subseteq Losses /\ (Kept => Kept')
<1>1. lost' \subseteq Losses
  BY DEF TypeOK, Deliver, Losses
<1>2. Kept => Kept'
  BY DEF Deliver, Kept
<1> QED
  BY <1>1, <1>2 DEF Deliver

(* Every step of the process keeps the invariant. *)
LEMMA StepIInv == IInv /\ [Next]_vars => IInv'
<1> SUFFICES ASSUME IInv, [Next]_vars PROVE IInv'
  OBVIOUS
<1> USE DEF Startup, Teardown, Gone, Pooled, Traced, Servers, Background, ServerStates, GoStates,
    Losses, NothingRuns, Active, BgFinished, procVars, traceVars, Kept
<1>0. TypeOK /\ StageInv /\ DrainInv /\ BackgroundInv /\ ErrChInv /\ CleanInv
  BY DEF IInv
<1>1. CASE Load
  BY <1>0, <1>1 DEF Load, Goto, IInv, TypeOK, StageInv, DrainInv, BackgroundInv, MetricsDieLast,
      ErrChInv, CleanInv
<1>2. CASE InitTracing
  BY <1>0, <1>2 DEF InitTracing, Goto, IInv, TypeOK, StageInv, DrainInv, BackgroundInv,
      MetricsDieLast, ErrChInv, CleanInv
<1>3. CASE OpenStore
  BY <1>0, <1>3 DEF OpenStore, Goto, IInv, TypeOK, StageInv, DrainInv, BackgroundInv,
      MetricsDieLast, ErrChInv, CleanInv
<1>4. CASE Migrate
  <2>0. /\ tracer' = tracer /\ spans' \in BOOLEAN /\ lost' \subseteq Losses
        /\ tracer = "running" /\ Kept => Kept'
    BY <1>0, <1>4, EndSpanEffect DEF Migrate
  <2>1. TypeOK'
    BY <1>0, <1>4, <2>0 DEF Migrate, Goto, TypeOK
  <2>2. StageInv'
    BY <1>0, <1>4, <2>0 DEF Migrate, Goto, TypeOK, StageInv
  <2>3. DrainInv'
    BY <1>0, <1>4, <2>0 DEF Migrate, Goto, TypeOK, StageInv, DrainInv
  <2>4. BackgroundInv'
    BY <1>0, <1>4, <2>0 DEF Migrate, Goto, TypeOK, StageInv, DrainInv, BackgroundInv, MetricsDieLast
  <2>5. ErrChInv'
    BY <1>0, <1>4, <2>0 DEF Migrate, Goto, TypeOK, StageInv, ErrChInv
  <2>6. CleanInv'
    BY <1>0, <1>4, <2>0 DEF Migrate, Goto, TypeOK, StageInv, DrainInv, BackgroundInv, CleanInv
  <2> QED
    BY <2>1, <2>2, <2>3, <2>4, <2>5, <2>6 DEF IInv
<1>5. CASE BindAPI
  BY <1>0, <1>5 DEF BindAPI, Bind, Goto, IInv, TypeOK, StageInv, DrainInv, BackgroundInv,
      MetricsDieLast, ErrChInv, CleanInv
<1>6. CASE BindMetrics
  BY <1>0, <1>6 DEF BindMetrics, Bind, Goto, IInv, TypeOK, StageInv, DrainInv, BackgroundInv,
      MetricsDieLast, ErrChInv, CleanInv
<1>7. ASSUME NEW enabled \in BOOLEAN, Start(enabled) PROVE IInv'
  <2>1. TypeOK'
    BY <1>0, <1>7 DEF Start, Goto, TypeOK
  <2>2. StageInv'
    BY <1>0, <1>7 DEF Start, Goto, TypeOK, StageInv
  <2>3. DrainInv'
    BY <1>0, <1>7 DEF Start, Goto, TypeOK, StageInv, DrainInv
  <2>4. BackgroundInv'
    BY <1>0, <1>7 DEF Start, Goto, TypeOK, StageInv, DrainInv, BackgroundInv, MetricsDieLast
  <2>5. ErrChInv'
    BY <1>0, <1>7 DEF Start, Goto, TypeOK, StageInv, ErrChInv
  <2>6. CleanInv'
    BY <1>0, <1>7 DEF Start, Goto, TypeOK, StageInv, DrainInv, BackgroundInv, CleanInv
  <2> QED
    BY <2>1, <2>2, <2>3, <2>4, <2>5, <2>6 DEF IInv
<1>8. CASE StartupFails
  <2>1. TypeOK'
    BY <1>0, <1>8 DEF StartupFails, TypeOK
  <2>2. StageInv'
    BY <1>0, <1>8 DEF StartupFails, TypeOK, StageInv
  <2>3. DrainInv'
    BY <1>0, <1>8 DEF StartupFails, TypeOK, StageInv, DrainInv
  <2>4. BackgroundInv'
    BY <1>0, <1>8 DEF StartupFails, TypeOK, StageInv, DrainInv, BackgroundInv, MetricsDieLast
  <2>5. ErrChInv'
    BY <1>0, <1>8 DEF StartupFails, TypeOK, StageInv, ErrChInv
  <2>6. CleanInv'
    BY <1>0, <1>8 DEF StartupFails, TypeOK, StageInv, DrainInv, BackgroundInv, CleanInv
  <2> QED
    BY <2>1, <2>2, <2>3, <2>4, <2>5, <2>6 DEF IInv
<1>9. CASE ServerError
  <2>1. TypeOK'
    BY <1>0, <1>9 DEF ServerError, Goto, CloseListener, TypeOK
  <2>2. StageInv'
    BY <1>0, <1>9 DEF ServerError, Goto, CloseListener, TypeOK, StageInv
  <2>3. DrainInv'
    BY <1>0, <1>9 DEF ServerError, Goto, CloseListener, TypeOK, StageInv, DrainInv
  <2>4. BackgroundInv'
    BY <1>0, <1>9 DEF ServerError, Goto, CloseListener, TypeOK, StageInv, DrainInv, BackgroundInv,
        MetricsDieLast
  <2>5. ErrChInv'
    BY <1>0, <1>9 DEF ServerError, Goto, CloseListener, TypeOK, StageInv, ErrChInv
  <2>6. CleanInv'
    BY <1>0, <1>9 DEF ServerError, Goto, CloseListener, TypeOK, StageInv, DrainInv, BackgroundInv,
        CleanInv
  <2> QED
    BY <2>1, <2>2, <2>3, <2>4, <2>5, <2>6 DEF IInv
<1>10. CASE SignalReceived
  <2>1. TypeOK'
    BY <1>0, <1>10 DEF SignalReceived, Goto, CloseListener, TypeOK
  <2>2. StageInv'
    BY <1>0, <1>10 DEF SignalReceived, Goto, CloseListener, TypeOK, StageInv
  <2>3. DrainInv'
    BY <1>0, <1>10 DEF SignalReceived, Goto, CloseListener, TypeOK, StageInv, DrainInv
  <2>4. BackgroundInv'
    BY <1>0, <1>10 DEF SignalReceived, Goto, CloseListener, TypeOK, StageInv, DrainInv,
        BackgroundInv, MetricsDieLast
  <2>5. ErrChInv'
    BY <1>0, <1>10 DEF SignalReceived, Goto, CloseListener, TypeOK, StageInv, ErrChInv
  <2>6. CleanInv'
    BY <1>0, <1>10 DEF SignalReceived, Goto, CloseListener, TypeOK, StageInv, DrainInv,
        BackgroundInv, CleanInv
  <2> QED
    BY <2>1, <2>2, <2>3, <2>4, <2>5, <2>6 DEF IInv
<1>11. CASE Drain
  <2>1. TypeOK'
    BY <1>0, <1>11 DEF Drain, Goto, TypeOK
  <2>2. StageInv'
    BY <1>0, <1>11 DEF Drain, Goto, TypeOK, StageInv
  <2>3. DrainInv'
    BY <1>0, <1>11 DEF Drain, Goto, TypeOK, StageInv, DrainInv
  <2>4. BackgroundInv'
    BY <1>0, <1>11 DEF Drain, Goto, TypeOK, StageInv, DrainInv, BackgroundInv, MetricsDieLast
  <2>5. ErrChInv'
    BY <1>0, <1>11 DEF Drain, Goto, TypeOK, StageInv, ErrChInv
  <2>6. CleanInv'
    BY <1>0, <1>11 DEF Drain, Goto, TypeOK, StageInv, DrainInv, BackgroundInv, CleanInv
  <2> QED
    BY <2>1, <2>2, <2>3, <2>4, <2>5, <2>6 DEF IInv
<1>12. CASE AwaitBackground
  <2>1. TypeOK'
    BY <1>0, <1>12 DEF AwaitBackground, Goto, CloseListener, TypeOK
  <2>2. StageInv'
    BY <1>0, <1>12 DEF AwaitBackground, Goto, CloseListener, TypeOK, StageInv
  <2>3. DrainInv'
    BY <1>0, <1>12 DEF AwaitBackground, Goto, CloseListener, TypeOK, StageInv, DrainInv
  <2>4. BackgroundInv'
    BY <1>0, <1>12 DEF AwaitBackground, Goto, CloseListener, TypeOK, StageInv, DrainInv,
        BackgroundInv, MetricsDieLast
  <2>5. ErrChInv'
    BY <1>0, <1>12 DEF AwaitBackground, Goto, CloseListener, TypeOK, StageInv, ErrChInv
  <2>6. CleanInv'
    BY <1>0, <1>12 DEF AwaitBackground, Goto, CloseListener, TypeOK, StageInv, DrainInv,
        BackgroundInv, CleanInv
  <2> QED
    BY <2>1, <2>2, <2>3, <2>4, <2>5, <2>6 DEF IInv
<1>13. CASE EndMetrics
  <2>1. TypeOK'
    BY <1>0, <1>13 DEF EndMetrics, Goto, TypeOK
  <2>2. StageInv'
    BY <1>0, <1>13 DEF EndMetrics, Goto, TypeOK, StageInv
  <2>3. DrainInv'
    BY <1>0, <1>13 DEF EndMetrics, Goto, TypeOK, StageInv, DrainInv
  <2>4. BackgroundInv'
    BY <1>0, <1>13 DEF EndMetrics, Goto, TypeOK, StageInv, DrainInv, BackgroundInv, MetricsDieLast
  <2>5. ErrChInv'
    BY <1>0, <1>13 DEF EndMetrics, Goto, TypeOK, StageInv, ErrChInv
  <2>6. CleanInv'
    BY <1>0, <1>13 DEF EndMetrics, Goto, TypeOK, StageInv, DrainInv, BackgroundInv, CleanInv
  <2> QED
    BY <2>1, <2>2, <2>3, <2>4, <2>5, <2>6 DEF IInv
<1>14. CASE Flushed
  <2>0. ~spans' /\ spans' \in BOOLEAN /\ lost' \subseteq Losses /\ (Kept => Kept')
    BY <1>0, <1>14, DeliverEffect DEF Flushed
  <2>1. TypeOK'
    BY <1>0, <1>14, <2>0 DEF Flushed, Goto, TypeOK
  <2>2. StageInv'
    BY <1>0, <1>14, <2>0 DEF Flushed, Goto, TypeOK, StageInv
  <2>3. DrainInv'
    BY <1>0, <1>14, <2>0 DEF Flushed, Goto, TypeOK, StageInv, DrainInv
  <2>4. BackgroundInv'
    BY <1>0, <1>14, <2>0 DEF Flushed, Goto, TypeOK, StageInv, DrainInv, BackgroundInv,
        MetricsDieLast
  <2>5. ErrChInv'
    BY <1>0, <1>14, <2>0 DEF Flushed, Goto, TypeOK, StageInv, ErrChInv
  <2>6. CleanInv'
    BY <1>0, <1>14, <2>0 DEF Flushed, Goto, TypeOK, StageInv, DrainInv, BackgroundInv, CleanInv
  <2> QED
    BY <2>1, <2>2, <2>3, <2>4, <2>5, <2>6 DEF IInv
<1>15. CASE ClosePool
  <2>1. TypeOK'
    BY <1>0, <1>15 DEF ClosePool, TypeOK
  <2>2. StageInv'
    BY <1>0, <1>15 DEF ClosePool, TypeOK, StageInv
  <2>3. DrainInv'
    BY <1>0, <1>15 DEF ClosePool, TypeOK, StageInv, DrainInv
  <2>4. BackgroundInv'
    BY <1>0, <1>15 DEF ClosePool, TypeOK, StageInv, DrainInv, BackgroundInv, MetricsDieLast
  <2>5. ErrChInv'
    BY <1>0, <1>15 DEF ClosePool, TypeOK, StageInv, ErrChInv
  <2>6. CleanInv'
    BY <1>0, <1>15 DEF ClosePool, TypeOK, StageInv, DrainInv, BackgroundInv, CleanInv
  <2> QED
    BY <2>1, <2>2, <2>3, <2>4, <2>5, <2>6 DEF IInv
<1>16. CASE Exit
  <2>1. TypeOK'
    BY <1>0, <1>16 DEF Exit, Goto, TypeOK
  <2>2. StageInv'
    BY <1>0, <1>16 DEF Exit, Goto, TypeOK, StageInv
  <2>3. DrainInv'
    BY <1>0, <1>16 DEF Exit, Goto, TypeOK, StageInv, DrainInv
  <2>4. BackgroundInv'
    BY <1>0, <1>16 DEF Exit, Goto, TypeOK, StageInv, DrainInv, BackgroundInv, MetricsDieLast
  <2>5. ErrChInv'
    BY <1>0, <1>16 DEF Exit, Goto, TypeOK, StageInv, ErrChInv
  <2>6. CleanInv'
    BY <1>0, <1>16 DEF Exit, Goto, TypeOK, StageInv, DrainInv, BackgroundInv, CleanInv
  <2> QED
    BY <2>1, <2>2, <2>3, <2>4, <2>5, <2>6 DEF IInv
<1>17. CASE Signal
  BY <1>0, <1>17 DEF Signal, IInv, TypeOK, StageInv, DrainInv, BackgroundInv, MetricsDieLast,
      ErrChInv, CleanInv
<1>18. CASE Kill
  BY <1>0, <1>18 DEF Kill, IInv, TypeOK, StageInv, DrainInv, BackgroundInv, MetricsDieLast,
      ErrChInv, CleanInv
<1>19. CASE Expire
  BY <1>0, <1>19 DEF Expire, IInv, TypeOK, StageInv, DrainInv, BackgroundInv, MetricsDieLast,
      ErrChInv, CleanInv
<1>20. CASE Export
  <2>0. ~spans' /\ spans' \in BOOLEAN /\ lost' \subseteq Losses /\ (Kept => Kept')
    BY <1>0, <1>20, DeliverEffect DEF Export
  <2>1. TypeOK'
    BY <1>0, <1>20, <2>0 DEF Export, TypeOK
  <2>2. StageInv'
    BY <1>0, <1>20, <2>0 DEF Export, TypeOK, StageInv
  <2>3. DrainInv'
    BY <1>0, <1>20, <2>0 DEF Export, TypeOK, StageInv, DrainInv
  <2>4. BackgroundInv'
    BY <1>0, <1>20, <2>0 DEF Export, TypeOK, StageInv, DrainInv, BackgroundInv, MetricsDieLast
  <2>5. ErrChInv'
    BY <1>0, <1>20, <2>0 DEF Export, TypeOK, StageInv, ErrChInv
  <2>6. CleanInv'
    BY <1>0, <1>20, <2>0 DEF Export, TypeOK, StageInv, DrainInv, BackgroundInv, CleanInv
  <2> QED
    BY <2>1, <2>2, <2>3, <2>4, <2>5, <2>6 DEF IInv
<1>21. CASE Scrape
  BY <1>0, <1>21 DEF Scrape, IInv, TypeOK, StageInv, DrainInv, BackgroundInv, MetricsDieLast,
      ErrChInv, CleanInv
<1>22. CASE ScrapeEnds
  <2>1. TypeOK'
    BY <1>0, <1>22 DEF ScrapeEnds, TypeOK
  <2>2. StageInv'
    BY <1>0, <1>22 DEF ScrapeEnds, TypeOK, StageInv
  <2>3. DrainInv'
    BY <1>0, <1>22 DEF ScrapeEnds, TypeOK, StageInv, DrainInv
  <2>4. BackgroundInv'
    BY <1>0, <1>22 DEF ScrapeEnds, TypeOK, StageInv, DrainInv, BackgroundInv, MetricsDieLast
  <2>5. ErrChInv'
    BY <1>0, <1>22 DEF ScrapeEnds, TypeOK, StageInv, ErrChInv
  <2>6. CleanInv'
    BY <1>0, <1>22 DEF ScrapeEnds, TypeOK, StageInv, DrainInv, BackgroundInv, CleanInv
  <2> QED
    BY <2>1, <2>2, <2>3, <2>4, <2>5, <2>6 DEF IInv
<1>23. ASSUME NEW s \in Servers, ServeFails(s) PROVE IInv'
  BY <1>0, <1>23 DEF ServeFails, IInv, TypeOK, StageInv, DrainInv, BackgroundInv, MetricsDieLast,
      ErrChInv, CleanInv
<1>24. ASSUME NEW s \in Servers, SendErr(s) PROVE IInv'
  <2>1. TypeOK'
    BY <1>0, <1>24 DEF SendErr, TypeOK
  <2>2. StageInv'
    BY <1>0, <1>24 DEF SendErr, TypeOK, StageInv
  <2>3. DrainInv'
    BY <1>0, <1>24 DEF SendErr, TypeOK, StageInv, DrainInv
  <2>4. BackgroundInv'
    BY <1>0, <1>24 DEF SendErr, TypeOK, StageInv, DrainInv, BackgroundInv, MetricsDieLast
  <2>5. ErrChInv'
    BY <1>0, <1>24 DEF SendErr, TypeOK, StageInv, ErrChInv
  <2>6. CleanInv'
    BY <1>0, <1>24 DEF SendErr, TypeOK, StageInv, DrainInv, BackgroundInv, CleanInv
  <2> QED
    BY <2>1, <2>2, <2>3, <2>4, <2>5, <2>6 DEF IInv
<1>25. ASSUME NEW r \in Requests, Arrive(r) PROVE IInv'
  BY <1>0, <1>25 DEF Arrive, IInv, TypeOK, StageInv, DrainInv, BackgroundInv, MetricsDieLast,
      ErrChInv, CleanInv
<1>26. ASSUME NEW r \in Requests, HandlerQuery(r) PROVE IInv'
  <2>1. TypeOK'
    BY <1>0, <1>26 DEF HandlerQuery, Acquire, Release, TypeOK
  <2>2. StageInv'
    BY <1>0, <1>26 DEF HandlerQuery, Acquire, Release, TypeOK, StageInv
  <2>3. DrainInv'
    BY <1>0, <1>26 DEF HandlerQuery, Acquire, Release, TypeOK, StageInv, DrainInv
  <2>4. BackgroundInv'
    BY <1>0, <1>26 DEF HandlerQuery, Acquire, Release, TypeOK, StageInv, DrainInv, BackgroundInv,
        MetricsDieLast
  <2>5. ErrChInv'
    BY <1>0, <1>26 DEF HandlerQuery, Acquire, Release, TypeOK, StageInv, ErrChInv
  <2>6. CleanInv'
    BY <1>0, <1>26 DEF HandlerQuery, Acquire, Release, TypeOK, StageInv, DrainInv, BackgroundInv,
        CleanInv
  <2> QED
    BY <2>1, <2>2, <2>3, <2>4, <2>5, <2>6 DEF IInv
<1>27. ASSUME NEW r \in Requests, Respond(r) PROVE IInv'
  <2>0. /\ tracer' = tracer /\ spans' \in BOOLEAN /\ lost' \subseteq Losses
        /\ tracer = "running" /\ Kept => Kept'
    BY <1>0, <1>27, EndSpanEffect DEF Respond
  <2>1. TypeOK'
    BY <1>0, <1>27, <2>0 DEF Respond, TypeOK
  <2>2. StageInv'
    BY <1>0, <1>27, <2>0 DEF Respond, TypeOK, StageInv
  <2>3. DrainInv'
    BY <1>0, <1>27, <2>0 DEF Respond, TypeOK, StageInv, DrainInv
  <2>4. BackgroundInv'
    BY <1>0, <1>27, <2>0 DEF Respond, TypeOK, StageInv, DrainInv, BackgroundInv, MetricsDieLast
  <2>5. ErrChInv'
    BY <1>0, <1>27, <2>0 DEF Respond, TypeOK, StageInv, ErrChInv
  <2>6. CleanInv'
    BY <1>0, <1>27, <2>0 DEF Respond, TypeOK, StageInv, DrainInv, BackgroundInv, CleanInv
  <2> QED
    BY <2>1, <2>2, <2>3, <2>4, <2>5, <2>6 DEF IInv
<1>28. ASSUME NEW b \in Background, BackgroundQuery(b) PROVE IInv'
  <2>0. /\ tracer' = tracer /\ spans' \in BOOLEAN /\ lost' \subseteq Losses
        /\ tracer = "running" /\ Kept => Kept'
        /\ bg[b] \in {"idle", "db"}
        /\ \E g \in GoStates \ {"off", "done"} : bg' = [bg EXCEPT ![b] = g]
    BY <1>0, <1>28, EndSpanEffect DEF BackgroundQuery, Acquire, Release, TypeOK
  <2>1. TypeOK'
    BY <1>0, <1>28, <2>0 DEF BackgroundQuery, Acquire, Release, TypeOK
  <2>2. StageInv'
    BY <1>0, <1>28, <2>0 DEF BackgroundQuery, Acquire, Release, TypeOK, StageInv
  <2>3. DrainInv'
    BY <1>0, <1>28, <2>0 DEF BackgroundQuery, Acquire, Release, TypeOK, StageInv, DrainInv
  <2>4. BackgroundInv'
    BY <1>0, <1>28, <2>0 DEF BackgroundQuery, Acquire, Release, TypeOK, StageInv, DrainInv,
        BackgroundInv, MetricsDieLast
  <2>5. ErrChInv'
    BY <1>0, <1>28, <2>0 DEF BackgroundQuery, Acquire, Release, TypeOK, StageInv, ErrChInv
  <2>6. CleanInv'
    BY <1>0, <1>28, <2>0 DEF BackgroundQuery, Acquire, Release, TypeOK, StageInv, DrainInv,
        BackgroundInv, CleanInv
  <2> QED
    BY <2>1, <2>2, <2>3, <2>4, <2>5, <2>6 DEF IInv
<1>29. ASSUME NEW b \in Background, BackgroundStops(b) PROVE IInv'
  BY <1>0, <1>29 DEF BackgroundStops, IInv, TypeOK, StageInv, DrainInv, BackgroundInv,
      MetricsDieLast, ErrChInv, CleanInv
<1>30. CASE FlushTimesOut
  <2>1. TypeOK'
    BY <1>0, <1>30 DEF FlushTimesOut, Goto, TraceError, TypeOK
  <2>2. StageInv'
    BY <1>0, <1>30 DEF FlushTimesOut, Goto, TraceError, TypeOK, StageInv
  <2>3. DrainInv'
    BY <1>0, <1>30 DEF FlushTimesOut, Goto, TraceError, TypeOK, StageInv, DrainInv
  <2>4. BackgroundInv'
    BY <1>0, <1>30 DEF FlushTimesOut, Goto, TraceError, TypeOK, StageInv, DrainInv, BackgroundInv,
        MetricsDieLast
  <2>5. ErrChInv'
    BY <1>0, <1>30 DEF FlushTimesOut, Goto, TraceError, TypeOK, StageInv, ErrChInv
  <2>6. CleanInv'
    BY <1>0, <1>30 DEF FlushTimesOut, Goto, TraceError, TypeOK, StageInv, DrainInv, BackgroundInv,
        CleanInv
  <2> QED
    BY <2>1, <2>2, <2>3, <2>4, <2>5, <2>6 DEF IInv
<1>31. CASE UNCHANGED vars
  BY <1>0, <1>31 DEF vars, IInv, TypeOK, StageInv, DrainInv, BackgroundInv, MetricsDieLast,
      ErrChInv, CleanInv
<1> QED
  BY <1>1, <1>2, <1>3, <1>4, <1>5, <1>6, <1>7, <1>8, <1>9, <1>10, <1>11, <1>12, <1>13, <1>14,
      <1>15, <1>16, <1>17, <1>18, <1>19, <1>20, <1>21, <1>22, <1>23, <1>24, <1>25, <1>26, <1>27,
      <1>28, <1>29, <1>30, <1>31 DEF Next, Boot, Down

(* The type invariant and its strengthening hold of every reachable state. *)
THEOREM Invariance == Spec => []IInv
  BY InitIInv, StepIInv, PTL DEF Spec

\* Every stage, channel and exit code stays within its range, in every order of failures and signals.
THEOREM TypeCorrect == Spec => []TypeOK
<1>1. IInv => TypeOK
  BY DEF IInv
<1> QED
  BY <1>1, Invariance, PTL

(* On every way out of run() - signal, server error, failed start - the pool   *)
(* is closed only when the worker and the refresher have returned, and no      *)
(* handler meets a closed pool without run() reporting that the drain failed.  *)
THEOREM PoolClosedLast == Spec => []PoolOutlivesItsUsers
<1>1. IInv => PoolOutlivesItsUsers
  BY DEF IInv, DrainInv, BackgroundInv, PoolOutlivesItsUsers
<1> QED
  BY <1>1, Invariance, PTL

(* /metrics is taken down only after everything it reports on. *)
THEOREM MetricsServedToTheEnd == Spec => []MetricsDieLast
<1>1. IInv => MetricsDieLast
  BY DEF IInv, BackgroundInv
<1> QED
  BY <1>1, Invariance, PTL

(* A server's goroutine always finds room for its error: the channel holds     *)
(* one message of each failed server, and the sender has not failed yet.       *)
THEOREM NoSenderBlocks == Spec => []SendNeverBlocks
<1>1. IInv => SendNeverBlocks
  <2> SUFFICES ASSUME IInv, NEW s \in Servers, server[s] = "failing" PROVE Len(errCh) < ErrChCap
    BY DEF SendNeverBlocks
  <2>1. errCh \in Seq(Servers) /\ Len(errCh) \in Nat
    BY DEF IInv, TypeOK
  <2>2. ASSUME Len(errCh) >= 2 PROVE FALSE
    <3>1. 1 \in 1..Len(errCh) /\ 2 \in 1..Len(errCh)
      BY <2>1, <2>2
    <3>2. errCh[1] \in Servers \ {s} /\ errCh[2] \in Servers \ {s} /\ errCh[1] # errCh[2]
      BY <2>1, <3>1 DEF IInv, ErrChInv
    <3> QED
      BY <3>2 DEF Servers
  <2> QED
    BY <2>1, <2>2 DEF ErrChCap
<1> QED
  BY <1>1, Invariance, PTL

(* Exit status 0 means that the shutdown was completed: every request was      *)
(* answered, both background goroutines have returned, and the exporter was    *)
(* shut down after the last span with an empty queue.                          *)
THEOREM CleanExit == Spec => []CleanExitIsComplete
<1>1. IInv => CleanExitIsComplete
  BY DEF IInv, DrainInv, BackgroundInv, CleanInv, Kept, CleanExitIsComplete
<1> QED
  BY <1>1, Invariance, PTL
=============================================================================
