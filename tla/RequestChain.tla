---------------------------- MODULE RequestChain ----------------------------
(***************************************************************************)
(* Requests through the middleware chain that cmd/api/main.go builds:      *)
(*                                                                         *)
(*   tracing -> metrics -> RequestID -> AccessLog -> Recover -> ServeMux   *)
(*                                                                         *)
(* Every layer has a way in and a way out; the way out is taken normally   *)
(* or by a panic that unwinds.  Three layers wrap the response writer in a *)
(* recorder of their own, and two layers replace the request by a copy, so *)
(* what a layer sees of the route and of the status is what reached its    *)
(* own recorder and its own copy.                                          *)
(***************************************************************************)
EXTENDS Integers, FiniteSets

CONSTANTS
    Requests,           \* the requests that arrive
    Methods, Paths,     \* what a request line may name
    Inputs(_),          \* what the client of each may send: method and path, the
                        \* sampling flag of a traceparent, an X-Request-Id
    EnableDebugRoutes,  \* Options.EnableDebugRoutes
    None                \* the empty value: "" or nil in the code

\* What a client may send.
Messages ==
    [target : Methods \X Paths, parent : {None, "sampled", "unsampled"},
     id : {None, "sane", "insane"}]

ASSUME RequestsAssumption == IsFiniteSet(Requests)
ASSUME MethodsAssumption == {"GET", "POST"} \subseteq Methods
ASSUME FlagAssumption == EnableDebugRoutes \in BOOLEAN
ASSUME InputAssumption == \A r \in Requests : Inputs(r) \subseteq Messages

VARIABLES
    tracingOn,\* tracing.Config.Enabled with a real exporter; never changes
    pc,       \* where each request is in the chain
    input,    \* what the client sent: target, traceparent, X-Request-Id
    unwind,   \* "no", or the kind of panic the handler raised
    rec,      \* the status recorders of the three layers that have one
    pattern,  \* Request.Pattern in the server's request and in its two copies
    ids,      \* the correlation attributes on the innermost context
    header,   \* the response header map
    wire,     \* what the client received
    span,     \* the server span
    metric,   \* the sample the metrics layer took
    lines,    \* the log lines of the request
    inFlight, \* the in-flight gauge
    panics,   \* the panic counter, by route
    series    \* the label sets that exist in the request counter

shared == <<inFlight, panics, series>>
vars == <<tracingOn, pc, input, unwind, rec, pattern, ids, header, wire, span, metric,
          lines, inFlight, panics, series>>

Layers == {"tracing", "metrics", "access"}

-----------------------------------------------------------------------------
(* Routing *)

\* The patterns NewRouter registers, as method and path template.
Patterns ==
    {<<"POST", "/orders">>, <<"GET", "/orders">>, <<"GET", "/orders/{id}">>,
     <<"GET", "/healthz">>, <<"GET", "/readyz">>, <<"", "/">>}
        \cup (IF EnableDebugRoutes THEN {<<"GET", "/debug/slow">>} ELSE {})

\* The statuses each handler writes: bad JSON, invalid order, failed insert;
createOrder == {400, 422, 500, 201}
\* bad ID, no such order, failed query;
getOrder == {400, 404, 500, 200}
\* bad parameter, failed query;
listOrders == {400, 500, 200}
\* never touches a dependency;
healthz == {200}
\* the database does not answer;
readyz == {503, 200}
\* bad duration, abandoned, failed query;
slowQuery == {400, 503, 500, 200}
\* and no such endpoint.
noEndpoint == {404}

Outcomes ==
    [p \in Patterns |->
        CASE p = <<"POST", "/orders">>     -> createOrder
          [] p = <<"GET", "/orders">>      -> listOrders
          [] p = <<"GET", "/orders/{id}">> -> getOrder
          [] p = <<"GET", "/healthz">>     -> healthz
          [] p = <<"GET", "/readyz">>      -> readyz
          [] p = <<"GET", "/debug/slow">>  -> slowQuery
          [] p = <<"", "/">>               -> noEndpoint]

\* The handler logs an error of its own: the database failed it.
LogsError(p, status) ==
    status = 500 \/ (status = 503 /\ p = <<"GET", "/readyz">>)

\* {method, route, success code}
InstrumentedRoutes ==
    {<<"POST", "/orders", 201>>, <<"GET", "/orders", 200>>,
     <<"GET", "/orders/{id}", 200>>}

\* ServeMux: the registered pattern for a method and a path; a GET pattern also
\* serves HEAD and the catch-all takes the rest.
Template(path) == IF path = "/orders/42" THEN "/orders/{id}" ELSE path
Match(target) ==
    LET method == IF target[1] = "HEAD" THEN "GET" ELSE target[1]
        exact  == <<method, Template(target[2])>>
    IN  IF exact \in Patterns THEN exact ELSE <<"", "/">>

\* The method is cut off, an empty pattern and the catch-all become one value:
\* once in metrics, once for the access log and once for the span.
routeLabel(p) == IF p = None \/ p[2] = "/" THEN "unmatched" ELSE p[2]
routePattern(p) == IF p = None \/ p[2] = "/" THEN "unmatched" ELSE p[2]
routeTemplate(p) == IF p = None \/ p[2] = "/" THEN "unmatched" ELSE p[2]

\* The cardinality firewall: the only values a route label may take.
Routes == {p[2] : p \in Patterns \ {<<"", "/">>}} \cup {"unmatched"}

\* The paths that tracing, metrics and the access log skip.
Probe(r) == input[r].target[2] \in {"/healthz", "/readyz"}

-----------------------------------------------------------------------------
(* Writing through nested recorders *)

\* The recorders outside-in: a write starts at the innermost one.
Inside(l) == CASE l = "tracing" -> Layers
               [] l = "metrics" -> {"metrics", "access"}
               [] l = "access"  -> {"access"}

\* A WriteHeader gets to layer l if no recorder on its way has seen one.
Reaches(rs, l) == \A k \in Inside(l) : ~rs[k].wroteHeader

WriteHeader(rs, code) ==
    [l \in Layers |-> IF Reaches(rs, l)
                      THEN [status |-> code, wroteHeader |-> TRUE]
                      ELSE rs[l]]

\* writeJSON: Content-Type, WriteHeader and the body.  A probe has no recorder.
writeJSON(r, status) ==
    /\ rec' = [rec EXCEPT ![r] = IF Probe(r) THEN @ ELSE WriteHeader(@, status)]
    /\ wire' = [wire EXCEPT ![r] =
                    IF @ = None /\ (Probe(r) \/ Reaches(rec[r], "tracing"))
                    THEN [status |-> status, header |-> header[r]] ELSE @]

FreshRecorders == [l \in Layers |-> [status |-> 200, wroteHeader |-> FALSE]]

-----------------------------------------------------------------------------
(* Spans *)

\* The span context is valid: a recording tracer made it or the caller sent it.
ValidContext(r) == tracingOn \/ input[r].parent # None

\* trace flags: the parent decides; a root span is decided by the ratio.
SamplingChoices(parent) ==
    IF parent # None THEN {parent = "sampled"}
    ELSE IF tracingOn THEN BOOLEAN ELSE {FALSE}

\* SetStatus of the SDK: Ok is final, Error does not replace it.
Rank == [Unset |-> 0, Error |-> 1, Ok |-> 2]
SetStatus(sp, code) == IF Rank[sp.code] > Rank[code] THEN sp ELSE [sp EXCEPT !.code = code]

Recording(r) == span[r] # None /\ tracingOn /\ span[r].sampled

\* Mutant: the trace ID of the context, sampled or not.
ExemplarUnsampled(r) == span[r] # None

\* traceExemplar: the trace ID of the context, if the trace is sampled.
traceExemplar(r) == span[r] # None /\ span[r].sampled

-----------------------------------------------------------------------------
(* Types *)

\* What the pillars and the client receive.
Correlation ==
    [request_id : {None} \cup ({"inbound", "fresh"} \X Requests), trace_id : {None} \cup Requests]
Responses == [status : Nat, header : Correlation]
Spans ==
    [open : BOOLEAN, sampled : BOOLEAN, code : {"Unset", "Error", "Ok"},
     route : Routes \cup {None}, status : Nat, event : BOOLEAN]
Samples  == [route : Routes, status : Nat, exemplar : BOOLEAN]
LogLines ==
    [msg : {"failed", "handler panic", "http request"}, ids : Correlation,
     route : Routes \cup {None}, status : Nat]

\* The empty value is none of those it stands in for.
ASSUME NoneAssumption ==
    /\ None \notin Responses /\ None \notin Spans /\ None \notin Samples
    /\ None \notin Requests /\ None \notin {"inbound", "fresh"} \X Requests
    /\ None \notin Patterns

Locations ==
    {"idle", "tracing", "metrics", "requestid", "access", "mux", "handler", "wrote",
     "recover", "access out", "requestid out", "metrics out", "tracing out", "server", "done"}

\* Type correctness of the whole state.
TypeOK ==
    /\ tracingOn \in BOOLEAN
    /\ pc \in [Requests -> Locations]
    /\ input \in [Requests -> Messages \cup {None}]
    /\ unwind \in [Requests -> {"no", "panic", "late panic", "abort"}]
    /\ rec \in [Requests -> [Layers -> [status : Nat, wroteHeader : BOOLEAN]]]
    /\ pattern \in [Requests -> [server : Patterns \cup {None}, traced : Patterns \cup {None},
                               inner : Patterns \cup {None}]]
    /\ ids \in [Requests -> Correlation] /\ header \in [Requests -> Correlation]
    /\ wire \in [Requests -> Responses \cup {None}]
    /\ span \in [Requests -> Spans \cup {None}]
    /\ metric \in [Requests -> Samples \cup {None}]
    /\ lines \in [Requests -> SUBSET LogLines]
    /\ inFlight \in Int
    /\ panics \in [Routes -> Nat]
    /\ series \subseteq Methods \X Routes \X Nat

Init ==
    /\ tracingOn \in BOOLEAN
    /\ pc = [r \in Requests |-> "idle"]
    /\ input = [r \in Requests |-> None]
    /\ unwind = [r \in Requests |-> "no"]
    /\ rec = [r \in Requests |-> FreshRecorders]
    /\ pattern = [r \in Requests |->
                    [server |-> None, traced |-> None, inner |-> None]]
    /\ ids = [r \in Requests |-> [request_id |-> None, trace_id |-> None]]
    /\ header = [r \in Requests |-> [request_id |-> None, trace_id |-> None]]
    /\ wire = [r \in Requests |-> None]
    /\ span = [r \in Requests |-> None]
    /\ metric = [r \in Requests |-> None]
    /\ lines = [r \in Requests |-> {}]
    /\ inFlight = 0
    /\ panics = [t \in Routes |-> 0]
    /\ series = InstrumentedRoutes      \* PreInit

At(r, loc) == pc[r] = loc
Go(r, loc) == pc' = [pc EXCEPT ![r] = loc]

-----------------------------------------------------------------------------
(* The way in *)

\* net/http hands a request to the chain.
Arrive(r) ==
    /\ At(r, "idle")
    /\ \E sent \in Inputs(r) : input' = [input EXCEPT ![r] = sent]
    /\ Go(r, "tracing")
    /\ UNCHANGED <<unwind, rec, pattern, ids, header, wire, span, metric, lines, shared>>

\* tracing.Middleware up to next: extract, start, join; the request is copied.
TracingIn(r) ==
    /\ At(r, "tracing")
    /\ IF Probe(r) THEN UNCHANGED <<span, ids, header>>
       ELSE /\ \E s \in SamplingChoices(input[r].parent) :
                 span' = [span EXCEPT ![r] =
                            [open |-> TRUE, sampled |-> s, code |-> "Unset",
                             route |-> None, status |-> 0, event |-> FALSE]]
            /\ IF ValidContext(r)
               THEN /\ ids' = [ids EXCEPT ![r].trace_id = r]
                    /\ header' = [header EXCEPT ![r].trace_id = r]
               ELSE UNCHANGED <<ids, header>>
    /\ Go(r, "metrics")
    /\ UNCHANGED <<input, unwind, rec, pattern, wire, metric, lines, shared>>

\* HTTP.Middleware up to next.
MetricsIn(r) ==
    /\ At(r, "metrics")
    /\ inFlight' = IF Probe(r) THEN inFlight ELSE inFlight + 1
    /\ Go(r, "requestid")
    /\ UNCHANGED <<input, unwind, rec, pattern, ids, header, wire, span, metric,
                   lines, panics, series>>

\* A sane inbound ID is kept, any other replaced by a fresh one.  A fresh ID is
\* unique, so it is named by its request.
SanitizeRequestID(v) == v = "sane"
requestID(r) == <<IF SanitizeRequestID(input[r].id) THEN "inbound" ELSE "fresh", r>>

\* Mutant: the response header is not set before the handler runs.
RequestIDLate(r) ==
    /\ At(r, "requestid")
    /\ ids' = [ids EXCEPT ![r].request_id = requestID(r)]
    /\ Go(r, "access")
    /\ UNCHANGED <<input, unwind, rec, pattern, header, wire, span, metric, lines, shared>>

\* RequestID up to next: the ID goes on the response and on the context of the
\* request's second copy.
RequestIDIn(r) ==
    /\ At(r, "requestid")
    /\ header' = [header EXCEPT ![r].request_id = requestID(r)]
    /\ ids' = [ids EXCEPT ![r].request_id = requestID(r)]
    /\ Go(r, "access")
    /\ UNCHANGED <<input, unwind, rec, pattern, wire, span, metric, lines, shared>>

\* AccessLog and Recover up to next.
AccessIn(r) ==
    /\ At(r, "access")
    /\ Go(r, "mux")
    /\ UNCHANGED <<input, unwind, rec, pattern, ids, header, wire, span, metric,
                   lines, shared>>

\* ServeMux sets Pattern on the request it was handed, the innermost copy.
Mux(r) ==
    /\ At(r, "mux")
    /\ pattern' = [pattern EXCEPT ![r].inner = Match(input[r].target)]
    /\ Go(r, "handler")
    /\ UNCHANGED <<input, unwind, rec, ids, header, wire, span, metric, lines, shared>>

-----------------------------------------------------------------------------
(* The handler *)

\* The handler logs a failure of the database and writes its response.
HandlerWrites(r) ==
    LET p == pattern[r].inner IN
    /\ At(r, "handler")
    /\ \E status \in Outcomes[p] :
          /\ writeJSON(r, status)
          /\ lines' = [lines EXCEPT ![r] = @ \cup
                IF LogsError(p, status)
                THEN {[msg |-> "failed", ids |-> ids[r], route |-> None, status |-> 0]}
                ELSE {}]
    /\ Go(r, "wrote")
    /\ UNCHANGED <<input, unwind, pattern, ids, header, span, metric, shared>>

HandlerReturns(r) ==
    /\ At(r, "wrote")
    /\ Go(r, "recover")
    /\ UNCHANGED <<input, unwind, rec, pattern, ids, header, wire, span, metric,
                   lines, shared>>

\* The handler panics, before it wrote its response or after; "abort" is
\* http.ErrAbortHandler.
HandlerPanics(r) ==
    /\ pc[r] \in {"handler", "wrote"}
    /\ \E kind \in {IF At(r, "wrote") THEN "late panic" ELSE "panic", "abort"} :
          unwind' = [unwind EXCEPT ![r] = kind]
    /\ Go(r, "recover")
    /\ UNCHANGED <<input, rec, pattern, ids, header, wire, span, metric, lines, shared>>

-----------------------------------------------------------------------------
(* The way out *)

\* Mutant: ErrAbortHandler is not singled out.
AnyPanic(r) == unwind[r] # "no"

\* recover() returned something that is not ErrAbortHandler.
Panicked(r) == unwind[r] \in {"panic", "late panic"}

\* Recover's deferred function: nothing to do, panic on, or count the panic,
\* mark the span, log, and write a 500.
RecoverOut(r) ==
    /\ At(r, "recover")
    /\ Go(r, "access out")
    /\ IF ~Panicked(r)
       THEN UNCHANGED <<rec, wire, span, lines, panics>>
       ELSE /\ panics' = [panics EXCEPT ![routeLabel(pattern[r].inner)] = @ + 1]
            /\ span' = IF Recording(r)
                       THEN [span EXCEPT ![r] = SetStatus([@ EXCEPT !.event = TRUE], "Error")]
                       ELSE span
            /\ lines' = [lines EXCEPT ![r] = @ \cup
                  {[msg |-> "handler panic", ids |-> ids[r], route |-> None, status |-> 0]}]
            /\ writeJSON(r, 500)
    /\ UNCHANGED <<input, unwind, pattern, ids, header, metric, inFlight, series>>

\* ErrAbortHandler is panicked on: the layers outside Recover only run their
\* deferred calls.
Unwinding(r) == unwind[r] = "abort"

\* AccessLog after next: one line.
AccessOut(r) ==
    /\ At(r, "access out")
    /\ lines' = [lines EXCEPT ![r] = @ \cup
          IF Probe(r) \/ Unwinding(r) THEN {}
          ELSE {[msg |-> "http request", ids |-> ids[r],
                 route |-> routePattern(pattern[r].inner),
                 status |-> rec[r]["access"].status]}]
    /\ Go(r, "requestid out")
    /\ UNCHANGED <<input, unwind, rec, pattern, ids, header, wire, span, metric, shared>>

\* Mutant: the copy keeps the routing result to itself.
NoCopyBack(r) ==
    /\ At(r, "requestid out")
    /\ Go(r, "metrics out")
    /\ UNCHANGED <<input, unwind, rec, pattern, ids, header, wire, span, metric, lines, shared>>

\* RequestID after next: the routing result is copied to the caller's request.
RequestIDOut(r) ==
    /\ At(r, "requestid out")
    /\ pattern' = IF Unwinding(r) THEN pattern
                  ELSE [pattern EXCEPT ![r].traced = pattern[r].inner]
    /\ Go(r, "metrics out")
    /\ UNCHANGED <<input, unwind, rec, ids, header, wire, span, metric, lines, shared>>

\* Mutant: the gauge is decremented by a plain call after next.
MetricsOutPlainDec(r) ==
    /\ At(r, "metrics out")
    /\ inFlight' = IF Probe(r) \/ Unwinding(r) THEN inFlight ELSE inFlight - 1
    /\ Go(r, "tracing out")
    /\ UNCHANGED <<input, unwind, rec, pattern, ids, header, wire, span, metric,
                   lines, panics, series>>

\* HTTP.Middleware after next: the sample, and the deferred decrement.
MetricsOut(r) ==
    LET route == routeLabel(pattern[r].traced)
        code  == rec[r]["metrics"].status IN
    /\ At(r, "metrics out")
    /\ inFlight' = IF Probe(r) THEN inFlight ELSE inFlight - 1
    /\ IF Probe(r) \/ Unwinding(r) THEN UNCHANGED <<metric, series>>
       ELSE /\ metric' = [metric EXCEPT ![r] =
                            [route |-> route, status |-> code,
                             exemplar |-> traceExemplar(r)]]
            /\ series' = series \cup {<<input[r].target[1], route, code>>}
    /\ Go(r, "tracing out")
    /\ UNCHANGED <<input, unwind, rec, pattern, ids, header, wire, span, lines, panics>>

\* tracing.Middleware after next: the route is copied back, the span is named,
\* gets its status and, deferred, ends.
TracingOut(r) ==
    LET code   == rec[r]["tracing"].status
        copied == pattern[r].traced
        named  == SetStatus([span[r] EXCEPT !.route = routeTemplate(copied), !.status = code],
                            IF code >= 500 THEN "Error" ELSE "Ok") IN
    /\ At(r, "tracing out")
    /\ IF Probe(r) THEN UNCHANGED <<span, pattern>>
       ELSE /\ pattern' = IF Unwinding(r) THEN pattern
                          ELSE [pattern EXCEPT ![r].server = copied]
            /\ span' = [span EXCEPT ![r] =
                  [(IF ~Recording(r) \/ Unwinding(r) THEN @ ELSE named)
                      EXCEPT !.open = FALSE]]
    /\ Go(r, "server")
    /\ UNCHANGED <<input, unwind, rec, ids, header, wire, metric, lines, shared>>

\* net/http finishes: a handler that wrote nothing has answered 200; after a
\* panic that reached the server the connection is closed.
Finish(r) ==
    /\ At(r, "server")
    /\ wire' = [wire EXCEPT ![r] =
                   IF @ = None /\ ~Unwinding(r)
                   THEN [status |-> 200, header |-> header[r]] ELSE @]
    /\ Go(r, "done")
    /\ UNCHANGED <<input, unwind, rec, pattern, ids, header, span, metric, lines, shared>>

-----------------------------------------------------------------------------
Step(r) ==
    \/ Arrive(r) \/ TracingIn(r) \/ MetricsIn(r) \/ RequestIDIn(r) \/ AccessIn(r)
    \/ Mux(r) \/ HandlerWrites(r) \/ HandlerReturns(r)
    \/ HandlerPanics(r) \/ RecoverOut(r) \/ AccessOut(r) \/ RequestIDOut(r) \/ MetricsOut(r)
    \/ TracingOut(r) \/ Finish(r)

\* All requests of the instance have been dealt with.
Quiet == (\A r \in Requests : At(r, "done")) /\ UNCHANGED vars

Next ==
    /\ (\E r \in Requests : Step(r)) \/ Quiet
    /\ UNCHANGED tracingOn

Spec == Init /\ [][Next]_vars

-----------------------------------------------------------------------------
(* Properties *)

Served(r) == At(r, "done") /\ ~Unwinding(r)
Line(r, msg) == {l \in lines[r] : l.msg = msg}

\* The claim of httpapi/logging.go:62-65 and of the copies at logging.go:51 and
\* tracing/http.go:72: for a request that was served, the metric sample, the
\* one access line and the recorded span give the same route and status, the
\* route is the template the mux matched, and the status is what the client got.
PillarsAgree ==
    \A r \in Requests : Served(r) /\ ~Probe(r) =>
        LET truth == <<routeLabel(Match(input[r].target)), wire[r].status>> IN
        /\ metric[r] # None
        /\ <<metric[r].route, metric[r].status>> = truth
        /\ {<<l.route, l.status>> : l \in Line(r, "http request")} = {truth}
        /\ Recording(r) => <<span[r].route, span[r].status>> = truth

\* metrics/http.go:234-235: the gauge is the number of requests inside the
\* metrics layer, however they leave it.
InFlightExact ==
    inFlight = Cardinality({r \in Requests :
        /\ pc[r] \in {"requestid", "access", "mux", "handler", "wrote", "recover",
                      "access out", "requestid out", "metrics out"}
        /\ ~Probe(r)})

\* httpapi/middleware.go:29-49: every panic past Recover is counted once, under
\* the route the mux matched although the copies outside do not know it yet,
\* an abort never is; and a panic that comes before the response reaches the
\* client as a 500 and leaves a failed span.
PanicsCounted ==
    /\ \A t \in Routes :
          panics[t] = Cardinality({r \in Requests :
             /\ unwind[r] \in {"panic", "late panic"}
             /\ pc[r] \notin {"handler", "wrote", "recover"}
             /\ routeLabel(Match(input[r].target)) = t})
    /\ \A r \in Requests : At(r, "done") /\ unwind[r] = "panic" =>
          /\ wire[r].status = 500
          /\ Recording(r) => span[r].code = "Error" /\ span[r].event

\* httpapi/logging.go:31-36 and metrics/exemplar.go:44-47, whichever layer writes
\* first: every response carries the request ID, and the trace ID where there is
\* one, that all log lines of the request carry; and an exemplar names that trace
\* only if it is sampled and so recorded, by the caller that sampled it or by a
\* span of this process, which is still open when the exemplar is attached.
CorrelationHolds ==
    \A r \in Requests :
        /\ wire[r] # None =>
              /\ wire[r].header.request_id # None
              /\ \A l \in lines[r] : l.ids.request_id = wire[r].header.request_id
              /\ ~Probe(r) => \A l \in lines[r] : l.ids.trace_id = wire[r].header.trace_id
        /\ metric[r] # None /\ metric[r].exemplar =>
              /\ ids[r].trace_id # None
              /\ span[r] # None /\ span[r].sampled
              /\ input[r].parent = "sampled" \/ Recording(r)
              /\ At(r, "tracing out") => span[r].open

=============================================================================
