------------------------- MODULE RequestChainProofs -------------------------
(***************************************************************************)
(* Theorems about RequestChain, for any number of concurrent requests and   *)
(* anything a client may send.                                              *)
(*                                                                         *)
(* Requests meet only in the gauge and the counters.  What a layer reports  *)
(* depends on what the layers inside it did before, so ChainInv follows one *)
(* request through the chain: which copy of it knows the route (RouteInv),  *)
(* that all recorders and the client have seen the same write (WriteInv),   *)
(* what a panic has left behind (PanicInv), which IDs are where (IdInv),    *)
(* and what span, access line and sample say (SpanInv, LineInv, SampleInv). *)
(***************************************************************************)
EXTENDS RequestChain, FiniteSetTheorems, TLAPS

\* The locations behind each step of the way out.
Ended     == {"server", "done"}
Measured  == Ended \cup {"tracing out"}
Copied    == Measured \cup {"metrics out"}
Logged    == Copied \cup {"requestid out"}
Recovered == Logged \cup {"access out"}
Routed    == Recovered \cup {"handler", "wrote", "recover"}
Named     == Routed \cup {"access", "mux"}

Truth(r) == routeLabel(Match(input[r].target))
Code(r)  == rec[r]["tracing"].status
Wrote(r) == rec[r]["tracing"].wroteHeader

RouteInv(r) ==
    /\ pc[r] # "idle" => input[r] \in Messages
    /\ pc[r] \in Routed => pattern[r].inner = Match(input[r].target)
    /\ pc[r] \in Copied /\ ~Unwinding(r) => pattern[r].traced = Match(input[r].target)

WriteInv(r) ==
    /\ \A l \in Layers : rec[r][l] = rec[r]["tracing"]
    /\ ~Wrote(r) => Code(r) = 200
    /\ pc[r] \notin Routed \/ pc[r] = "handler" => ~Wrote(r) /\ wire[r] = None /\ unwind[r] = "no"
    /\ pc[r] = "wrote" => unwind[r] = "no"
    /\ Wrote(r) => wire[r] # None /\ wire[r].status = Code(r)
    /\ wire[r] # None /\ ~Wrote(r) => pc[r] = "done" \/ Probe(r)
    /\ pc[r] = "done" /\ ~Unwinding(r) =>
          wire[r] # None /\ (~Probe(r) => wire[r].status = Code(r))

\* A panic that came before the response.
PanicInv(r) ==
    unwind[r] = "panic" =>
        /\ pc[r] = "recover" => ~Wrote(r) /\ wire[r] = None
        /\ pc[r] \in Recovered =>
              /\ wire[r] # None /\ wire[r].status = 500
              /\ ~Probe(r) => Wrote(r)
              /\ Recording(r) => span[r].code = "Error" /\ span[r].event

IdInv(r) ==
    /\ ids[r] = header[r]
    /\ pc[r] \in Named => header[r].request_id # None
    /\ pc[r] \notin Routed => lines[r] = {}
    /\ \A l \in lines[r] : l.ids = ids[r]
    /\ wire[r] # None => wire[r].header = header[r]

SpanInv(r) ==
    /\ pc[r] \in {"idle", "tracing"} => span[r] = None
    /\ pc[r] \notin {"idle", "tracing"} /\ ~Probe(r) => span[r] # None
    /\ span[r] # None =>
          /\ pc[r] \notin Ended => span[r].open /\ span[r].code # "Ok"
          /\ span[r].sampled =>
                /\ ids[r].trace_id # None
                /\ input[r].parent = "sampled" \/ (tracingOn /\ input[r].parent = None)
          /\ pc[r] \in Ended /\ Recording(r) /\ ~Unwinding(r) =>
                span[r].route = Truth(r) /\ span[r].status = Code(r)
          /\ ~Probe(r)

LineInv(r) ==
    LET Told == {<<l.route, l.status>> : l \in Line(r, "http request")}
    IN  /\ pc[r] \notin Logged => Told = {}
        /\ pc[r] \in Logged /\ ~Probe(r) /\ ~Unwinding(r) => Told = {<<Truth(r), Code(r)>>}

SampleInv(r) ==
    /\ pc[r] \notin Measured => metric[r] = None
    /\ pc[r] \in Measured /\ ~Probe(r) /\ ~Unwinding(r) =>
          metric[r] # None /\ metric[r].route = Truth(r) /\ metric[r].status = Code(r)
    /\ metric[r] # None /\ metric[r].exemplar => span[r] # None /\ span[r].sampled

ChainInv(r) ==
    RouteInv(r) /\ WriteInv(r) /\ PanicInv(r) /\ IdInv(r) /\ SpanInv(r) /\ LineInv(r) /\
        SampleInv(r)

IInv == TypeOK /\ \A r \in Requests : ChainInv(r)
-----------------------------------------------------------------------------
(* The operators *)

\* A matched pattern is a registered one.
LEMMA MatchType == \A target : Match(target) \in Patterns
  BY DEF Match, Patterns

\* The path of the catch-all.
LEMMA CatchAll == ASSUME NEW p, p = <<"", "/">> PROVE p[2] = "/"
  BY Zenon

\* Every label is one of the closed set.
LEMMA LabelType == \A p \in Patterns \cup {None} : routeLabel(p) \in Routes
<1> SUFFICES ASSUME NEW p \in Patterns \cup {None} PROVE routeLabel(p) \in Routes
  OBVIOUS
<1>1. CASE p = None \/ p[2] = "/"
  <2>1. routeLabel(p) = "unmatched"  BY <1>1 DEF routeLabel
  <2> QED  BY <2>1 DEF Routes
<1>2. CASE p # None /\ p[2] # "/"
  <2>1. routeLabel(p) = p[2]  BY <1>2 DEF routeLabel
  <2>2. p # <<"", "/">>  BY <1>2, CatchAll
  <2> QED  BY <1>2, <2>1, <2>2, Zenon DEF Routes
<1> QED  BY <1>1, <1>2

\* The three copies of the labelling agree.
LEMMA LabelsAgree ==
    \A p : routePattern(p) = routeLabel(p) /\ routeTemplate(p) = routeLabel(p)
  BY DEF routePattern, routeTemplate, routeLabel

\* The registered patterns are the seven, or six of them.
LEMMA PatternCases ==
    ASSUME NEW p \in Patterns
    PROVE  \/ p = <<"POST", "/orders">> \/ p = <<"GET", "/orders">> \/ p = <<"GET", "/orders/{id}">>
           \/ p = <<"GET", "/healthz">> \/ p = <<"GET", "/readyz">> \/ p = <<"", "/">>
           \/ p = <<"GET", "/debug/slow">>
  BY Zenon DEF Patterns

\* Every handler writes statuses.
LEMMA OutcomeType == \A p \in Patterns : Outcomes[p] \subseteq Nat
<1> SUFFICES ASSUME NEW p \in Patterns PROVE Outcomes[p] \subseteq Nat
  OBVIOUS
<1> DEFINE Statuses == createOrder \cup listOrders \cup getOrder \cup healthz \cup readyz \cup slowQuery \cup noEndpoint
<1>1. Outcomes[p] =
        CASE p = <<"POST", "/orders">>     -> createOrder
          [] p = <<"GET", "/orders">>      -> listOrders
          [] p = <<"GET", "/orders/{id}">> -> getOrder
          [] p = <<"GET", "/healthz">>     -> healthz
          [] p = <<"GET", "/readyz">>      -> readyz
          [] p = <<"GET", "/debug/slow">>  -> slowQuery
          [] p = <<"", "/">>               -> noEndpoint
  BY DEF Outcomes
<1>2. Outcomes[p] \subseteq Statuses
  BY <1>1, PatternCases
<1>3. Statuses \subseteq Nat
  BY DEF createOrder, getOrder, listOrders, healthz, readyz, slowQuery, noEndpoint
<1> QED  BY <1>2, <1>3

\* Recorders that agree take a write together, the first one only.
LEMMA WriteTogether ==
    ASSUME NEW rs \in [Layers -> [status : Nat, wroteHeader : BOOLEAN]], NEW code \in Nat,
           \A l \in Layers : rs[l] = rs["tracing"]
    PROVE  /\ Reaches(rs, "tracing") <=> ~rs["tracing"].wroteHeader
           /\ WriteHeader(rs, code) \in [Layers -> [status : Nat, wroteHeader : BOOLEAN]]
           /\ \A l \in Layers : WriteHeader(rs, code)[l] =
                  IF rs["tracing"].wroteHeader THEN rs["tracing"] ELSE [status |-> code, wroteHeader |-> TRUE]
  BY DEF Reaches, Inside, Layers, WriteHeader

-----------------------------------------------------------------------------
(* One request *)

\* The types of what belongs to one request.
LEMMA LocalTypes ==
    ASSUME TypeOK, NEW r \in Requests
    PROVE  /\ tracingOn \in BOOLEAN
           /\ pc[r] \in Locations /\ input[r] \in Messages \cup {None}
           /\ unwind[r] \in {"no", "panic", "late panic", "abort"}
           /\ rec[r] \in [Layers -> [status : Nat, wroteHeader : BOOLEAN]]
           /\ pattern[r] \in [server : Patterns \cup {None}, traced : Patterns \cup {None},
                              inner : Patterns \cup {None}]
           /\ ids[r] \in Correlation /\ header[r] \in Correlation
           /\ wire[r] \in Responses \cup {None} /\ span[r] \in Spans \cup {None}
           /\ metric[r] \in Samples \cup {None} /\ lines[r] \subseteq LogLines
  BY DEF TypeOK

\* A request that no step touches keeps its invariant.
LEMMA Untouched ==
    ASSUME NEW r \in Requests, ChainInv(r), tracingOn' = tracingOn,
           pc'[r] = pc[r], input'[r] = input[r], unwind'[r] = unwind[r], rec'[r] = rec[r],
           pattern'[r] = pattern[r], ids'[r] = ids[r], header'[r] = header[r], wire'[r] = wire[r],
           span'[r] = span[r], metric'[r] = metric[r], lines'[r] = lines[r]
    PROVE  ChainInv(r)'
<1> USE DEF Unwinding, Probe, Wrote, Code, Truth, Recording, Line
<1>1. RouteInv(r)'  BY DEF ChainInv, RouteInv
<1>2. WriteInv(r)'  BY DEF ChainInv, WriteInv
<1>3. PanicInv(r)'  BY DEF ChainInv, PanicInv
<1>4. IdInv(r)'  BY DEF ChainInv, IdInv
<1>5. SpanInv(r)'  BY DEF ChainInv, SpanInv
<1>6. LineInv(r)'  BY DEF ChainInv, LineInv
<1>7. SampleInv(r)'  BY DEF ChainInv, SampleInv
<1> QED  BY <1>1, <1>2, <1>3, <1>4, <1>5, <1>6, <1>7 DEF ChainInv

\* The state of one request, as a step of another leaves it.
Same(r) ==
    /\ pc'[r] = pc[r] /\ input'[r] = input[r] /\ unwind'[r] = unwind[r] /\ rec'[r] = rec[r]
    /\ pattern'[r] = pattern[r] /\ ids'[r] = ids[r] /\ header'[r] = header[r]
    /\ wire'[r] = wire[r] /\ span'[r] = span[r] /\ metric'[r] = metric[r] /\ lines'[r] = lines[r]

\* A step changes nothing of any other request.
LEMMA Apart ==
    ASSUME TypeOK, NEW q \in Requests, Step(q), NEW r \in Requests, r # q
    PROVE  Same(r)
<1> USE DEF Same, Go, TypeOK, shared
<1>1. CASE Arrive(q)  BY <1>1 DEF Arrive
<1>2. CASE TracingIn(q)  BY <1>2 DEF TracingIn
<1>3. CASE MetricsIn(q)  BY <1>3 DEF MetricsIn
<1>4. CASE RequestIDIn(q)  BY <1>4 DEF RequestIDIn
<1>5. CASE AccessIn(q)  BY <1>5 DEF AccessIn
<1>6. CASE Mux(q)  BY <1>6 DEF Mux
<1>7. CASE HandlerWrites(q)  BY <1>7 DEF HandlerWrites, writeJSON
<1>8. CASE HandlerReturns(q)  BY <1>8 DEF HandlerReturns
<1>9. CASE HandlerPanics(q)  BY <1>9 DEF HandlerPanics
<1>10. CASE RecoverOut(q)
  <2>1. /\ pc'[r] = pc[r] /\ input'[r] = input[r] /\ unwind'[r] = unwind[r]
        /\ pattern'[r] = pattern[r]
        /\ ids'[r] = ids[r] /\ header'[r] = header[r] /\ metric'[r] = metric[r]
    BY <1>10 DEF RecoverOut
  <2>2. CASE ~Panicked(q)  BY <1>10, <2>1, <2>2 DEF RecoverOut
  <2>3. CASE Panicked(q)
    <3>1. rec'[r] = rec[r] /\ wire'[r] = wire[r]
      <4>1. writeJSON(q, 500)  BY <1>10, <2>3 DEF RecoverOut
      <4> QED  BY <4>1 DEF writeJSON
    <3>2. lines'[r] = lines[r]  BY <1>10, <2>3 DEF RecoverOut
    <3>3. span'[r] = span[r]
      <4>1. CASE Recording(q)
        <5> DEFINE failed == SetStatus([span[q] EXCEPT !.event = TRUE], "Error")
        <5>1. span' = [span EXCEPT ![q] = failed]  BY <1>10, <2>3, <4>1 DEF RecoverOut
        <5> HIDE DEF failed
        <5> QED  BY <5>1
      <4>2. CASE ~Recording(q)  BY <1>10, <2>3, <4>2 DEF RecoverOut
      <4> QED  BY <4>1, <4>2
    <3> QED  BY <2>1, <3>1, <3>2, <3>3
  <2> QED  BY <2>2, <2>3
<1>11. CASE AccessOut(q)  BY <1>11 DEF AccessOut
<1>12. CASE RequestIDOut(q)  BY <1>12 DEF RequestIDOut
<1>13. CASE MetricsOut(q)  BY <1>13 DEF MetricsOut
<1>14. CASE TracingOut(q)  BY <1>14 DEF TracingOut
<1>15. CASE Finish(q)  BY <1>15 DEF Finish
<1> QED
  BY <1>1, <1>2, <1>3, <1>4, <1>5, <1>6, <1>7, <1>8, <1>9, <1>10, <1>11, <1>12, <1>13, <1>14,
     <1>15 DEF Step


-----------------------------------------------------------------------------
(* The way in *)

\* A request arrives.
LEMMA ArriveKeeps ==
    ASSUME TypeOK, NEW q \in Requests, ChainInv(q), tracingOn' = tracingOn, Arrive(q)
    PROVE  TypeOK' /\ ChainInv(q)'
<1> USE DEF At, Go, shared
<1>f0. input'[q] \in Messages
  BY InputAssumption DEF Arrive, TypeOK
<1>same. unwind' = unwind /\ rec' = rec /\ pattern' = pattern /\ ids' = ids /\ header' = header /\
    wire' = wire /\ span' = span /\ metric' = metric /\ lines' = lines /\ inFlight' = inFlight /\
    panics' = panics /\ series' = series
  BY DEF Arrive
<1>kept. (Unwinding(q)' <=> Unwinding(q)) /\ (Wrote(q)' <=> Wrote(q)) /\ Code(q)' = Code(q) /\
    (Recording(q)' <=> Recording(q)) /\ Line(q, "http request")' = Line(q, "http request")
  BY <1>same DEF Unwinding, Wrote, Code, Recording, Line
<1>tpc. pc' \in [Requests -> Locations]  BY DEF Arrive, TypeOK, Locations
<1>tinput. input' \in [Requests -> Messages \cup {None}]
  BY InputAssumption DEF Arrive, TypeOK
<1>type. TypeOK'  BY <1>tpc, <1>tinput, <1>same DEF TypeOK
<1>pc. pc[q] = "idle"
  BY DEF Arrive
<1>at. pc'[q] = "tracing"
  BY DEF Arrive, TypeOK
<1> USE DEF ChainInv, Ended, Measured, Copied, Logged, Recovered, Routed, Named
<1>RouteInv. RouteInv(q)'  BY <1>pc, <1>at, <1>f0, <1>same, <1>kept DEF RouteInv, WriteInv
<1>WriteInv. WriteInv(q)'  BY <1>pc, <1>at, <1>same, <1>kept DEF WriteInv
<1>PanicInv. PanicInv(q)'  BY <1>pc, <1>at, <1>same, <1>kept DEF PanicInv, WriteInv
<1>IdInv. IdInv(q)'  BY <1>pc, <1>at, <1>same, <1>kept DEF IdInv
<1>SpanInv. SpanInv(q)'  BY <1>pc, <1>at, <1>same, <1>kept DEF SpanInv
<1>LineInv. LineInv(q)'  BY <1>pc, <1>at, <1>same, <1>kept DEF LineInv, Line, IdInv
<1>SampleInv. SampleInv(q)'  BY <1>pc, <1>at, <1>same, <1>kept DEF SampleInv
<1> QED
  BY <1>type, <1>RouteInv, <1>WriteInv, <1>PanicInv, <1>IdInv, <1>SpanInv, <1>LineInv,
     <1>SampleInv


\* Setting one of the two IDs leaves the other.
LEMMA SetRequestID ==
    ASSUME NEW c \in Correlation, NEW id \in {"inbound", "fresh"} \X Requests
    PROVE  /\ [c EXCEPT !.request_id = id] \in Correlation
           /\ [c EXCEPT !.request_id = id].request_id = id
           /\ [c EXCEPT !.request_id = id].trace_id = c.trace_id
  BY DEF Correlation

\* Likewise.
LEMMA SetTraceID ==
    ASSUME NEW c \in Correlation, NEW t \in Requests
    PROVE  /\ [c EXCEPT !.trace_id = t] \in Correlation
           /\ [c EXCEPT !.trace_id = t].trace_id = t
  BY DEF Correlation

\* The sampling decision, and when it can be to sample.
LEMMA Sampling ==
    ASSUME tracingOn \in BOOLEAN, NEW parent \in {None, "sampled", "unsampled"},
           NEW s \in SamplingChoices(parent)
    PROVE  /\ s \in BOOLEAN
           /\ s => parent = "sampled" \/ (tracingOn /\ parent = None)
           /\ s => tracingOn \/ parent # None
<1>1. CASE parent # None
  <2>1. s = (parent = "sampled")  BY <1>1 DEF SamplingChoices
  <2> QED  BY <1>1, <2>1, Zenon
<1>2. CASE parent = None /\ tracingOn
  <2>1. s \in BOOLEAN  BY <1>2, Zenon DEF SamplingChoices
  <2> QED  BY <1>2, <2>1, Zenon
<1>3. CASE parent = None /\ ~tracingOn
  <2>1. s = FALSE  BY <1>3, Zenon DEF SamplingChoices
  <2> QED  BY <2>1, Zenon
<1> QED  BY <1>1, <1>2, <1>3

\* Entering the tracing layer.
LEMMA TracingInKeeps ==
    ASSUME TypeOK, NEW q \in Requests, ChainInv(q), tracingOn' = tracingOn, TracingIn(q)
    PROVE  TypeOK' /\ ChainInv(q)'
<1> USE DEF At, Go, shared
<1>loc. /\ pc[q] = "tracing" /\ input[q] \in Messages /\ span[q] = None
        /\ ids[q] = header[q] /\ ids[q] \in Correlation
        /\ ids \in [Requests -> Correlation] /\ header \in [Requests -> Correlation]
        /\ span \in [Requests -> Spans \cup {None}] /\ tracingOn \in BOOLEAN
  BY LocalTypes DEF TracingIn, ChainInv, RouteInv, SpanInv, IdInv, TypeOK
<1> DEFINE joined == [ids[q] EXCEPT !.trace_id = q]
<1>ids. \/ ids' = ids /\ header' = header /\ (Probe(q) \/ ~ValidContext(q))
        \/ ids' = [ids EXCEPT ![q] = joined] /\ header' = [header EXCEPT ![q] = joined]
  BY <1>loc DEF TracingIn
<1>joined. joined \in Correlation /\ joined.trace_id # None
  BY <1>loc, SetTraceID, NoneAssumption
<1> DEFINE begun(s) == [open |-> TRUE, sampled |-> s, code |-> "Unset",
                        route |-> None, status |-> 0, event |-> FALSE]
<1>span. \/ Probe(q) /\ span' = span
         \/ ~Probe(q) /\
             \E s \in SamplingChoices(input[q].parent) : span' = [span EXCEPT ![q] = begun(s)]
  BY DEF TracingIn
<1>parent. input[q].parent \in {None, "sampled", "unsampled"}
  BY <1>loc DEF Messages
<1>begun. ASSUME NEW s \in BOOLEAN
          PROVE  /\ begun(s) \in Spans /\ begun(s) # None /\ begun(s).open
                 /\ begun(s).code = "Unset" /\ (begun(s).sampled <=> s)
  <2>1. begun(s) \in Spans  BY <1>begun DEF Spans
  <2>2. begun(s).open /\ begun(s).code = "Unset" /\ begun(s).sampled = s  OBVIOUS
  <2> HIDE DEF begun
  <2> QED  BY <2>1, <2>2, NoneAssumption
<1> HIDE DEF joined, begun
<1>f0. ids'[q] = header'[q]
  BY <1>ids, <1>loc
<1>f1. span'[q] # None =>
           /\ ~Probe(q) /\ span'[q].open /\ span'[q].code = "Unset"
           /\ span'[q].sampled =>
                 /\ ids'[q].trace_id # None
                 /\ input[q].parent = "sampled" \/ (tracingOn /\ input[q].parent = None)
  <2>1. CASE Probe(q)  BY <2>1, <1>span, <1>loc
  <2>2. CASE ~Probe(q)
    <3>1. PICK s \in SamplingChoices(input[q].parent) : span' = [span EXCEPT ![q] = begun(s)]
      BY <2>2, <1>span
    <3>2. span'[q] = begun(s)  BY <3>1, <1>loc
    <3>3. /\ s \in BOOLEAN
          /\ s => input[q].parent = "sampled" \/ (tracingOn /\ input[q].parent = None)
          /\ s => ValidContext(q)
      BY <1>loc, <1>parent, Sampling, Zenon DEF ValidContext
    <3>4. ValidContext(q) => ids'[q].trace_id # None  BY <2>2, <1>ids, <1>joined, <1>loc
    <3> QED  BY <2>2, <3>2, <3>3, <3>4, <1>begun
  <2> QED  BY <2>1, <2>2
<1>f2. ~Probe(q) => span'[q] # None
  BY <1>span, <1>loc, <1>parent, <1>begun, Sampling
<1>same. input' = input /\ unwind' = unwind /\ rec' = rec /\ pattern' = pattern /\ wire' = wire /\
    metric' = metric /\ lines' = lines /\ inFlight' = inFlight /\ panics' = panics /\
    series' = series
  BY DEF TracingIn
<1>kept. (Unwinding(q)' <=> Unwinding(q)) /\ (Probe(q)' <=> Probe(q)) /\ (Wrote(q)' <=> Wrote(q)) /\
    Code(q)' = Code(q) /\ Truth(q)' = Truth(q) /\
    Line(q, "http request")' = Line(q, "http request")
  BY <1>same DEF Unwinding, Probe, Wrote, Code, Truth, Line
<1>tpc. pc' \in [Requests -> Locations]  BY DEF TracingIn, TypeOK, Locations
<1>tspan. span' \in [Requests -> Spans \cup {None}]
  <2>1. CASE Probe(q)  BY <2>1, <1>span, <1>loc
  <2>2. CASE ~Probe(q)
    <3>1. PICK s \in SamplingChoices(input[q].parent) : span' = [span EXCEPT ![q] = begun(s)]
      BY <2>2, <1>span
    <3>2. begun(s) \in Spans  BY <1>loc, <1>parent, <1>begun, Sampling, Zenon
    <3> QED  BY <3>1, <3>2, <1>loc
  <2> QED  BY <2>1, <2>2
<1>tids. ids' \in [Requests -> Correlation]
  BY <1>ids, <1>joined, <1>loc
<1>theader. header' \in [Requests -> Correlation]
  BY <1>ids, <1>joined, <1>loc
<1>type. TypeOK'  BY <1>tpc, <1>tspan, <1>tids, <1>theader, <1>same DEF TypeOK
<1>pc. pc[q] = "tracing"
  BY DEF TracingIn
<1>at. pc'[q] = "metrics"
  BY DEF TracingIn, TypeOK
<1> USE DEF ChainInv, Ended, Measured, Copied, Logged, Recovered, Routed, Named
<1>RouteInv. RouteInv(q)'  BY <1>pc, <1>at, <1>same, <1>kept DEF RouteInv
<1>WriteInv. WriteInv(q)'  BY <1>pc, <1>at, <1>same, <1>kept DEF WriteInv
<1>PanicInv. PanicInv(q)'  BY <1>pc, <1>at, <1>same, <1>kept DEF PanicInv, WriteInv
<1>IdInv. IdInv(q)'  BY <1>pc, <1>at, <1>f0, <1>same, <1>kept DEF IdInv, WriteInv
<1>SpanInv. SpanInv(q)'  BY <1>pc, <1>at, <1>f1, <1>f2, <1>same, <1>kept DEF SpanInv
<1>LineInv. LineInv(q)'  BY <1>pc, <1>at, <1>same, <1>kept DEF LineInv
<1>SampleInv. SampleInv(q)'  BY <1>pc, <1>at, <1>same, <1>kept DEF SampleInv
<1> QED
  BY <1>type, <1>RouteInv, <1>WriteInv, <1>PanicInv, <1>IdInv, <1>SpanInv, <1>LineInv,
     <1>SampleInv

\* Entering the metrics layer.
LEMMA MetricsInKeeps ==
    ASSUME TypeOK, NEW q \in Requests, ChainInv(q), tracingOn' = tracingOn, MetricsIn(q)
    PROVE  TypeOK' /\ ChainInv(q)'
<1> USE DEF At, Go, shared
<1>same. input' = input /\ unwind' = unwind /\ rec' = rec /\ pattern' = pattern /\ ids' = ids /\
    header' = header /\ wire' = wire /\ span' = span /\ metric' = metric /\ lines' = lines /\
    panics' = panics /\ series' = series
  BY DEF MetricsIn
<1>kept. (Unwinding(q)' <=> Unwinding(q)) /\ (Probe(q)' <=> Probe(q)) /\ (Wrote(q)' <=> Wrote(q)) /\
    Code(q)' = Code(q) /\ Truth(q)' = Truth(q) /\ (Recording(q)' <=> Recording(q)) /\
    Line(q, "http request")' = Line(q, "http request")
  BY <1>same DEF Unwinding, Probe, Wrote, Code, Truth, Recording, Line
<1>tpc. pc' \in [Requests -> Locations]  BY DEF MetricsIn, TypeOK, Locations
<1>tinFlight. inFlight' \in Int
  <2>1. inFlight \in Int  BY DEF TypeOK
  <2>2. inFlight' = inFlight \/ inFlight' = inFlight + 1  BY DEF MetricsIn
  <2> QED  BY <2>1, <2>2
<1>type. TypeOK'  BY <1>tpc, <1>tinFlight, <1>same DEF TypeOK
<1>pc. pc[q] = "metrics"
  BY DEF MetricsIn
<1>at. pc'[q] = "requestid"
  BY DEF MetricsIn, TypeOK
<1> USE DEF ChainInv, Ended, Measured, Copied, Logged, Recovered, Routed, Named
<1>RouteInv. RouteInv(q)'  BY <1>pc, <1>at, <1>same, <1>kept DEF RouteInv
<1>WriteInv. WriteInv(q)'  BY <1>pc, <1>at, <1>same, <1>kept DEF WriteInv
<1>PanicInv. PanicInv(q)'  BY <1>pc, <1>at, <1>same, <1>kept DEF PanicInv
<1>IdInv. IdInv(q)'  BY <1>pc, <1>at, <1>same, <1>kept DEF IdInv
<1>SpanInv. SpanInv(q)'  BY <1>pc, <1>at, <1>same, <1>kept DEF SpanInv
<1>LineInv. LineInv(q)'  BY <1>pc, <1>at, <1>same, <1>kept DEF LineInv
<1>SampleInv. SampleInv(q)'  BY <1>pc, <1>at, <1>same, <1>kept DEF SampleInv
<1> QED
  BY <1>type, <1>RouteInv, <1>WriteInv, <1>PanicInv, <1>IdInv, <1>SpanInv, <1>LineInv,
     <1>SampleInv

\* The request ID.
LEMMA RequestIDInKeeps ==
    ASSUME TypeOK, NEW q \in Requests, ChainInv(q), tracingOn' = tracingOn, RequestIDIn(q)
    PROVE  TypeOK' /\ ChainInv(q)'
<1> USE DEF At, Go, shared
<1>loc. /\ ids[q] = header[q] /\ ids[q] \in Correlation
        /\ ids \in [Requests -> Correlation] /\ header \in [Requests -> Correlation]
  BY LocalTypes DEF ChainInv, IdInv, TypeOK
<1> DEFINE named == [ids[q] EXCEPT !.request_id = requestID(q)]
<1>ids. ids' = [ids EXCEPT ![q] = named] /\ header' = [header EXCEPT ![q] = named]
  BY <1>loc DEF RequestIDIn
<1>id. requestID(q) \in {"inbound", "fresh"} \X Requests
  BY DEF requestID
<1>named. named \in Correlation /\ named.request_id # None /\ named.trace_id = ids[q].trace_id
  BY <1>loc, <1>id, SetRequestID, NoneAssumption
<1> HIDE DEF named
<1>f0. ids'[q] = header'[q] /\ ids'[q].trace_id = ids[q].trace_id /\ header'[q].request_id # None
  BY <1>ids, <1>loc, <1>named
<1>same. input' = input /\ unwind' = unwind /\ rec' = rec /\ pattern' = pattern /\ wire' = wire /\
    span' = span /\ metric' = metric /\ lines' = lines /\ inFlight' = inFlight /\
    panics' = panics /\ series' = series
  BY DEF RequestIDIn
<1>kept. (Unwinding(q)' <=> Unwinding(q)) /\ (Probe(q)' <=> Probe(q)) /\ (Wrote(q)' <=> Wrote(q)) /\
    Code(q)' = Code(q) /\ Truth(q)' = Truth(q) /\ (Recording(q)' <=> Recording(q)) /\
    Line(q, "http request")' = Line(q, "http request")
  BY <1>same DEF Unwinding, Probe, Wrote, Code, Truth, Recording, Line
<1>tpc. pc' \in [Requests -> Locations]  BY DEF RequestIDIn, TypeOK, Locations
<1>tids. ids' \in [Requests -> Correlation]
  BY <1>ids, <1>loc, <1>named
<1>theader. header' \in [Requests -> Correlation]
  BY <1>ids, <1>loc, <1>named
<1>type. TypeOK'  BY <1>tpc, <1>tids, <1>theader, <1>same DEF TypeOK
<1>pc. pc[q] = "requestid"
  BY DEF RequestIDIn
<1>at. pc'[q] = "access"
  BY DEF RequestIDIn, TypeOK
<1> USE DEF ChainInv, Ended, Measured, Copied, Logged, Recovered, Routed, Named
<1>RouteInv. RouteInv(q)'  BY <1>pc, <1>at, <1>same, <1>kept DEF RouteInv
<1>WriteInv. WriteInv(q)'  BY <1>pc, <1>at, <1>same, <1>kept DEF WriteInv
<1>PanicInv. PanicInv(q)'  BY <1>pc, <1>at, <1>same, <1>kept DEF PanicInv
<1>IdInv. IdInv(q)'  BY <1>pc, <1>at, <1>f0, <1>same, <1>kept DEF IdInv, WriteInv
<1>SpanInv. SpanInv(q)'  BY <1>pc, <1>at, <1>f0, <1>same, <1>kept DEF SpanInv
<1>LineInv. LineInv(q)'  BY <1>pc, <1>at, <1>same, <1>kept DEF LineInv
<1>SampleInv. SampleInv(q)'  BY <1>pc, <1>at, <1>same, <1>kept DEF SampleInv
<1> QED
  BY <1>type, <1>RouteInv, <1>WriteInv, <1>PanicInv, <1>IdInv, <1>SpanInv, <1>LineInv,
     <1>SampleInv

\* Entering the access log and Recover.
LEMMA AccessInKeeps ==
    ASSUME TypeOK, NEW q \in Requests, ChainInv(q), tracingOn' = tracingOn, AccessIn(q)
    PROVE  TypeOK' /\ ChainInv(q)'
<1> USE DEF At, Go, shared
<1>same. input' = input /\ unwind' = unwind /\ rec' = rec /\ pattern' = pattern /\ ids' = ids /\
    header' = header /\ wire' = wire /\ span' = span /\ metric' = metric /\ lines' = lines /\
    inFlight' = inFlight /\ panics' = panics /\ series' = series
  BY DEF AccessIn
<1>kept. (Unwinding(q)' <=> Unwinding(q)) /\ (Probe(q)' <=> Probe(q)) /\ (Wrote(q)' <=> Wrote(q)) /\
    Code(q)' = Code(q) /\ Truth(q)' = Truth(q) /\ (Recording(q)' <=> Recording(q)) /\
    Line(q, "http request")' = Line(q, "http request")
  BY <1>same DEF Unwinding, Probe, Wrote, Code, Truth, Recording, Line
<1>tpc. pc' \in [Requests -> Locations]  BY DEF AccessIn, TypeOK, Locations
<1>type. TypeOK'  BY <1>tpc, <1>same DEF TypeOK
<1>pc. pc[q] = "access"
  BY DEF AccessIn
<1>at. pc'[q] = "mux"
  BY DEF AccessIn, TypeOK
<1> USE DEF ChainInv, Ended, Measured, Copied, Logged, Recovered, Routed, Named
<1>RouteInv. RouteInv(q)'  BY <1>pc, <1>at, <1>same, <1>kept DEF RouteInv
<1>WriteInv. WriteInv(q)'  BY <1>pc, <1>at, <1>same, <1>kept DEF WriteInv
<1>PanicInv. PanicInv(q)'  BY <1>pc, <1>at, <1>same, <1>kept DEF PanicInv
<1>IdInv. IdInv(q)'  BY <1>pc, <1>at, <1>same, <1>kept DEF IdInv
<1>SpanInv. SpanInv(q)'  BY <1>pc, <1>at, <1>same, <1>kept DEF SpanInv
<1>LineInv. LineInv(q)'  BY <1>pc, <1>at, <1>same, <1>kept DEF LineInv
<1>SampleInv. SampleInv(q)'  BY <1>pc, <1>at, <1>same, <1>kept DEF SampleInv
<1> QED
  BY <1>type, <1>RouteInv, <1>WriteInv, <1>PanicInv, <1>IdInv, <1>SpanInv, <1>LineInv,
     <1>SampleInv

\* Routing.
LEMMA MuxKeeps ==
    ASSUME TypeOK, NEW q \in Requests, ChainInv(q), tracingOn' = tracingOn, Mux(q)
    PROVE  TypeOK' /\ ChainInv(q)'
<1> USE DEF At, Go, shared
<1>f0. pattern'[q].inner = Match(input[q].target)
  BY DEF Mux, TypeOK
<1>same. input' = input /\ unwind' = unwind /\ rec' = rec /\ ids' = ids /\ header' = header /\
    wire' = wire /\ span' = span /\ metric' = metric /\ lines' = lines /\ inFlight' = inFlight /\
    panics' = panics /\ series' = series
  BY DEF Mux
<1>kept. (Unwinding(q)' <=> Unwinding(q)) /\ (Probe(q)' <=> Probe(q)) /\ (Wrote(q)' <=> Wrote(q)) /\
    Code(q)' = Code(q) /\ Truth(q)' = Truth(q) /\ (Recording(q)' <=> Recording(q)) /\
    Line(q, "http request")' = Line(q, "http request")
  BY <1>same DEF Unwinding, Probe, Wrote, Code, Truth, Recording, Line
<1>tpc. pc' \in [Requests -> Locations]  BY DEF Mux, TypeOK, Locations
<1>tpattern. pattern' \in [Requests -> [server : Patterns \cup {None}, traced : Patterns \cup {None}, inner : Patterns \cup {None}]]
  BY MatchType DEF Mux, TypeOK
<1>type. TypeOK'  BY <1>tpc, <1>tpattern, <1>same DEF TypeOK
<1>pc. pc[q] = "mux"
  BY DEF Mux
<1>at. pc'[q] = "handler"
  BY DEF Mux, TypeOK
<1> USE DEF ChainInv, Ended, Measured, Copied, Logged, Recovered, Routed, Named
<1>RouteInv. RouteInv(q)'  BY <1>pc, <1>at, <1>f0, <1>same, <1>kept DEF RouteInv
<1>WriteInv. WriteInv(q)'  BY <1>pc, <1>at, <1>same, <1>kept DEF WriteInv
<1>PanicInv. PanicInv(q)'  BY <1>pc, <1>at, <1>same, <1>kept DEF PanicInv
<1>IdInv. IdInv(q)'  BY <1>pc, <1>at, <1>same, <1>kept DEF IdInv
<1>SpanInv. SpanInv(q)'  BY <1>pc, <1>at, <1>same, <1>kept DEF SpanInv
<1>LineInv. LineInv(q)'  BY <1>pc, <1>at, <1>same, <1>kept DEF LineInv
<1>SampleInv. SampleInv(q)'  BY <1>pc, <1>at, <1>same, <1>kept DEF SampleInv
<1> QED
  BY <1>type, <1>RouteInv, <1>WriteInv, <1>PanicInv, <1>IdInv, <1>SpanInv, <1>LineInv,
     <1>SampleInv


-----------------------------------------------------------------------------
(* The handler *)

\* What one write does to the recorders and to the client.
LEMMA WriteEffect ==
    ASSUME TypeOK, NEW q \in Requests, WriteInv(q), NEW status \in Nat, writeJSON(q, status)
    PROVE  /\ rec' \in [Requests -> [Layers -> [status : Nat, wroteHeader : BOOLEAN]]]
           /\ wire' \in [Requests -> Responses \cup {None}]
           /\ \A l \in Layers : rec'[q][l] = rec'[q]["tracing"]
           /\ Probe(q) \/ Wrote(q) => rec'[q]["tracing"] = rec[q]["tracing"]
           /\ ~Probe(q) /\ ~Wrote(q) =>
                 rec'[q]["tracing"] = [status |-> status, wroteHeader |-> TRUE]
           /\ wire[q] # None => wire'[q] = wire[q]
           /\ wire[q] = None => wire'[q] = [status |-> status, header |-> header[q]]
<1>1. /\ rec \in [Requests -> [Layers -> [status : Nat, wroteHeader : BOOLEAN]]]
      /\ rec[q] \in [Layers -> [status : Nat, wroteHeader : BOOLEAN]]
      /\ wire \in [Requests -> Responses \cup {None}] /\ header[q] \in Correlation
  BY DEF TypeOK
<1>2. \A l \in Layers : rec[q][l] = rec[q]["tracing"]
  BY DEF WriteInv
<1>3. /\ Reaches(rec[q], "tracing") <=> ~Wrote(q)
      /\ WriteHeader(rec[q], status) \in [Layers -> [status : Nat, wroteHeader : BOOLEAN]]
      /\ \A l \in Layers : WriteHeader(rec[q], status)[l] =
             IF Wrote(q) THEN rec[q]["tracing"] ELSE [status |-> status, wroteHeader |-> TRUE]
  BY <1>1, <1>2, WriteTogether DEF Wrote
<1> DEFINE written == WriteHeader(rec[q], status)
           answer  == [status |-> status, header |-> header[q]]
<1>4. answer \in Responses
  BY <1>1 DEF Responses
<1>5. "tracing" \in Layers
  BY DEF Layers
<1>6. /\ Probe(q) => rec' = [rec EXCEPT ![q] = rec[q]]
      /\ ~Probe(q) => rec' = [rec EXCEPT ![q] = written]
  BY DEF writeJSON
<1>7. wire' = [wire EXCEPT ![q] = IF wire[q] = None /\ (Probe(q) \/ ~Wrote(q)) THEN answer ELSE wire[q]]
  BY <1>3 DEF writeJSON
<1>8. wire[q] = None => ~Wrote(q)
  BY DEF WriteInv
<1> HIDE DEF written, answer
<1>9. rec' \in [Requests -> [Layers -> [status : Nat, wroteHeader : BOOLEAN]]]
  BY <1>1, <1>3, <1>6 DEF written
<1>10. /\ Probe(q) => rec'[q] = rec[q]
       /\ ~Probe(q) => rec'[q] = written
  BY <1>1, <1>6
<1>11. wire' \in [Requests -> Responses \cup {None}]
  BY <1>1, <1>4, <1>7
<1>12. \A l \in Layers : rec'[q][l] = rec'[q]["tracing"]
  BY <1>2, <1>3, <1>5, <1>10 DEF written
<1>13. Probe(q) \/ Wrote(q) => rec'[q]["tracing"] = rec[q]["tracing"]
  BY <1>3, <1>5, <1>10 DEF written
<1>14. ~Probe(q) /\ ~Wrote(q) => rec'[q]["tracing"] = [status |-> status, wroteHeader |-> TRUE]
  BY <1>3, <1>5, <1>10 DEF written
<1>15. wire[q] # None => wire'[q] = wire[q]
  BY <1>1, <1>7
<1>16. wire[q] = None => wire'[q] = answer
  BY <1>1, <1>7, <1>8
<1> QED  BY <1>9, <1>11, <1>12, <1>13, <1>14, <1>15, <1>16 DEF answer

\* What an answer and a recorder say.
LEMMA Answers ==
    ASSUME NEW status \in Nat, NEW h \in Correlation
    PROVE  /\ [status |-> status, header |-> h].status = status
           /\ [status |-> status, header |-> h].header = h
           /\ [status |-> status, header |-> h] # None
           /\ [status |-> status, wroteHeader |-> TRUE].status = status
           /\ [status |-> status, wroteHeader |-> TRUE].wroteHeader
<1>1. [status |-> status, header |-> h] \in Responses
  BY DEF Responses
<1> QED  BY <1>1, NoneAssumption

\* A write as the operators of the invariant see it.
LEMMA WriteSeen ==
    ASSUME TypeOK, NEW q \in Requests, WriteInv(q), NEW status \in Nat, writeJSON(q, status)
    PROVE  /\ \A l \in Layers : rec'[q][l] = rec'[q]["tracing"]
           /\ Probe(q) \/ Wrote(q) => (Wrote(q)' <=> Wrote(q)) /\ Code(q)' = Code(q)
           /\ ~Probe(q) /\ ~Wrote(q) => Wrote(q)' /\ Code(q)' = status
           /\ wire[q] # None => wire'[q] = wire[q]
           /\ wire[q] = None => wire'[q].status = status
           /\ wire[q] = None => wire'[q].header = header[q]
           /\ wire'[q] # None
<1>1. header[q] \in Correlation
  BY DEF TypeOK
<1>2. Probe(q) \/ Wrote(q) => (Wrote(q)' <=> Wrote(q)) /\ Code(q)' = Code(q)
  BY WriteEffect DEF Wrote, Code
<1>3. ASSUME ~Probe(q), ~Wrote(q) PROVE Wrote(q)' /\ Code(q)' = status
  <2>1. rec'[q]["tracing"] = [status |-> status, wroteHeader |-> TRUE]
    BY <1>3, WriteEffect
  <2> QED  BY <2>1 DEF Wrote, Code
<1>4. ASSUME wire[q] = None
      PROVE  wire'[q].status = status /\ wire'[q].header = header[q] /\ wire'[q] # None
  <2>1. wire'[q] = [status |-> status, header |-> header[q]]
    BY <1>4, WriteEffect
  <2> QED  BY <1>1, <2>1, Answers
<1>5. wire[q] # None => wire'[q] = wire[q]
  BY WriteEffect
<1>6. \A l \in Layers : rec'[q][l] = rec'[q]["tracing"]
  BY WriteEffect
<1> QED  BY <1>2, <1>3, <1>4, <1>5, <1>6

\* The handler answers.
LEMMA HandlerWritesKeeps ==
    ASSUME TypeOK, NEW q \in Requests, ChainInv(q), tracingOn' = tracingOn, HandlerWrites(q)
    PROVE  TypeOK' /\ ChainInv(q)'
<1> USE DEF At, Go, shared
<1>loc. /\ pc[q] = "handler" /\ pattern[q].inner \in Patterns /\ WriteInv(q)
        /\ ids[q] \in Correlation
        /\ lines \in [Requests -> SUBSET LogLines] /\ lines[q] \subseteq LogLines
        /\ ~Wrote(q) /\ Code(q) = 200 /\ wire[q] = None /\ unwind[q] = "no"
  <2>1. pc[q] = "handler" /\ WriteInv(q) /\ RouteInv(q)
    BY DEF HandlerWrites, ChainInv
  <2>2. pattern[q].inner = Match(input[q].target)
    BY <2>1 DEF RouteInv, Routed
  <2>3. ~Wrote(q) /\ Code(q) = 200 /\ wire[q] = None /\ unwind[q] = "no"
    BY <2>1 DEF WriteInv
  <2>4. lines \in [Requests -> SUBSET LogLines]
    BY DEF TypeOK
  <2>5. pattern[q].inner \in Patterns
    BY <2>2, MatchType
  <2>6. ids[q] \in Correlation /\ lines[q] \subseteq LogLines
    BY LocalTypes
  <2> QED  BY <2>1, <2>3, <2>4, <2>5, <2>6
<1> DEFINE failure == [msg |-> "failed", ids |-> ids[q], route |-> None, status |-> 0]
<1>pick. PICK status \in Outcomes[pattern[q].inner] :
            /\ writeJSON(q, status)
            /\ \/ lines' = [lines EXCEPT ![q] = lines[q] \cup {failure}]
               \/ lines' = [lines EXCEPT ![q] = lines[q] \cup {}]
  BY DEF HandlerWrites
<1>status. status \in Nat
  BY <1>loc, OutcomeType
<1>write. WriteInv(q) /\ writeJSON(q, status)
  BY <1>loc, <1>pick
<1>failure. failure \in LogLines /\ failure.msg = "failed" /\ failure.ids = ids[q]
  BY <1>loc DEF LogLines
<1> HIDE DEF failure
<1>f0. lines'[q] = lines[q] \/ lines'[q] = lines[q] \cup {failure}
  BY <1>pick, <1>loc
<1>f1. Line(q, "http request")' = Line(q, "http request")
  BY <1>f0, <1>failure DEF Line
<1>f2. /\ \A l \in Layers : rec'[q][l] = rec'[q]["tracing"]
       /\ wire'[q] # None /\ wire'[q].status = status /\ wire'[q].header = header[q]
       /\ ~Probe(q) => Wrote(q)' /\ Code(q)' = status
       /\ Probe(q) => ~Wrote(q)' /\ Code(q)' = Code(q)
  BY <1>loc, <1>write, <1>status, WriteSeen
<1>same. input' = input /\ unwind' = unwind /\ pattern' = pattern /\ ids' = ids /\
    header' = header /\ span' = span /\ metric' = metric /\ inFlight' = inFlight /\
    panics' = panics /\ series' = series
  BY DEF HandlerWrites
<1>kept. (Unwinding(q)' <=> Unwinding(q)) /\ (Probe(q)' <=> Probe(q)) /\ Truth(q)' = Truth(q) /\
    (Recording(q)' <=> Recording(q))
  BY <1>same DEF Unwinding, Probe, Truth, Recording
<1>tpc. pc' \in [Requests -> Locations]  BY DEF HandlerWrites, TypeOK, Locations
<1>trec. rec' \in [Requests -> [Layers -> [status : Nat, wroteHeader : BOOLEAN]]]
  BY <1>write, <1>status, WriteEffect
<1>twire. wire' \in [Requests -> Responses \cup {None}]
  BY <1>write, <1>status, WriteEffect
<1>tlines. lines' \in [Requests -> SUBSET LogLines]
  BY <1>loc, <1>pick, <1>failure
<1>type. TypeOK'  BY <1>tpc, <1>trec, <1>twire, <1>tlines, <1>same DEF TypeOK
<1>pc. pc[q] = "handler"
  BY DEF HandlerWrites
<1>at. pc'[q] = "wrote"
  BY DEF HandlerWrites, TypeOK
<1> USE DEF ChainInv, Ended, Measured, Copied, Logged, Recovered, Routed, Named
<1>RouteInv. RouteInv(q)'  BY <1>pc, <1>at, <1>same, <1>kept DEF RouteInv
<1>WriteInv. WriteInv(q)'
  <2>1. CASE Probe(q)  BY <2>1, <1>at, <1>loc, <1>f2, <1>same, <1>kept DEF WriteInv
  <2>2. CASE ~Probe(q)  BY <2>2, <1>at, <1>loc, <1>f2, <1>same, <1>kept DEF WriteInv
  <2> QED  BY <2>1, <2>2
<1>PanicInv. PanicInv(q)'  BY <1>pc, <1>at, <1>same, <1>kept DEF PanicInv, WriteInv
<1>IdInv. IdInv(q)'
  <2>1. IdInv(q)  OBVIOUS
  <2>2. \A l \in lines'[q] : l.ids = ids'[q]  BY <2>1, <1>f0, <1>failure, <1>same DEF IdInv
  <2>3. wire'[q].header = header'[q]  BY <1>f2, <1>same
  <2> QED  BY <2>1, <2>2, <2>3, <1>pc, <1>at, <1>same DEF IdInv
<1>SpanInv. SpanInv(q)'  BY <1>pc, <1>at, <1>same, <1>kept DEF SpanInv
<1>LineInv. LineInv(q)'  BY <1>pc, <1>at, <1>f1, <1>same, <1>kept DEF LineInv
<1>SampleInv. SampleInv(q)'  BY <1>pc, <1>at, <1>same, <1>kept DEF SampleInv
<1> QED
  BY <1>type, <1>RouteInv, <1>WriteInv, <1>PanicInv, <1>IdInv, <1>SpanInv, <1>LineInv,
     <1>SampleInv

\* The handler returns.
LEMMA HandlerReturnsKeeps ==
    ASSUME TypeOK, NEW q \in Requests, ChainInv(q), tracingOn' = tracingOn, HandlerReturns(q)
    PROVE  TypeOK' /\ ChainInv(q)'
<1> USE DEF At, Go, shared
<1>same. input' = input /\ unwind' = unwind /\ rec' = rec /\ pattern' = pattern /\ ids' = ids /\
    header' = header /\ wire' = wire /\ span' = span /\ metric' = metric /\ lines' = lines /\
    inFlight' = inFlight /\ panics' = panics /\ series' = series
  BY DEF HandlerReturns
<1>kept. (Unwinding(q)' <=> Unwinding(q)) /\ (Probe(q)' <=> Probe(q)) /\ (Wrote(q)' <=> Wrote(q)) /\
    Code(q)' = Code(q) /\ Truth(q)' = Truth(q) /\ (Recording(q)' <=> Recording(q)) /\
    Line(q, "http request")' = Line(q, "http request")
  BY <1>same DEF Unwinding, Probe, Wrote, Code, Truth, Recording, Line
<1>tpc. pc' \in [Requests -> Locations]  BY DEF HandlerReturns, TypeOK, Locations
<1>type. TypeOK'  BY <1>tpc, <1>same DEF TypeOK
<1>pc. pc[q] = "wrote"
  BY DEF HandlerReturns
<1>at. pc'[q] = "recover"
  BY DEF HandlerReturns, TypeOK
<1> USE DEF ChainInv, Ended, Measured, Copied, Logged, Recovered, Routed, Named
<1>RouteInv. RouteInv(q)'  BY <1>pc, <1>at, <1>same, <1>kept DEF RouteInv
<1>WriteInv. WriteInv(q)'  BY <1>pc, <1>at, <1>same, <1>kept DEF WriteInv
<1>PanicInv. PanicInv(q)'  BY <1>pc, <1>at, <1>same, <1>kept DEF PanicInv, WriteInv
<1>IdInv. IdInv(q)'  BY <1>pc, <1>at, <1>same, <1>kept DEF IdInv
<1>SpanInv. SpanInv(q)'  BY <1>pc, <1>at, <1>same, <1>kept DEF SpanInv
<1>LineInv. LineInv(q)'  BY <1>pc, <1>at, <1>same, <1>kept DEF LineInv
<1>SampleInv. SampleInv(q)'  BY <1>pc, <1>at, <1>same, <1>kept DEF SampleInv
<1> QED
  BY <1>type, <1>RouteInv, <1>WriteInv, <1>PanicInv, <1>IdInv, <1>SpanInv, <1>LineInv,
     <1>SampleInv

\* The handler panics.
LEMMA HandlerPanicsKeeps ==
    ASSUME TypeOK, NEW q \in Requests, ChainInv(q), tracingOn' = tracingOn, HandlerPanics(q)
    PROVE  TypeOK' /\ ChainInv(q)'
<1> USE DEF At, Go, shared
<1>f0. unwind'[q] \in {"panic", "late panic", "abort"} /\
    (unwind'[q] = "panic" => pc[q] = "handler")
  BY DEF HandlerPanics, TypeOK
<1>same. input' = input /\ rec' = rec /\ pattern' = pattern /\ ids' = ids /\ header' = header /\
    wire' = wire /\ span' = span /\ metric' = metric /\ lines' = lines /\ inFlight' = inFlight /\
    panics' = panics /\ series' = series
  BY DEF HandlerPanics
<1>kept. (Probe(q)' <=> Probe(q)) /\ (Wrote(q)' <=> Wrote(q)) /\ Code(q)' = Code(q) /\
    Truth(q)' = Truth(q) /\ (Recording(q)' <=> Recording(q)) /\
    Line(q, "http request")' = Line(q, "http request")
  BY <1>same DEF Probe, Wrote, Code, Truth, Recording, Line
<1>tpc. pc' \in [Requests -> Locations]  BY DEF HandlerPanics, TypeOK, Locations
<1>tunwind. unwind' \in [Requests -> {"no", "panic", "late panic", "abort"}]
  BY <1>f0 DEF HandlerPanics, TypeOK
<1>type. TypeOK'  BY <1>tpc, <1>tunwind, <1>same DEF TypeOK
<1>pc. pc[q] = "handler" \/ pc[q] = "wrote"
  BY DEF HandlerPanics
<1>at. pc'[q] = "recover"
  BY DEF HandlerPanics, TypeOK
<1> USE DEF ChainInv, Ended, Measured, Copied, Logged, Recovered, Routed, Named
<1>RouteInv. RouteInv(q)'  BY <1>pc, <1>at, <1>same, <1>kept DEF RouteInv
<1>WriteInv. WriteInv(q)'  BY <1>pc, <1>at, <1>same, <1>kept DEF WriteInv
<1>PanicInv. PanicInv(q)'  BY <1>pc, <1>at, <1>f0, <1>same, <1>kept DEF PanicInv, WriteInv
<1>IdInv. IdInv(q)'  BY <1>pc, <1>at, <1>same, <1>kept DEF IdInv
<1>SpanInv. SpanInv(q)'  BY <1>pc, <1>at, <1>same, <1>kept DEF SpanInv
<1>LineInv. LineInv(q)'  BY <1>pc, <1>at, <1>same, <1>kept DEF LineInv
<1>SampleInv. SampleInv(q)'  BY <1>pc, <1>at, <1>same, <1>kept DEF SampleInv
<1> QED
  BY <1>type, <1>RouteInv, <1>WriteInv, <1>PanicInv, <1>IdInv, <1>SpanInv, <1>LineInv,
     <1>SampleInv


-----------------------------------------------------------------------------
(* The way out *)

\* Setting a span's status changes its code at most, and sets it unless it is Ok.
LEMMA SetStatusEffect ==
    ASSUME NEW sp \in Spans, NEW code \in {"Error", "Ok"}
    PROVE  /\ SetStatus(sp, code) \in Spans
           /\ SetStatus(sp, code).open = sp.open /\ SetStatus(sp, code).sampled = sp.sampled
           /\ SetStatus(sp, code).route = sp.route /\ SetStatus(sp, code).status = sp.status
           /\ SetStatus(sp, code).event = sp.event
           /\ sp.code # "Ok" => SetStatus(sp, code).code = code
<1> DEFINE set == [sp EXCEPT !.code = code]
<1>1. /\ set \in Spans /\ set.open = sp.open /\ set.sampled = sp.sampled /\ set.route = sp.route
      /\ set.status = sp.status /\ set.event = sp.event /\ set.code = code
  BY DEF Spans
<1>2. Rank["Unset"] = 0 /\ Rank["Error"] = 1 /\ Rank["Ok"] = 2
  BY DEF Rank
<1>3. sp.code \in {"Unset", "Error", "Ok"}
  BY DEF Spans
<1>4. sp.code # "Ok" => ~(Rank[sp.code] > Rank[code])
  BY <1>2, <1>3
<1>5. SetStatus(sp, code) = sp \/ SetStatus(sp, code) = set
  BY DEF SetStatus
<1>6. sp.code # "Ok" => SetStatus(sp, code) = set
  BY <1>4 DEF SetStatus
<1> HIDE DEF set
<1> QED  BY <1>1, <1>5, <1>6

\* Nothing to recover from, or an abort that is panicked on.
LEMMA RecoverPasses ==
    ASSUME TypeOK, NEW q \in Requests, ChainInv(q), tracingOn' = tracingOn, RecoverOut(q),
        ~Panicked(q)
    PROVE  TypeOK' /\ ChainInv(q)'
<1> USE DEF At, Go, shared
<1>same. input' = input /\ unwind' = unwind /\ rec' = rec /\ pattern' = pattern /\ ids' = ids /\
    header' = header /\ wire' = wire /\ span' = span /\ metric' = metric /\ lines' = lines /\
    inFlight' = inFlight /\ panics' = panics /\ series' = series
  BY DEF RecoverOut
<1>kept. (Unwinding(q)' <=> Unwinding(q)) /\ (Probe(q)' <=> Probe(q)) /\ (Wrote(q)' <=> Wrote(q)) /\
    Code(q)' = Code(q) /\ Truth(q)' = Truth(q) /\ (Recording(q)' <=> Recording(q)) /\
    Line(q, "http request")' = Line(q, "http request")
  BY <1>same DEF Unwinding, Probe, Wrote, Code, Truth, Recording, Line
<1>tpc. pc' \in [Requests -> Locations]  BY DEF RecoverOut, TypeOK, Locations
<1>type. TypeOK'  BY <1>tpc, <1>same DEF TypeOK
<1>pc. pc[q] = "recover"
  BY DEF RecoverOut
<1>at. pc'[q] = "access out"
  BY DEF RecoverOut, TypeOK
<1> USE DEF ChainInv, Ended, Measured, Copied, Logged, Recovered, Routed, Named
<1>RouteInv. RouteInv(q)'  BY <1>pc, <1>at, <1>same, <1>kept DEF RouteInv
<1>WriteInv. WriteInv(q)'  BY <1>pc, <1>at, <1>same, <1>kept DEF WriteInv
<1>PanicInv. PanicInv(q)'  BY <1>pc, <1>at, <1>same, <1>kept DEF PanicInv, Panicked
<1>IdInv. IdInv(q)'  BY <1>pc, <1>at, <1>same, <1>kept DEF IdInv
<1>SpanInv. SpanInv(q)'  BY <1>pc, <1>at, <1>same, <1>kept DEF SpanInv
<1>LineInv. LineInv(q)'  BY <1>pc, <1>at, <1>same, <1>kept DEF LineInv
<1>SampleInv. SampleInv(q)'  BY <1>pc, <1>at, <1>same, <1>kept DEF SampleInv
<1> QED
  BY <1>type, <1>RouteInv, <1>WriteInv, <1>PanicInv, <1>IdInv, <1>SpanInv, <1>LineInv,
     <1>SampleInv

\* A panic is counted, recorded and answered.
LEMMA RecoverCatches ==
    ASSUME TypeOK, NEW q \in Requests, ChainInv(q), tracingOn' = tracingOn, RecoverOut(q),
        Panicked(q)
    PROVE  TypeOK' /\ ChainInv(q)'
<1> USE DEF At, Go, shared
<1>loc. /\ WriteInv(q) /\ PanicInv(q) /\ SpanInv(q) /\ IdInv(q)
        /\ pc[q] = "recover" /\ unwind[q] # "abort" /\ unwind[q] # "no"
        /\ ids[q] \in Correlation /\ lines[q] \subseteq LogLines
        /\ lines \in [Requests -> SUBSET LogLines] /\ span \in [Requests -> Spans \cup {None}]
  BY LocalTypes DEF RecoverOut, ChainInv, TypeOK, Panicked
<1>write. WriteInv(q) /\ writeJSON(q, 500) /\ 500 \in Nat
  <2>1. writeJSON(q, 500)  BY DEF RecoverOut
  <2>2. 500 \in Nat  OBVIOUS
  <2> QED  BY <2>1, <2>2, <1>loc
<1> DEFINE entry == [msg |-> "handler panic", ids |-> ids[q], route |-> None, status |-> 0]
           marked == [span[q] EXCEPT !.event = TRUE]
           failed == SetStatus(marked, "Error")
<1>entry. entry \in LogLines /\ entry.msg = "handler panic" /\ entry.ids = ids[q]
  BY <1>loc DEF LogLines
<1>lines. lines' = [lines EXCEPT ![q] = lines[q] \cup {entry}]
  BY DEF RecoverOut
<1>span. \/ ~Recording(q) /\ span' = span
         \/ Recording(q) /\ span' = [span EXCEPT ![q] = failed]
  BY DEF RecoverOut
<1>marked. ASSUME Recording(q)
           PROVE  /\ span[q] \in Spans /\ marked \in Spans /\ marked.open = span[q].open
                  /\ marked.sampled = span[q].sampled /\ marked.event
                  /\ marked.code = span[q].code
  <2>1. span[q] \in Spans  BY <1>marked, LocalTypes DEF Recording
  <2>2. marked \in Spans /\ marked.event = TRUE  BY <2>1 DEF Spans
  <2>3. marked.open = span[q].open /\ marked.sampled = span[q].sampled /\
      marked.code = span[q].code
    BY <2>1 DEF Spans
  <2> HIDE DEF marked
  <2> QED  BY <2>1, <2>2, <2>3
<1> HIDE DEF entry, marked
<1>failed. ASSUME Recording(q)
           PROVE  /\ failed \in Spans /\ failed.open /\ failed.sampled = span[q].sampled
                  /\ failed.event /\ failed.code = "Error" /\ failed # None
  <2>1. span[q].open /\ span[q].code # "Ok"  BY <1>failed, <1>loc DEF SpanInv, Recording, Ended
  <2>2. marked.code # "Ok"  BY <1>failed, <1>marked, <2>1
  <2>3. failed \in Spans /\ failed.open = marked.open /\ failed.sampled = marked.sampled
        /\ failed.event = marked.event /\ failed.code = "Error"
    BY <1>failed, <1>marked, <2>2, SetStatusEffect
  <2> HIDE DEF failed
  <2> QED  BY <1>failed, <1>marked, <2>1, <2>3, NoneAssumption
<1> HIDE DEF failed
<1>f0. lines'[q] = lines[q] \cup {entry}
  BY <1>lines, <1>loc
<1>f1. Line(q, "http request")' = Line(q, "http request")
  BY <1>f0, <1>entry DEF Line
<1>f2. /\ \A l \in Layers : rec'[q][l] = rec'[q]["tracing"]
       /\ Probe(q) \/ Wrote(q) => (Wrote(q)' <=> Wrote(q)) /\ Code(q)' = Code(q)
       /\ ~Probe(q) /\ ~Wrote(q) => Wrote(q)' /\ Code(q)' = 500
       /\ wire[q] # None => wire'[q] = wire[q]
       /\ wire[q] = None => wire'[q].status = 500 /\ wire'[q].header = header[q]
       /\ wire'[q] # None
  BY <1>write, WriteSeen
<1>f3. /\ Recording(q)' <=> Recording(q)
       /\ span'[q] # None <=> span[q] # None
       /\ span'[q] # None => /\ span'[q].open /\ span'[q].code # "Ok"
                             /\ span'[q].sampled => span[q].sampled
       /\ Recording(q) => span'[q].code = "Error" /\ span'[q].event
       /\ metric[q] = None
  <2>0. metric[q] = None  BY <1>loc DEF ChainInv, SampleInv, Measured, Ended
  <2>1. CASE ~Recording(q)  BY <2>0, <2>1, <1>span, <1>loc DEF Recording, SpanInv, Ended
  <2>2. CASE Recording(q)
    <3>1. span'[q] = failed  BY <2>2, <1>span, <1>loc
    <3>2. Recording(q)'  BY <2>2, <3>1, <1>failed DEF Recording
    <3>3. span[q] # None  BY <2>2 DEF Recording
    <3> QED  BY <2>0, <2>2, <3>1, <3>2, <3>3, <1>failed
  <2> QED  BY <2>1, <2>2
<1>same. input' = input /\ unwind' = unwind /\ pattern' = pattern /\ ids' = ids /\
    header' = header /\ metric' = metric /\ inFlight' = inFlight /\ series' = series
  BY DEF RecoverOut
<1>kept. (Unwinding(q)' <=> Unwinding(q)) /\ (Probe(q)' <=> Probe(q)) /\ Truth(q)' = Truth(q)
  BY <1>same DEF Unwinding, Probe, Truth
<1>tpc. pc' \in [Requests -> Locations]  BY DEF RecoverOut, TypeOK, Locations
<1>trec. rec' \in [Requests -> [Layers -> [status : Nat, wroteHeader : BOOLEAN]]]
  BY <1>write, WriteEffect
<1>twire. wire' \in [Requests -> Responses \cup {None}]
  BY <1>write, WriteEffect
<1>tspan. span' \in [Requests -> Spans \cup {None}]
  BY <1>loc, <1>span, <1>failed
<1>tlines. lines' \in [Requests -> SUBSET LogLines]
  BY <1>loc, <1>lines, <1>entry
<1>tpanics. panics' \in [Routes -> Nat]
  <2>1. panics' = [panics EXCEPT ![routeLabel(pattern[q].inner)] = panics[routeLabel(pattern[q].inner)] + 1]
    BY DEF RecoverOut
  <2>2. routeLabel(pattern[q].inner) \in Routes  BY LocalTypes, LabelType
  <2>3. panics \in [Routes -> Nat]  BY DEF TypeOK
  <2> QED  BY <2>1, <2>2, <2>3
<1>type. TypeOK'
  BY <1>tpc, <1>trec, <1>twire, <1>tspan, <1>tlines, <1>tpanics, <1>same DEF TypeOK
<1>pc. pc[q] = "recover"
  BY DEF RecoverOut
<1>at. pc'[q] = "access out"
  BY DEF RecoverOut, TypeOK
<1> USE DEF ChainInv, Ended, Measured, Copied, Logged, Recovered, Routed, Named
<1>RouteInv. RouteInv(q)'  BY <1>pc, <1>at, <1>same, <1>kept DEF RouteInv
<1>WriteInv. WriteInv(q)'
  <2>1. CASE Probe(q)
    <3>1. CASE wire[q] = None
      <4>1. ~Wrote(q) /\ Code(q) = 200  BY <3>1, <1>loc DEF WriteInv
      <4> QED  BY <2>1, <3>1, <4>1, <1>at, <1>f2, <1>same, <1>kept DEF WriteInv
    <3>2. CASE wire[q] # None  BY <2>1, <3>2, <1>at, <1>loc, <1>f2, <1>same, <1>kept DEF WriteInv
    <3> QED  BY <3>1, <3>2
  <2>2. CASE ~Probe(q) /\ Wrote(q)
    BY <2>2, <1>pc, <1>at, <1>loc, <1>f2, <1>same, <1>kept DEF WriteInv
  <2>3. CASE ~Probe(q) /\ ~Wrote(q)
    BY <2>3, <1>pc, <1>at, <1>loc, <1>f2, <1>same, <1>kept DEF WriteInv
  <2> QED  BY <2>1, <2>2, <2>3
<1>PanicInv. PanicInv(q)'
  BY <1>pc, <1>at, <1>loc, <1>f2, <1>f3, <1>same, <1>kept DEF PanicInv
<1>IdInv. IdInv(q)'
  <2>1. \A l \in lines'[q] : l.ids = ids'[q]  BY <1>loc, <1>f0, <1>entry, <1>same DEF IdInv
  <2>2. wire'[q].header = header'[q]  BY <1>f2, <1>loc, <1>same DEF IdInv
  <2> QED  BY <2>1, <2>2, <1>loc, <1>pc, <1>at, <1>same DEF IdInv
<1>SpanInv. SpanInv(q)'  BY <1>pc, <1>at, <1>f3, <1>same, <1>kept DEF SpanInv
<1>LineInv. LineInv(q)'  BY <1>pc, <1>at, <1>f1, <1>same, <1>kept DEF LineInv
<1>SampleInv. SampleInv(q)'  BY <1>pc, <1>at, <1>f3, <1>same, <1>kept DEF SampleInv
<1> QED
  BY <1>type, <1>RouteInv, <1>WriteInv, <1>PanicInv, <1>IdInv, <1>SpanInv, <1>LineInv,
     <1>SampleInv

\* The access line.
LEMMA AccessOutKeeps ==
    ASSUME TypeOK, NEW q \in Requests, ChainInv(q), tracingOn' = tracingOn, AccessOut(q)
    PROVE  TypeOK' /\ ChainInv(q)'
<1> USE DEF At, Go, shared
<1>loc. /\ WriteInv(q) /\ RouteInv(q) /\ IdInv(q) /\ LineInv(q) /\ pc[q] = "access out"
        /\ ids[q] \in Correlation /\ lines \in [Requests -> SUBSET LogLines]
        /\ rec[q] \in [Layers -> [status : Nat, wroteHeader : BOOLEAN]]
  BY LocalTypes DEF AccessOut, ChainInv, TypeOK
<1>code. rec[q]["access"].status = Code(q) /\ Code(q) \in Nat
  <2>1. rec[q]["access"] = rec[q]["tracing"] /\ "tracing" \in Layers
    BY <1>loc DEF WriteInv, Layers
  <2> QED  BY <2>1, <1>loc DEF Code
<1>route. routePattern(pattern[q].inner) = Truth(q) /\ Truth(q) \in Routes
  <2>1. pattern[q].inner = Match(input[q].target)
    BY <1>loc DEF RouteInv, Routed, Recovered
  <2> QED  BY <2>1, LabelsAgree, LabelType, MatchType DEF Truth
<1> DEFINE entry == [msg |-> "http request", ids |-> ids[q], route |-> Truth(q), status |-> Code(q)]
<1>entry. /\ entry \in LogLines /\ entry.msg = "http request" /\ entry.ids = ids[q]
          /\ entry.route = Truth(q) /\ entry.status = Code(q)
  BY <1>loc, <1>code, <1>route DEF LogLines
<1>lines. /\ Probe(q) \/ Unwinding(q) => lines' = [lines EXCEPT ![q] = lines[q] \cup {}]
          /\ ~Probe(q) /\ ~Unwinding(q) => lines' = [lines EXCEPT ![q] = lines[q] \cup {entry}]
  BY <1>code, <1>route DEF AccessOut
<1> HIDE DEF entry
<1>f0. /\ Probe(q) \/ Unwinding(q) => lines'[q] = lines[q]
       /\ ~Probe(q) /\ ~Unwinding(q) => lines'[q] = lines[q] \cup {entry}
  BY <1>lines, <1>loc
<1>same. input' = input /\ unwind' = unwind /\ rec' = rec /\ pattern' = pattern /\ ids' = ids /\
    header' = header /\ wire' = wire /\ span' = span /\ metric' = metric /\ inFlight' = inFlight /\
    panics' = panics /\ series' = series
  BY DEF AccessOut
<1>kept. (Unwinding(q)' <=> Unwinding(q)) /\ (Probe(q)' <=> Probe(q)) /\ (Wrote(q)' <=> Wrote(q)) /\
    Code(q)' = Code(q) /\ Truth(q)' = Truth(q) /\ (Recording(q)' <=> Recording(q))
  BY <1>same DEF Unwinding, Probe, Wrote, Code, Truth, Recording
<1>tpc. pc' \in [Requests -> Locations]  BY DEF AccessOut, TypeOK, Locations
<1>tlines. lines' \in [Requests -> SUBSET LogLines]
  BY <1>loc, <1>lines, <1>entry
<1>type. TypeOK'  BY <1>tpc, <1>tlines, <1>same DEF TypeOK
<1>pc. pc[q] = "access out"
  BY DEF AccessOut
<1>at. pc'[q] = "requestid out"
  BY DEF AccessOut, TypeOK
<1> USE DEF ChainInv, Ended, Measured, Copied, Logged, Recovered, Routed, Named
<1>RouteInv. RouteInv(q)'  BY <1>pc, <1>at, <1>same, <1>kept DEF RouteInv
<1>WriteInv. WriteInv(q)'  BY <1>pc, <1>at, <1>same, <1>kept DEF WriteInv
<1>PanicInv. PanicInv(q)'  BY <1>pc, <1>at, <1>same, <1>kept DEF PanicInv
<1>IdInv. IdInv(q)'
  <2>1. \A l \in lines'[q] : l.ids = ids'[q]  BY <1>loc, <1>f0, <1>entry, <1>same DEF IdInv
  <2> QED  BY <2>1, <1>loc, <1>pc, <1>at, <1>same DEF IdInv
<1>SpanInv. SpanInv(q)'  BY <1>pc, <1>at, <1>same, <1>kept DEF SpanInv
<1>LineInv. LineInv(q)'
  <2>1. CASE Probe(q) \/ Unwinding(q)  BY <2>1, <1>at, <1>kept DEF LineInv
  <2>2. CASE ~Probe(q) /\ ~Unwinding(q)
    <3>1. {<<l.route, l.status>> : l \in Line(q, "http request")} = {}
      BY <1>loc DEF LineInv
    <3>2. Line(q, "http request")' = {entry}  BY <2>2, <3>1, <1>f0, <1>entry DEF Line
    <3>3. {<<l.route, l.status>> : l \in Line(q, "http request")'} = {<<Truth(q), Code(q)>>}
      BY <3>2, <1>entry
    <3> QED  BY <3>3, <1>at, <1>kept DEF LineInv
  <2> QED  BY <2>1, <2>2
<1>SampleInv. SampleInv(q)'  BY <1>pc, <1>at, <1>same, <1>kept DEF SampleInv
<1> QED
  BY <1>type, <1>RouteInv, <1>WriteInv, <1>PanicInv, <1>IdInv, <1>SpanInv, <1>LineInv,
     <1>SampleInv

\* The routing result is copied back.
LEMMA RequestIDOutKeeps ==
    ASSUME TypeOK, NEW q \in Requests, ChainInv(q), tracingOn' = tracingOn, RequestIDOut(q)
    PROVE  TypeOK' /\ ChainInv(q)'
<1> USE DEF At, Go, shared
<1>f0. pattern'[q].inner = pattern[q].inner /\
    (~Unwinding(q) => pattern'[q].traced = pattern[q].inner)
  BY DEF RequestIDOut, TypeOK
<1>same. input' = input /\ unwind' = unwind /\ rec' = rec /\ ids' = ids /\ header' = header /\
    wire' = wire /\ span' = span /\ metric' = metric /\ lines' = lines /\ inFlight' = inFlight /\
    panics' = panics /\ series' = series
  BY DEF RequestIDOut
<1>kept. (Unwinding(q)' <=> Unwinding(q)) /\ (Probe(q)' <=> Probe(q)) /\ (Wrote(q)' <=> Wrote(q)) /\
    Code(q)' = Code(q) /\ Truth(q)' = Truth(q) /\ (Recording(q)' <=> Recording(q)) /\
    Line(q, "http request")' = Line(q, "http request")
  BY <1>same DEF Unwinding, Probe, Wrote, Code, Truth, Recording, Line
<1>tpc. pc' \in [Requests -> Locations]  BY DEF RequestIDOut, TypeOK, Locations
<1>tpattern. pattern' \in [Requests -> [server : Patterns \cup {None}, traced : Patterns \cup {None}, inner : Patterns \cup {None}]]
  BY DEF RequestIDOut, TypeOK
<1>type. TypeOK'  BY <1>tpc, <1>tpattern, <1>same DEF TypeOK
<1>pc. pc[q] = "requestid out"
  BY DEF RequestIDOut
<1>at. pc'[q] = "metrics out"
  BY DEF RequestIDOut, TypeOK
<1> USE DEF ChainInv, Ended, Measured, Copied, Logged, Recovered, Routed, Named
<1>RouteInv. RouteInv(q)'  BY <1>pc, <1>at, <1>f0, <1>same, <1>kept DEF RouteInv
<1>WriteInv. WriteInv(q)'  BY <1>pc, <1>at, <1>same, <1>kept DEF WriteInv
<1>PanicInv. PanicInv(q)'  BY <1>pc, <1>at, <1>same, <1>kept DEF PanicInv
<1>IdInv. IdInv(q)'  BY <1>pc, <1>at, <1>same, <1>kept DEF IdInv
<1>SpanInv. SpanInv(q)'  BY <1>pc, <1>at, <1>same, <1>kept DEF SpanInv
<1>LineInv. LineInv(q)'  BY <1>pc, <1>at, <1>same, <1>kept DEF LineInv
<1>SampleInv. SampleInv(q)'  BY <1>pc, <1>at, <1>same, <1>kept DEF SampleInv
<1> QED
  BY <1>type, <1>RouteInv, <1>WriteInv, <1>PanicInv, <1>IdInv, <1>SpanInv, <1>LineInv,
     <1>SampleInv


\* A sample.
LEMMA SampleType ==
    ASSUME NEW label \in Routes, NEW code \in Nat, NEW flag \in BOOLEAN
    PROVE  LET taken == [route |-> label, status |-> code, exemplar |-> flag]
           IN  /\ taken \in Samples /\ taken.route = label /\ taken.status = code
               /\ taken.exemplar = flag /\ taken # None
<1> DEFINE taken == [route |-> label, status |-> code, exemplar |-> flag]
<1>1. taken \in Samples  BY DEF Samples
<1>2. taken.route = label /\ taken.status = code /\ taken.exemplar = flag  OBVIOUS
<1> HIDE DEF taken
<1>3. /\ taken \in Samples /\ taken.route = label /\ taken.status = code
      /\ taken.exemplar = flag /\ taken # None
  BY <1>1, <1>2, NoneAssumption
<1> QED  BY <1>3 DEF taken

\* The sample is taken.
LEMMA MetricsOutKeeps ==
    ASSUME TypeOK, NEW q \in Requests, ChainInv(q), tracingOn' = tracingOn, MetricsOut(q)
    PROVE  TypeOK' /\ ChainInv(q)'
<1> USE DEF At, Go, shared
<1>loc. /\ WriteInv(q) /\ RouteInv(q) /\ SampleInv(q) /\ pc[q] = "metrics out"
        /\ input[q] \in Messages /\ span[q] \in Spans \cup {None} /\ tracingOn \in BOOLEAN
        /\ metric \in [Requests -> Samples \cup {None}] /\ inFlight \in Int
        /\ rec[q] \in [Layers -> [status : Nat, wroteHeader : BOOLEAN]]
  BY LocalTypes DEF MetricsOut, ChainInv, TypeOK, RouteInv
<1>code. rec[q]["metrics"].status = Code(q) /\ Code(q) \in Nat
  <2>1. rec[q]["metrics"] = rec[q]["tracing"] /\ "tracing" \in Layers
    BY <1>loc DEF WriteInv, Layers
  <2> QED  BY <2>1, <1>loc DEF Code
<1>route. routeLabel(pattern[q].traced) \in Routes /\
    (~Unwinding(q) => routeLabel(pattern[q].traced) = Truth(q))
  <2>1. ~Unwinding(q) => pattern[q].traced = Match(input[q].target)
    BY <1>loc DEF RouteInv, Copied
  <2>2. routeLabel(pattern[q].traced) \in Routes  BY LocalTypes, LabelType
  <2> QED  BY <2>1, <2>2 DEF Truth
<1>flag. traceExemplar(q) \in BOOLEAN /\ (traceExemplar(q) => span[q] # None /\ span[q].sampled)
  BY Zenon DEF traceExemplar
<1> DEFINE taken == [route |-> routeLabel(pattern[q].traced), status |-> Code(q), exemplar |-> traceExemplar(q)]
<1>taken. /\ taken \in Samples /\ taken.route = routeLabel(pattern[q].traced)
          /\ taken.status = Code(q)
          /\ taken.exemplar = traceExemplar(q)
  BY <1>route, <1>flag, <1>code, SampleType
<1>metric. /\ Probe(q) \/ Unwinding(q) => metric' = metric /\ series' = series
           /\ ~Probe(q) /\ ~Unwinding(q) =>
                 /\ metric' = [metric EXCEPT ![q] = taken]
                 /\ series' = series \cup {<<input[q].target[1], routeLabel(pattern[q].traced), Code(q)>>}
  BY <1>code DEF MetricsOut
<1> HIDE DEF taken
<1>f0. /\ Probe(q) \/ Unwinding(q) => metric'[q] = None
       /\ ~Probe(q) /\ ~Unwinding(q) => metric'[q] = taken /\ metric'[q] # None
  BY <1>metric, <1>loc, <1>taken, NoneAssumption DEF SampleInv, Measured, Ended
<1>same. input' = input /\ unwind' = unwind /\ rec' = rec /\ pattern' = pattern /\ ids' = ids /\
    header' = header /\ wire' = wire /\ span' = span /\ lines' = lines /\ panics' = panics
  BY DEF MetricsOut
<1>kept. (Unwinding(q)' <=> Unwinding(q)) /\ (Probe(q)' <=> Probe(q)) /\ (Wrote(q)' <=> Wrote(q)) /\
    Code(q)' = Code(q) /\ Truth(q)' = Truth(q) /\ (Recording(q)' <=> Recording(q)) /\
    Line(q, "http request")' = Line(q, "http request")
  BY <1>same DEF Unwinding, Probe, Wrote, Code, Truth, Recording, Line
<1>tpc. pc' \in [Requests -> Locations]  BY DEF MetricsOut, TypeOK, Locations
<1>tmetric. metric' \in [Requests -> Samples \cup {None}]
  BY <1>loc, <1>metric, <1>taken
<1>tinFlight. inFlight' \in Int
  <2>1. inFlight' = inFlight \/ inFlight' = inFlight - 1  BY DEF MetricsOut
  <2>2. inFlight \in Int  BY <1>loc
  <2> QED  BY <2>1, <2>2
<1>tseries. series' \in SUBSET (Methods \X Routes \X Nat)
  <2>1. series \in SUBSET (Methods \X Routes \X Nat)  BY DEF TypeOK
  <2>2. input[q].target[1] \in Methods  BY <1>loc DEF Messages
  <2> QED  BY <2>1, <2>2, <1>metric, <1>route, <1>code
<1>type. TypeOK'  BY <1>tpc, <1>tmetric, <1>tinFlight, <1>tseries, <1>same DEF TypeOK
<1>pc. pc[q] = "metrics out"
  BY DEF MetricsOut
<1>at. pc'[q] = "tracing out"
  BY DEF MetricsOut, TypeOK
<1> USE DEF ChainInv, Ended, Measured, Copied, Logged, Recovered, Routed, Named
<1>RouteInv. RouteInv(q)'  BY <1>pc, <1>at, <1>same, <1>kept DEF RouteInv
<1>WriteInv. WriteInv(q)'  BY <1>pc, <1>at, <1>same, <1>kept DEF WriteInv
<1>PanicInv. PanicInv(q)'  BY <1>pc, <1>at, <1>same, <1>kept DEF PanicInv
<1>IdInv. IdInv(q)'  BY <1>pc, <1>at, <1>same, <1>kept DEF IdInv
<1>SpanInv. SpanInv(q)'  BY <1>pc, <1>at, <1>same, <1>kept DEF SpanInv
<1>LineInv. LineInv(q)'  BY <1>pc, <1>at, <1>same, <1>kept DEF LineInv
<1>SampleInv. SampleInv(q)'
  <2>1. CASE Probe(q) \/ Unwinding(q)  BY <2>1, <1>at, <1>f0, <1>kept DEF SampleInv
  <2>2. CASE ~Probe(q) /\ ~Unwinding(q)
    BY <2>2, <1>at, <1>f0, <1>taken, <1>flag, <1>route, <1>same, <1>kept DEF SampleInv
  <2> QED  BY <2>1, <2>2
<1> QED
  BY <1>type, <1>RouteInv, <1>WriteInv, <1>PanicInv, <1>IdInv, <1>SpanInv, <1>LineInv,
     <1>SampleInv

\* The span ends.
LEMMA TracingOutKeeps ==
    ASSUME TypeOK, NEW q \in Requests, ChainInv(q), tracingOn' = tracingOn, TracingOut(q)
    PROVE  TypeOK' /\ ChainInv(q)'
<1> USE DEF At, Go, shared
<1>loc. /\ WriteInv(q) /\ RouteInv(q) /\ SpanInv(q) /\ PanicInv(q) /\ pc[q] = "tracing out"
        /\ span \in [Requests -> Spans \cup {None}]
        /\ rec[q] \in [Layers -> [status : Nat, wroteHeader : BOOLEAN]]
  BY LocalTypes DEF TracingOut, ChainInv, TypeOK
<1>code. rec[q]["tracing"].status = Code(q) /\ Code(q) \in Nat
  BY <1>loc DEF Code, Layers
<1>pattern. \/ pattern' = pattern
            \/ pattern' = [pattern EXCEPT ![q].server = pattern[q].traced]
  BY DEF TracingOut
<1> DEFINE label == routeTemplate(pattern[q].traced)
           outcome == IF Code(q) >= 500 THEN "Error" ELSE "Ok"
           told == [span[q] EXCEPT !.route = label, !.status = Code(q)]
           named == SetStatus(told, outcome)
           ended == [span[q] EXCEPT !.open = FALSE]
           closed == [named EXCEPT !.open = FALSE]
<1>label. label \in Routes /\ (~Unwinding(q) => label = Truth(q))
  <2>1. ~Unwinding(q) => pattern[q].traced = Match(input[q].target)
    BY <1>loc DEF RouteInv, Copied, Measured
  <2>2. label \in Routes  BY LocalTypes, LabelType, LabelsAgree
  <2> QED  BY <2>1, <2>2, LabelsAgree DEF Truth
<1>span. /\ Probe(q) => span' = span
         /\ ~Probe(q) /\ (~Recording(q) \/ Unwinding(q)) => span' = [span EXCEPT ![q] = ended]
         /\ ~Probe(q) /\ Recording(q) /\ ~Unwinding(q) => span' = [span EXCEPT ![q] = closed]
  BY DEF TracingOut, Code
<1>ended. ASSUME span[q] \in Spans
          PROVE  /\ ended \in Spans /\ ended.sampled = span[q].sampled
                 /\ ended.code = span[q].code
                 /\ ended.event = span[q].event
  BY <1>ended DEF Spans
<1>out. outcome \in {"Error", "Ok"} /\ (Code(q) = 500 => outcome = "Error")
  BY <1>code
<1> HIDE DEF label, outcome
<1>told. ASSUME span[q] \in Spans
         PROVE  /\ told \in Spans /\ told.sampled = span[q].sampled /\ told.code = span[q].code
                /\ told.route = label /\ told.status = Code(q) /\ told.event = span[q].event
  BY <1>told, <1>label, <1>code DEF Spans
<1> HIDE DEF told
<1>named. ASSUME span[q] \in Spans, span[q].code # "Ok"
          PROVE  /\ named \in Spans /\ named.sampled = span[q].sampled /\ named.code = outcome
                 /\ named.route = label /\ named.status = Code(q) /\ named.event = span[q].event
  BY <1>named, <1>told, <1>out, SetStatusEffect
<1> HIDE DEF named
<1>closed. ASSUME span[q] \in Spans, span[q].code # "Ok"
           PROVE  /\ closed \in Spans /\ closed.sampled = span[q].sampled /\ closed.code = outcome
                  /\ closed.route = label /\ closed.status = Code(q)
                  /\ closed.event = span[q].event
  <2>1. named \in Spans  BY <1>closed, <1>named
  <2>2. /\ closed \in Spans /\ closed.sampled = named.sampled /\ closed.code = named.code
        /\ closed.route = named.route /\ closed.status = named.status
        /\ closed.event = named.event
    BY <2>1 DEF Spans
  <2> HIDE DEF closed
  <2> QED  BY <1>closed, <1>named, <2>2
<1> HIDE DEF closed, ended
<1>f0. pattern'[q].inner = pattern[q].inner /\ pattern'[q].traced = pattern[q].traced
  BY <1>pattern DEF TypeOK
<1>f1. /\ span'[q] = None <=> span[q] = None
       /\ Recording(q)' <=> Recording(q)
       /\ span[q] # None =>
             /\ span'[q].sampled <=> span[q].sampled
             /\ Recording(q) /\ ~Unwinding(q) =>
                   /\ span'[q].route = Truth(q) /\ span'[q].status = Code(q)
                   /\ span'[q].event = span[q].event /\ (Code(q) = 500 => span'[q].code = "Error")
  <2>1. CASE span[q] = None
    <3>1. Probe(q)  BY <2>1, <1>loc DEF SpanInv
    <3>2. span'[q] = span[q]  BY <3>1, <1>span
    <3> QED  BY <2>1, <3>2 DEF Recording
  <2>2. CASE span[q] # None
    <3>1. span[q] \in Spans /\ span[q].code # "Ok" /\ ~Probe(q)
      BY <2>2, <1>loc, LocalTypes DEF SpanInv, Ended
    <3>2. CASE Recording(q) /\ ~Unwinding(q)
      <4>1. span'[q] = closed  BY <3>1, <3>2, <1>span, <1>loc
      <4>2. span'[q] # None /\ span'[q].sampled = span[q].sampled
        BY <3>1, <4>1, <1>closed, NoneAssumption
      <4>3. Recording(q)'  BY <3>2, <4>2 DEF Recording
      <4>4. /\ span'[q].route = Truth(q) /\ span'[q].status = Code(q)
            /\ span'[q].event = span[q].event /\ (Code(q) = 500 => span'[q].code = "Error")
        BY <3>1, <3>2, <4>1, <1>closed, <1>label, <1>out
      <4> QED  BY <2>2, <3>2, <4>2, <4>3, <4>4
    <3>3. CASE ~Recording(q) \/ Unwinding(q)
      <4>1. span'[q] = ended  BY <3>1, <3>3, <1>span, <1>loc
      <4>2. span'[q] # None /\ span'[q].sampled = span[q].sampled
        BY <3>1, <4>1, <1>ended, NoneAssumption
      <4>3. Recording(q)' <=> Recording(q)  BY <2>2, <4>2 DEF Recording
      <4> QED  BY <2>2, <3>3, <4>2, <4>3
    <3> QED  BY <3>2, <3>3
  <2> QED  BY <2>1, <2>2
<1>same. input' = input /\ unwind' = unwind /\ rec' = rec /\ ids' = ids /\ header' = header /\
    wire' = wire /\ metric' = metric /\ lines' = lines /\ inFlight' = inFlight /\
    panics' = panics /\ series' = series
  BY DEF TracingOut
<1>kept. (Unwinding(q)' <=> Unwinding(q)) /\ (Probe(q)' <=> Probe(q)) /\ (Wrote(q)' <=> Wrote(q)) /\
    Code(q)' = Code(q) /\ Truth(q)' = Truth(q) /\
    Line(q, "http request")' = Line(q, "http request")
  BY <1>same DEF Unwinding, Probe, Wrote, Code, Truth, Line
<1>tpc. pc' \in [Requests -> Locations]  BY DEF TracingOut, TypeOK, Locations
<1>tpattern. pattern' \in [Requests -> [server : Patterns \cup {None}, traced : Patterns \cup {None}, inner : Patterns \cup {None}]]
  <2>1. CASE pattern' = pattern  BY <2>1 DEF TypeOK
  <2>2. CASE pattern' = [pattern EXCEPT ![q].server = pattern[q].traced]  BY <2>2 DEF TypeOK
  <2> QED  BY <2>1, <2>2, <1>pattern
<1>tspan. span' \in [Requests -> Spans \cup {None}]
  <2>1. CASE Probe(q)  BY <2>1, <1>loc, <1>span
  <2>2. CASE ~Probe(q)
    <3>1. span[q] \in Spans /\ span[q].code # "Ok"
      BY <2>2, <1>loc, LocalTypes DEF SpanInv, Ended
    <3> QED  BY <2>2, <3>1, <1>loc, <1>span, <1>ended, <1>closed
  <2> QED  BY <2>1, <2>2
<1>type. TypeOK'  BY <1>tpc, <1>tpattern, <1>tspan, <1>same DEF TypeOK
<1>pc. pc[q] = "tracing out"
  BY DEF TracingOut
<1>at. pc'[q] = "server"
  BY DEF TracingOut, TypeOK
<1> USE DEF ChainInv, Ended, Measured, Copied, Logged, Recovered, Routed, Named
<1>RouteInv. RouteInv(q)'  BY <1>pc, <1>at, <1>f0, <1>same, <1>kept DEF RouteInv
<1>WriteInv. WriteInv(q)'  BY <1>pc, <1>at, <1>same, <1>kept DEF WriteInv
<1>PanicInv. PanicInv(q)'
  <2> SUFFICES ASSUME unwind'[q] = "panic" PROVE
             /\ wire'[q] # None /\ wire'[q].status = 500
             /\ ~Probe(q)' => Wrote(q)'
             /\ Recording(q)' => span'[q].code = "Error" /\ span'[q].event
    BY <1>at DEF PanicInv
  <2>1. /\ unwind[q] = "panic" /\ ~Unwinding(q) /\ wire[q] # None /\ wire[q].status = 500
        /\ ~Probe(q) => Wrote(q)
        /\ Recording(q) => span[q].code = "Error" /\ span[q].event
    BY <1>pc, <1>loc, <1>same DEF PanicInv, Unwinding
  <2>2. Recording(q) => ~Probe(q) /\ span[q] # None  BY <1>loc DEF Recording, SpanInv
  <2>3. Recording(q) => Code(q) = 500  BY <2>1, <2>2, <1>loc DEF WriteInv
  <2> QED  BY <2>1, <2>2, <2>3, <1>f1, <1>same, <1>kept
<1>IdInv. IdInv(q)'  BY <1>pc, <1>at, <1>same, <1>kept DEF IdInv
<1>SpanInv. SpanInv(q)'  BY <1>pc, <1>at, <1>f1, <1>same, <1>kept DEF SpanInv
<1>LineInv. LineInv(q)'  BY <1>pc, <1>at, <1>same, <1>kept DEF LineInv
<1>SampleInv. SampleInv(q)'  BY <1>pc, <1>at, <1>f1, <1>same, <1>kept DEF SampleInv
<1> QED
  BY <1>type, <1>RouteInv, <1>WriteInv, <1>PanicInv, <1>IdInv, <1>SpanInv, <1>LineInv,
     <1>SampleInv

\* The server finishes.
LEMMA FinishKeeps ==
    ASSUME TypeOK, NEW q \in Requests, ChainInv(q), tracingOn' = tracingOn, Finish(q)
    PROVE  TypeOK' /\ ChainInv(q)'
<1> USE DEF At, Go, shared
<1>loc. /\ WriteInv(q) /\ IdInv(q) /\ PanicInv(q) /\ pc[q] = "server" /\ header[q] \in Correlation
        /\ wire \in [Requests -> Responses \cup {None}]
  BY LocalTypes DEF Finish, ChainInv, TypeOK
<1> DEFINE answer == [status |-> 200, header |-> header[q]]
<1>answer. answer \in Responses /\ answer # None /\ answer.status = 200 /\
    answer.header = header[q]
  BY <1>loc, Answers DEF Responses
<1>wire. wire' = [wire EXCEPT ![q] = IF wire[q] = None /\ ~Unwinding(q) THEN answer ELSE wire[q]]
  BY DEF Finish
<1> HIDE DEF answer
<1>f0. /\ wire[q] # None \/ Unwinding(q) => wire'[q] = wire[q]
       /\ wire[q] = None /\ ~Unwinding(q) => wire'[q] = answer
  BY <1>wire, <1>loc
<1>same. input' = input /\ unwind' = unwind /\ rec' = rec /\ pattern' = pattern /\ ids' = ids /\
    header' = header /\ span' = span /\ metric' = metric /\ lines' = lines /\
    inFlight' = inFlight /\ panics' = panics /\ series' = series
  BY DEF Finish
<1>kept. (Unwinding(q)' <=> Unwinding(q)) /\ (Probe(q)' <=> Probe(q)) /\ (Wrote(q)' <=> Wrote(q)) /\
    Code(q)' = Code(q) /\ Truth(q)' = Truth(q) /\ (Recording(q)' <=> Recording(q)) /\
    Line(q, "http request")' = Line(q, "http request")
  BY <1>same DEF Unwinding, Probe, Wrote, Code, Truth, Recording, Line
<1>tpc. pc' \in [Requests -> Locations]  BY DEF Finish, TypeOK, Locations
<1>twire. wire' \in [Requests -> Responses \cup {None}]
  BY <1>wire, <1>loc, <1>answer
<1>type. TypeOK'  BY <1>tpc, <1>twire, <1>same DEF TypeOK
<1>pc. pc[q] = "server"
  BY DEF Finish
<1>at. pc'[q] = "done"
  BY DEF Finish, TypeOK
<1> USE DEF ChainInv, Ended, Measured, Copied, Logged, Recovered, Routed, Named
<1>RouteInv. RouteInv(q)'  BY <1>pc, <1>at, <1>same, <1>kept DEF RouteInv
<1>WriteInv. WriteInv(q)'
  <2>1. CASE wire[q] # None \/ Unwinding(q)
    <3>1. wire'[q] = wire[q]  BY <2>1, <1>f0
    <3>2. wire[q] # None /\ ~Probe(q) => Wrote(q)  BY <1>loc DEF WriteInv
    <3> QED  BY <2>1, <3>1, <3>2, <1>pc, <1>at, <1>loc, <1>same, <1>kept DEF WriteInv
  <2>2. CASE wire[q] = None /\ ~Unwinding(q)
    <3>1. ~Wrote(q) /\ Code(q) = 200  BY <2>2, <1>loc DEF WriteInv
    <3>2. wire'[q] # None /\ wire'[q].status = 200  BY <2>2, <1>f0, <1>answer
    <3> QED  BY <3>1, <3>2, <1>pc, <1>at, <1>loc, <1>same, <1>kept DEF WriteInv
  <2> QED  BY <2>1, <2>2
<1>PanicInv. PanicInv(q)'
  <2> SUFFICES ASSUME unwind'[q] = "panic" PROVE
             /\ wire'[q] # None /\ wire'[q].status = 500
             /\ ~Probe(q)' => Wrote(q)'
             /\ Recording(q)' => span'[q].code = "Error" /\ span'[q].event
    BY <1>at DEF PanicInv
  <2>1. /\ wire[q] # None /\ wire[q].status = 500 /\ (~Probe(q) => Wrote(q))
        /\ Recording(q) => span[q].code = "Error" /\ span[q].event
    BY <1>pc, <1>loc, <1>same DEF PanicInv
  <2>2. wire'[q] = wire[q]  BY <2>1, <1>f0
  <2>3. span' = span  BY <1>same
  <2>4. wire'[q] # None /\ wire'[q].status = 500  BY <2>1, <2>2
  <2> HIDE DEF ChainInv
  <2>5. (Wrote(q)' <=> Wrote(q)) /\ (Probe(q)' <=> Probe(q)) /\ (Recording(q)' <=> Recording(q))
    BY <1>kept
  <2>6. ~Probe(q)' => Wrote(q)'  BY <2>1, <2>5
  <2>7. Recording(q)' => span'[q].code = "Error" /\ span'[q].event  BY <2>1, <2>3, <2>5
  <2> QED  BY <2>4, <2>6, <2>7
<1>IdInv. IdInv(q)'  BY <1>pc, <1>at, <1>f0, <1>loc, <1>answer, <1>same, <1>kept DEF IdInv
<1>SpanInv. SpanInv(q)'  BY <1>pc, <1>at, <1>same, <1>kept DEF SpanInv
<1>LineInv. LineInv(q)'  BY <1>pc, <1>at, <1>same, <1>kept DEF LineInv
<1>SampleInv. SampleInv(q)'  BY <1>pc, <1>at, <1>same, <1>kept DEF SampleInv
<1> QED
  BY <1>type, <1>RouteInv, <1>WriteInv, <1>PanicInv, <1>IdInv, <1>SpanInv, <1>LineInv,
     <1>SampleInv


-----------------------------------------------------------------------------
(* All requests *)

\* Nothing has happened to any request yet.
LEMMA InitIInv == Init => IInv
<1> SUFFICES ASSUME Init PROVE IInv
  OBVIOUS
<1> USE DEF Init
<1>1. FreshRecorders \in [Layers -> [status : Nat, wroteHeader : BOOLEAN]]
  BY DEF FreshRecorders
<1>2. /\ tracingOn \in BOOLEAN /\ pc \in [Requests -> Locations]
      /\ input \in [Requests -> Messages \cup {None}]
      /\ unwind \in [Requests -> {"no", "panic", "late panic", "abort"}]
  BY DEF Locations
<1>3. rec \in [Requests -> [Layers -> [status : Nat, wroteHeader : BOOLEAN]]]
  BY <1>1
<1>4. pattern \in [Requests -> [server : Patterns \cup {None}, traced : Patterns \cup {None},
                                inner : Patterns \cup {None}]]
  OBVIOUS
<1>5. ids \in [Requests -> Correlation] /\ header \in [Requests -> Correlation]
  BY DEF Correlation
<1>6. /\ wire \in [Requests -> Responses \cup {None}] /\ span \in [Requests -> Spans \cup {None}]
      /\ metric \in [Requests -> Samples \cup {None}] /\ lines \in [Requests -> SUBSET LogLines]
      /\ inFlight \in Int /\ panics \in [Routes -> Nat]
  OBVIOUS
<1>7. series \subseteq Methods \X Routes \X Nat
  <2>1. "/orders" \in Routes /\ "/orders/{id}" \in Routes
    <3>1. <<"GET", "/orders">> \in Patterns /\ <<"GET", "/orders/{id}">> \in Patterns
      BY Zenon DEF Patterns
    <3>2. <<"GET", "/orders">>[2] = "/orders" /\ <<"GET", "/orders/{id}">>[2] = "/orders/{id}"
      OBVIOUS
    <3>3. <<"GET", "/orders">> # <<"", "/">> /\ <<"GET", "/orders/{id}">> # <<"", "/">>
      OBVIOUS
    <3> QED  BY <3>1, <3>2, <3>3, Zenon DEF Routes
  <2>2. "GET" \in Methods /\ "POST" \in Methods
    BY MethodsAssumption
  <2>3. 200 \in Nat /\ 201 \in Nat
    OBVIOUS
  <2>4. /\ <<"POST", "/orders", 201>> \in Methods \X Routes \X Nat
        /\ <<"GET", "/orders", 200>> \in Methods \X Routes \X Nat
        /\ <<"GET", "/orders/{id}", 200>> \in Methods \X Routes \X Nat
    BY <2>1, <2>2, <2>3
  <2> DEFINE All == Methods \X Routes \X Nat
             a == <<"POST", "/orders", 201>>
             b == <<"GET", "/orders", 200>>
             c == <<"GET", "/orders/{id}", 200>>
  <2>5. series = {a, b, c}
    BY DEF InstrumentedRoutes
  <2>6. a \in All /\ b \in All /\ c \in All
    BY <2>4
  <2> HIDE DEF All, a, b, c, Init
  <2>7. series \subseteq All
    BY <2>5, <2>6
  <2> QED  BY <2>7 DEF All
<1>8. TypeOK
  BY <1>2, <1>3, <1>4, <1>5, <1>6, <1>7 DEF TypeOK
<1>9. ASSUME NEW r \in Requests PROVE ChainInv(r)
  <2>1. /\ pc[r] = "idle" /\ unwind[r] = "no" /\ rec[r] = FreshRecorders /\ ids[r] = header[r]
        /\ wire[r] = None /\ span[r] = None /\ metric[r] = None /\ lines[r] = {}
    OBVIOUS
  <2>2. /\ \A l \in Layers : rec[r][l] = rec[r]["tracing"]
        /\ ~Wrote(r) /\ Code(r) = 200
    BY <2>1 DEF FreshRecorders, Wrote, Code, Layers
  <2>3. Line(r, "http request") = {}
    BY <2>1 DEF Line
  <2> USE DEF Ended, Measured, Copied, Logged, Recovered, Routed, Named
  <2>4. RouteInv(r)  BY <2>1 DEF RouteInv
  <2>5. WriteInv(r)  BY <2>1, <2>2 DEF WriteInv
  <2>6. PanicInv(r)  BY <2>1 DEF PanicInv
  <2>7. IdInv(r)  BY <2>1 DEF IdInv
  <2>8. SpanInv(r)  BY <2>1 DEF SpanInv
  <2>9. LineInv(r)  BY <2>1, <2>3 DEF LineInv
  <2>10. SampleInv(r)  BY <2>1 DEF SampleInv
  <2> QED  BY <2>4, <2>5, <2>6, <2>7, <2>8, <2>9, <2>10 DEF ChainInv
<1> QED  BY <1>8, <1>9 DEF IInv

\* A step of one request preserves the invariant of that request.
LEMMA OwnStep ==
    ASSUME TypeOK, NEW q \in Requests, ChainInv(q), tracingOn' = tracingOn, Step(q)
    PROVE  TypeOK' /\ ChainInv(q)'
<1>1. CASE Arrive(q)  BY <1>1, ArriveKeeps
<1>2. CASE TracingIn(q)  BY <1>2, TracingInKeeps
<1>3. CASE MetricsIn(q)  BY <1>3, MetricsInKeeps
<1>4. CASE RequestIDIn(q)  BY <1>4, RequestIDInKeeps
<1>5. CASE AccessIn(q)  BY <1>5, AccessInKeeps
<1>6. CASE Mux(q)  BY <1>6, MuxKeeps
<1>7. CASE HandlerWrites(q)  BY <1>7, HandlerWritesKeeps
<1>8. CASE HandlerReturns(q)  BY <1>8, HandlerReturnsKeeps
<1>9. CASE HandlerPanics(q)  BY <1>9, HandlerPanicsKeeps
<1>10. CASE RecoverOut(q)  BY <1>10, RecoverPasses, RecoverCatches
<1>11. CASE AccessOut(q)  BY <1>11, AccessOutKeeps
<1>12. CASE RequestIDOut(q)  BY <1>12, RequestIDOutKeeps
<1>13. CASE MetricsOut(q)  BY <1>13, MetricsOutKeeps
<1>14. CASE TracingOut(q)  BY <1>14, TracingOutKeeps
<1>15. CASE Finish(q)  BY <1>15, FinishKeeps
<1> QED
  BY <1>1, <1>2, <1>3, <1>4, <1>5, <1>6, <1>7, <1>8, <1>9, <1>10, <1>11, <1>12, <1>13, <1>14,
     <1>15 DEF Step

\* A step preserves the invariant of all requests.
LEMMA NextIInv == IInv /\ [Next]_vars => IInv'
<1> SUFFICES ASSUME IInv, [Next]_vars PROVE IInv'
  OBVIOUS
<1>1. CASE UNCHANGED vars
  <2>1. TypeOK'  BY <1>1 DEF IInv, TypeOK, vars
  <2>2. ASSUME NEW r \in Requests PROVE ChainInv(r)'
    <3>1. ChainInv(r)  BY DEF IInv
    <3> QED  BY <1>1, <3>1, Untouched DEF vars
  <2> QED  BY <2>1, <2>2 DEF IInv
<1>2. CASE \E q \in Requests : Step(q) /\ tracingOn' = tracingOn
  <2>1. PICK q \in Requests : Step(q) /\ tracingOn' = tracingOn  BY <1>2
  <2>2. TypeOK /\ ChainInv(q)  BY DEF IInv
  <2>3. TypeOK' /\ ChainInv(q)'  BY <2>1, <2>2, OwnStep
  <2>4. ASSUME NEW r \in Requests, r # q PROVE ChainInv(r)'
    <3>1. ChainInv(r)  BY DEF IInv
    <3>2. Same(r)  BY <2>1, <2>2, <2>4, Apart
    <3> QED  BY <2>1, <3>1, <3>2, Untouched DEF Same
  <2> QED  BY <2>3, <2>4 DEF IInv
<1> QED  BY <1>1, <1>2 DEF Next, Quiet

\* The inductive invariant holds in every reachable state.
THEOREM Invariance == Spec => []IInv
  BY InitIInv, NextIInv, PTL DEF Spec

\* Every variable keeps its type, however the requests interleave and whatever
\* their clients send.
THEOREM TypeCorrect == Spec => []TypeOK
<1>1. IInv => TypeOK  BY DEF IInv
<1> QED  BY <1>1, Invariance, PTL

\* Metrics, access log, span and client agree on the route and on the status of
\* every request that was served (PillarsAgree).
THEOREM PillarsAlwaysAgree == Spec => []PillarsAgree
<1>1. IInv => PillarsAgree
  <2> SUFFICES ASSUME IInv, NEW r \in Requests, Served(r), ~Probe(r)
               PROVE  LET truth == <<Truth(r), wire[r].status>> IN
                        /\ metric[r] # None
                        /\ <<metric[r].route, metric[r].status>> = truth
                        /\ {<<l.route, l.status>> : l \in Line(r, "http request")} = {truth}
                        /\ Recording(r) => <<span[r].route, span[r].status>> = truth
    BY DEF PillarsAgree, Truth
  <2>1. pc[r] = "done" /\ ~Unwinding(r) /\ WriteInv(r) /\ SpanInv(r) /\ LineInv(r) /\ SampleInv(r)
    BY DEF IInv, ChainInv, Served, At
  <2> USE DEF Ended, Measured, Copied, Logged, Recovered, Routed, Named
  <2>2. wire[r].status = Code(r)  BY <2>1 DEF WriteInv
  <2>3. metric[r] # None /\ metric[r].route = Truth(r) /\ metric[r].status = Code(r)
    BY <2>1 DEF SampleInv
  <2>4. {<<l.route, l.status>> : l \in Line(r, "http request")} = {<<Truth(r), Code(r)>>}
    BY <2>1 DEF LineInv
  <2>5. Recording(r) => span[r].route = Truth(r) /\ span[r].status = Code(r)
    BY <2>1 DEF SpanInv, Recording
  <2> QED  BY <2>2, <2>3, <2>4, <2>5
<1> QED  BY <1>1, Invariance, PTL

\* Response, log lines and exemplar carry the same IDs, and an exemplar names a
\* trace that is sampled and recorded, here or by the caller (CorrelationHolds).
THEOREM CorrelationAlways == Spec => []CorrelationHolds
<1>1. IInv => CorrelationHolds
  <2> SUFFICES ASSUME IInv, NEW r \in Requests
               PROVE  /\ wire[r] # None =>
                            /\ wire[r].header.request_id # None
                            /\ \A l \in lines[r] : l.ids.request_id = wire[r].header.request_id
                            /\ ~Probe(r) => \A l \in lines[r] : l.ids.trace_id = wire[r].header.trace_id
                      /\ metric[r] # None /\ metric[r].exemplar =>
                            /\ ids[r].trace_id # None
                            /\ span[r] # None /\ span[r].sampled
                            /\ input[r].parent = "sampled" \/ Recording(r)
                            /\ At(r, "tracing out") => span[r].open
    BY DEF CorrelationHolds
  <2>1. WriteInv(r) /\ IdInv(r) /\ SpanInv(r) /\ SampleInv(r)
    BY DEF IInv, ChainInv
  <2> USE DEF Ended, Measured, Copied, Logged, Recovered, Routed, Named
  <2>2. ASSUME wire[r] # None
        PROVE  /\ wire[r].header.request_id # None
               /\ \A l \in lines[r] : l.ids = wire[r].header
    <3>1. pc[r] \in Routed  BY <2>1, <2>2 DEF WriteInv
    <3> QED  BY <2>1, <2>2, <3>1 DEF IdInv
  <2>3. ASSUME metric[r] # None, metric[r].exemplar
        PROVE  /\ ids[r].trace_id # None
               /\ span[r] # None /\ span[r].sampled
               /\ input[r].parent = "sampled" \/ Recording(r)
               /\ At(r, "tracing out") => span[r].open
    <3>1. span[r] # None /\ span[r].sampled  BY <2>1, <2>3 DEF SampleInv
    <3> QED  BY <2>1, <3>1 DEF SpanInv, At, Recording
  <2> QED  BY <2>2, <2>3
<1> QED  BY <1>1, Invariance, PTL

-----------------------------------------------------------------------------
(* The gauge and the counter *)

\* The request is inside the metrics layer, and that layer counts it.
Active(r) ==
    /\ pc[r] \in {"requestid", "access", "mux", "handler", "wrote", "recover",
                  "access out", "requestid out", "metrics out"}
    /\ ~Probe(r)

\* The request's panic has been recovered, on a route with this label.
Caught(r, t) ==
    /\ unwind[r] \in {"panic", "late panic"}
    /\ pc[r] \notin {"handler", "wrote", "recover"}
    /\ routeLabel(Match(input[r].target)) = t

Counted ==
    /\ inFlight = Cardinality({r \in Requests : Active(r)})
    /\ \A t \in Routes : panics[t] = Cardinality({r \in Requests : Caught(r, t)})

\* A step of one request moves only that request in or out of the counted ones.
LEMMA OthersCount ==
    ASSUME TypeOK, NEW q \in Requests, Step(q), NEW r \in Requests, r # q
    PROVE  (Active(r)' <=> Active(r)) /\ \A t : Caught(r, t)' <=> Caught(r, t)
<1>1. Same(r)  BY Apart
<1> QED  BY <1>1 DEF Same, Active, Caught, Probe

\* What a step does to the gauge.
LEMMA GaugeStep ==
    ASSUME TypeOK, NEW q \in Requests, ChainInv(q), Step(q)
    PROVE  \/ inFlight' = inFlight /\ (Active(q)' <=> Active(q))
           \/ inFlight' = inFlight + 1 /\ Active(q)' /\ ~Active(q)
           \/ inFlight' = inFlight - 1 /\ ~Active(q)' /\ Active(q)
<1> USE DEF Active, Probe, At, Go, shared, TypeOK
<1>1. CASE Arrive(q)  BY <1>1 DEF Arrive
<1>2. CASE TracingIn(q)  BY <1>2 DEF TracingIn
<1>3. CASE MetricsIn(q)  BY <1>3 DEF MetricsIn
<1>4. CASE RequestIDIn(q)  BY <1>4 DEF RequestIDIn
<1>5. CASE AccessIn(q)  BY <1>5 DEF AccessIn
<1>6. CASE Mux(q)  BY <1>6 DEF Mux
<1>7. CASE HandlerWrites(q)  BY <1>7 DEF HandlerWrites
<1>8. CASE HandlerReturns(q)  BY <1>8 DEF HandlerReturns
<1>9. CASE HandlerPanics(q)  BY <1>9 DEF HandlerPanics
<1>10. CASE RecoverOut(q)  BY <1>10 DEF RecoverOut
<1>11. CASE AccessOut(q)  BY <1>11 DEF AccessOut
<1>12. CASE RequestIDOut(q)  BY <1>12 DEF RequestIDOut
<1>13. CASE MetricsOut(q)  BY <1>13 DEF MetricsOut
<1>14. CASE TracingOut(q)  BY <1>14 DEF TracingOut
<1>15. CASE Finish(q)  BY <1>15 DEF Finish
<1> QED
  BY <1>1, <1>2, <1>3, <1>4, <1>5, <1>6, <1>7, <1>8, <1>9, <1>10, <1>11, <1>12, <1>13, <1>14,
     <1>15 DEF Step

\* What a step does to the panic counters.
LEMMA PanicStep ==
    ASSUME TypeOK, NEW q \in Requests, ChainInv(q), Step(q)
    PROVE  \/ panics' = panics /\ \A t : Caught(q, t)' <=> Caught(q, t)
           \/ /\ panics' = [panics EXCEPT ![Truth(q)] = @ + 1]
              /\ Truth(q) \in Routes
              /\ \A t : ~Caught(q, t) /\ (Caught(q, t)' <=> t = Truth(q))
<1>w. WriteInv(q) /\ RouteInv(q)  BY DEF ChainInv
<1> USE DEF Caught, At, Go, shared, TypeOK, Ended, Measured, Copied, Logged, Recovered, Routed,
    Named
<1>1. CASE Arrive(q)  BY <1>1, <1>w DEF Arrive, WriteInv
<1>2. CASE TracingIn(q)  BY <1>2, <1>w DEF TracingIn, WriteInv
<1>3. CASE MetricsIn(q)  BY <1>3, <1>w DEF MetricsIn, WriteInv
<1>4. CASE RequestIDIn(q)  BY <1>4, <1>w DEF RequestIDIn, WriteInv
<1>5. CASE AccessIn(q)  BY <1>5, <1>w DEF AccessIn, WriteInv
<1>6. CASE Mux(q)  BY <1>6, <1>w DEF Mux, WriteInv
<1>7. CASE HandlerWrites(q)  BY <1>7, <1>w DEF HandlerWrites, WriteInv
<1>8. CASE HandlerReturns(q)  BY <1>8, <1>w DEF HandlerReturns, WriteInv
<1>9. CASE HandlerPanics(q)
  <2>1. pc[q] \in {"handler", "wrote"} /\ pc'[q] = "recover" /\ panics' = panics
    BY <1>9 DEF HandlerPanics
  <2> QED  BY <2>1
<1>10. CASE RecoverOut(q)
  <2>1. pc[q] = "recover" /\ pc'[q] = "access out" /\ unwind' = unwind /\ input' = input
    BY <1>10 DEF RecoverOut
  <2>2. CASE ~Panicked(q)
    <3>1. panics' = panics  BY <1>10, <2>2 DEF RecoverOut
    <3> QED  BY <2>1, <2>2, <3>1 DEF Panicked
  <2>3. CASE Panicked(q)
    <3>1. pattern[q].inner = Match(input[q].target)  BY <2>1, <1>w DEF RouteInv
    <3>2. panics' = [panics EXCEPT ![Truth(q)] = @ + 1]
      BY <1>10, <2>3, <3>1 DEF RecoverOut, Truth
    <3>3. Truth(q) \in Routes  BY LabelType, MatchType DEF Truth
    <3> QED  BY <2>1, <2>3, <3>2, <3>3 DEF Panicked, Truth
  <2> QED  BY <2>2, <2>3
<1>11. CASE AccessOut(q)  BY <1>11, <1>w DEF AccessOut, WriteInv
<1>12. CASE RequestIDOut(q)  BY <1>12, <1>w DEF RequestIDOut, WriteInv
<1>13. CASE MetricsOut(q)  BY <1>13, <1>w DEF MetricsOut, WriteInv
<1>14. CASE TracingOut(q)  BY <1>14, <1>w DEF TracingOut, WriteInv
<1>15. CASE Finish(q)  BY <1>15, <1>w DEF Finish, WriteInv
<1> QED
  BY <1>1, <1>2, <1>3, <1>4, <1>5, <1>6, <1>7, <1>8, <1>9, <1>10, <1>11, <1>12, <1>13, <1>14,
     <1>15 DEF Step

\* One element more, one less, or the same ones.
LEMMA CountOne ==
    ASSUME NEW S, IsFiniteSet(S), NEW T, NEW x, \A y : y # x => (y \in T <=> y \in S)
    PROVE  /\ (x \in T <=> x \in S) => Cardinality(T) = Cardinality(S)
           /\ x \in T /\ x \notin S => Cardinality(T) = Cardinality(S) + 1
           /\ x \notin T /\ x \in S => Cardinality(T) = Cardinality(S) - 1
<1>1. (x \in T <=> x \in S) => T = S
  OBVIOUS
<1>2. x \in T /\ x \notin S => T = S \cup {x}
  OBVIOUS
<1>3. x \notin T /\ x \in S => T = S \ {x}
  OBVIOUS
<1>4. x \notin S => Cardinality(S \cup {x}) = Cardinality(S) + 1
  BY FS_AddElement
<1>5. x \in S => Cardinality(S \ {x}) = Cardinality(S) - 1
  BY FS_RemoveElement
<1> QED  BY <1>1, <1>2, <1>3, <1>4, <1>5

\* The counts follow every step.
LEMMA CountedStep ==
    ASSUME IInv, Counted, [Next]_vars
    PROVE  Counted'
<1>1. CASE UNCHANGED vars
  BY <1>1 DEF vars, Counted, Active, Caught, Probe
<1>2. CASE \E q \in Requests : Step(q)
  <2>1. PICK q \in Requests : Step(q)  BY <1>2
  <2>2. TypeOK /\ ChainInv(q)  BY DEF IInv
  <2>3. inFlight' = Cardinality({r \in Requests : Active(r)'})
    <3> DEFINE S == {r \in Requests : Active(r)}
               T == {r \in Requests : Active(r)'}
    <3>1. IsFiniteSet(S)  BY RequestsAssumption, FS_Subset
    <3>2. \A y : y # q => (y \in T <=> y \in S)  BY <2>1, <2>2, OthersCount
    <3>3. (q \in S <=> Active(q)) /\ (q \in T <=> Active(q)')  OBVIOUS
    <3>4. inFlight = Cardinality(S) /\ Cardinality(S) \in Nat
      BY <3>1, FS_CardinalityType DEF Counted
    <3> HIDE DEF S, T
    <3>5. /\ (q \in T <=> q \in S) => Cardinality(T) = Cardinality(S)
          /\ q \in T /\ q \notin S => Cardinality(T) = Cardinality(S) + 1
          /\ q \notin T /\ q \in S => Cardinality(T) = Cardinality(S) - 1
      BY <3>1, <3>2, CountOne
    <3>6. inFlight' = Cardinality(T)  BY <2>1, <2>2, <3>3, <3>4, <3>5, GaugeStep
    <3> QED  BY <3>6 DEF T
  <2>4. ASSUME NEW t \in Routes PROVE panics'[t] = Cardinality({r \in Requests : Caught(r, t)'})
    <3> DEFINE S == {r \in Requests : Caught(r, t)}
               T == {r \in Requests : Caught(r, t)'}
    <3>1. IsFiniteSet(S)  BY RequestsAssumption, FS_Subset
    <3>2. \A y : y # q => (y \in T <=> y \in S)  BY <2>1, <2>2, OthersCount
    <3>3. (q \in S <=> Caught(q, t)) /\ (q \in T <=> Caught(q, t)')  OBVIOUS
    <3>4. panics[t] = Cardinality(S) /\ Cardinality(S) \in Nat
      BY <3>1, FS_CardinalityType DEF Counted
    <3> HIDE DEF S, T
    <3>5. /\ (q \in T <=> q \in S) => Cardinality(T) = Cardinality(S)
          /\ q \in T /\ q \notin S => Cardinality(T) = Cardinality(S) + 1
      BY <3>1, <3>2, CountOne
    <3>6. panics \in [Routes -> Nat]  BY <2>2 DEF TypeOK
    <3>7. \/ panics'[t] = panics[t] /\ (Caught(q, t)' <=> Caught(q, t))
          \/ panics'[t] = panics[t] + 1 /\ ~Caught(q, t) /\ Caught(q, t)'
      BY <2>1, <2>2, <3>6, PanicStep
    <3>8. panics'[t] = Cardinality(T)  BY <3>3, <3>4, <3>5, <3>7
    <3> QED  BY <3>8 DEF T
  <2> QED  BY <2>3, <2>4 DEF Counted
<1> QED  BY <1>1, <1>2 DEF Next, Quiet

\* The counts start at nothing.
LEMMA InitCounted == Init => Counted
<1> SUFFICES ASSUME Init PROVE Counted
  OBVIOUS
<1>1. {r \in Requests : Active(r)} = {}  BY DEF Init, Active
<1>2. \A t : {r \in Requests : Caught(r, t)} = {}  BY DEF Init, Caught
<1>3. Cardinality({}) = 0  BY FS_EmptySet
<1>4. inFlight = 0 /\ \A t \in Routes : panics[t] = 0  BY DEF Init
<1> QED  BY <1>1, <1>2, <1>3, <1>4 DEF Counted

\* Gauge and counters are exact in every reachable state.
LEMMA AlwaysCounted == Spec => []Counted
<1>1. IInv /\ Counted /\ [Next]_vars => Counted'  BY CountedStep
<1> QED  BY <1>1, InitCounted, Invariance, PTL DEF Spec

\* The in-flight gauge is the number of requests inside the metrics layer,
\* however they leave it (InFlightExact).
THEOREM GaugeExact == Spec => []InFlightExact
<1>1. Counted => InFlightExact  BY DEF Counted, InFlightExact, Active
<1> QED  BY <1>1, AlwaysCounted, PTL

\* Every recovered panic is counted once under its route, and one that came
\* before the response ends as a 500 and a failed span (PanicsCounted).
THEOREM PanicsAccounted == Spec => []PanicsCounted
<1>1. IInv /\ Counted => PanicsCounted
  <2> SUFFICES ASSUME IInv, Counted PROVE PanicsCounted
    OBVIOUS
  <2>1. \A t \in Routes : panics[t] = Cardinality({r \in Requests :
             /\ unwind[r] \in {"panic", "late panic"}
             /\ pc[r] \notin {"handler", "wrote", "recover"}
             /\ routeLabel(Match(input[r].target)) = t})
    BY DEF Counted, Caught
  <2>2. ASSUME NEW r \in Requests, At(r, "done"), unwind[r] = "panic"
        PROVE  /\ wire[r].status = 500
               /\ Recording(r) => span[r].code = "Error" /\ span[r].event
    <3>1. PanicInv(r)  BY DEF IInv, ChainInv
    <3> QED
      BY <2>2, <3>1 DEF PanicInv, At, Ended, Measured, Copied, Logged, Recovered, Routed, Named
  <2> QED  BY <2>1, <2>2 DEF PanicsCounted
<1> QED  BY <1>1, Invariance, AlwaysCounted, PTL
=============================================================================
