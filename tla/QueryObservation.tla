-------------------------- MODULE QueryObservation --------------------------
(***************************************************************************)
(* How a database call is observed: the pool a call queues at, and the      *)
(* three tracers that pgx calls around acquisition and query - metrics.DB,  *)
(* logging.QueryLogger and tracing.QueryTracer - behind store.MultiTracer.  *)
(*                                                                         *)
(* The tracers keep nothing between Start and End: what End needs travels   *)
(* in the context that Start returned.  A context is a function from keys   *)
(* to values; under "active" is the name of the active span.  What a call   *)
(* has left behind in the three pillars is seen[c], and a callback is an    *)
(* operator from that record to the next.                                   *)
(*                                                                         *)
(* pgx, pgxpool and Postgres are external.  Time is a clock of whole units, *)
(* and a goroutine that can go on does so before the clock moves.           *)
(***************************************************************************)
EXTENDS Naturals, Sequences, FiniteSets, SequencesExt

CONSTANTS
    Calls,          \* the calls of store methods; each happens at most once
    Statements,     \* [sql |-> text, how |-> a way to run it] they may run
    QueryNames,     \* store.QueryNames(): SQL text to name
    MaxConns,       \* DB_MAX_CONNS
    SlowThreshold,  \* cfg.SlowQueryThreshold
    MaxTime         \* bound: the clock stops here

ASSUME CallsAssumption      == IsFiniteSet(Calls)
ASSUME StatementsAssumption == \A s \in Statements : s.how \in {"exec", "row", "rows", "ping"}
ASSUME MaxConnsAssumption   == MaxConns \in Nat \ {0}
ASSUME SlowAssumption       == SlowThreshold \in Nat \ {0}
ASSUME MaxTimeAssumption    == MaxTime \in Nat

VARIABLES
    now,
    pc,         \* where each call is
    stmt,       \* the statement it runs
    ended,      \* "no", or how the context it was given has ended
    err,        \* what Acquire or the query returned
    ctx,        \* the context that Acquire, then the query, runs under
    queue,      \* calls that wait for a slot, first come first served
    slots,      \* slots of the pool in nobody's hands
    idle,       \* connections in them; Open's ping left the first
    orphans,    \* connections still under construction for a call that gave up
    seen,       \* what the pillars know of each call
    at          \* when each call was made, had its connection and was done

poolVars == <<queue, slots, idle, orphans>>
vars     == <<now, pc, stmt, ended, err, ctx, poolVars, seen, at>>

Go(c, where) == pc' = [pc EXCEPT ![c] = where]
-----------------------------------------------------------------------------
(* Contexts and spans. *)

Background == [k \in {"active"} |-> "caller"]

WithValue(x, key, value) ==
    [k \in DOMAIN x \cup {key} |-> IF k = key THEN value ELSE x[k]]

\* tracer.Start, and the span kept under a key of the tracer's own.
StartSpan(x, key, name) ==
    WithValue(WithValue(x, "active", name), key,
              [name |-> name, parent |-> x["active"], start |-> now])

\* span.End: the span is exported.
EndSpan(p, x, key, code) ==
    IF key \notin DOMAIN x THEN p
    ELSE [p EXCEPT !.spans = Append(@, [span |-> x[key], end |-> now, code |-> code])]
-----------------------------------------------------------------------------
(* What a query is called. *)

Blank == {" ", "\t", "\n", "\r"}

\* What unicode.IsSpace takes for a space besides: form feed, vertical tab, U+0085, U+00A0.
OtherSpace == {"\f", "VT", "NEL", "NBSP"}

\* The n-th of some places in a text.
Nth(places, n) ==
    CHOOSE i \in {j \in places : Cardinality({k \in places : k <= j}) = n} : TRUE

\* What stands at some places, every space written as " ".
Squeeze(sql, places) ==
    [n \in 1..Cardinality(places) |->
        LET c == sql[Nth(places, n)] IN IF c \in Blank \cup OtherSpace THEN " " ELSE c]

\* strings.Join(strings.Fields(sql), " "): a space survives where a word ends and
\* another one follows.
normaliseSQL(sql) ==
    LET Word(i) == sql[i] \notin Blank \cup OtherSpace
    IN  Squeeze(sql, {i \in 1..Len(sql) :
            Word(i) \/ (i > 1 /\ Word(i - 1) /\ \E j \in i..Len(sql) : Word(j))})

\* A run of blanks was written as one, so there is at most one to trim.
trimTrailingSpace(b) ==
    IF b # <<>> /\ Last(b) = " " THEN Front(b) ELSE b

\* One turn of the loop of normalise: space says that the last byte was a blank.
WriteByte(acc, b) ==
    IF b \notin Blank THEN [out |-> Append(acc.out, b), space |-> FALSE]
    ELSE IF acc.space THEN acc
    ELSE [out |-> Append(acc.out, " "), space |-> TRUE]

\* logging.normalise and its copy in tracing.
normalise(sql) ==
    LET loop[n \in 0..Len(sql)] == IF n = 0 THEN [out |-> <<>>, space |-> TRUE]
                                   ELSE WriteByte(loop[n - 1], sql[n])
    IN  trimTrailingSpace(loop[Len(sql)].out)

\* Each constructor normalises the keys of the map once.
dbNames   == {[sql |-> normaliseSQL(q), name |-> QueryNames[q]] : q \in DOMAIN QueryNames}
logNames  == {[sql |-> normalise(q), name |-> QueryNames[q]] : q \in DOMAIN QueryNames}
spanNames == logNames

Lookup(names, sql) ==
    LET hits == {n \in names : n.sql = sql}
    IN  IF hits = {} THEN "other" ELSE (CHOOSE n \in hits : TRUE).name

\* What the three look up, for every statement the store runs.
queryName == [s \in Statements |-> Lookup(dbNames, normaliseSQL(s.sql))]
logName   == [s \in Statements |-> Lookup(logNames, normalise(s.sql))]
spanName  == [s \in Statements |-> Lookup(spanNames, normalise(s.sql))]

\* The store's texts use no space that strings.Fields knows and normalise does not, and two
\* of QueryNames that differ only in blanks share their name.
ASSUME TextsAssumption ==
    /\ \A q \in DOMAIN QueryNames \cup {s.sql : s \in Statements} :
         q \in Seq(STRING) /\ \A i \in DOMAIN q : q[i] \notin OtherSpace
    /\ \A q, r \in DOMAIN QueryNames :
         normaliseSQL(q) = normaliseSQL(r) => QueryNames[q] = QueryNames[r]

\* The series that exist before the first query.
preInit ==
    LET names == {QueryNames[q] : q \in DOMAIN QueryNames} \cup {"other"}
    IN  names \X {"ok", "error"}
-----------------------------------------------------------------------------
(* Errors: "nil", "ErrNoRows", "canceled", "timeout", "sqlstate" (an error    *)
(* Postgres reports) and "other" (the network, a row that does not scan).     *)

isRealError(e) == e \notin {"nil", "ErrNoRows"}

\* The kind label of query_errors_total; "sqlstate" stands for the code itself.
errorKind(e) ==
    CASE e = "nil" -> "none"
      [] e \in {"canceled", "timeout", "sqlstate"} -> e
      [] OTHER -> "other"
-----------------------------------------------------------------------------
(* The tracers. *)

DBQueryStart(x, s)   == WithValue(x, "query.metrics", [name |-> queryName[s], start |-> now])
LogQueryStart(x, s)  == WithValue(x, "query.log", [name |-> logName[s], start |-> now])
SpanQueryStart(x, s) == StartSpan(x, "query.span", spanName[s])

DBQueryEnd(p, x, e) ==
    IF "query.metrics" \notin DOMAIN x THEN p
    ELSE LET v      == x["query.metrics"]
             status == IF isRealError(e) THEN "error" ELSE "ok"
         IN  [p EXCEPT
                !.samples = Append(@, [name |-> v.name, status |-> status, secs |-> now - v.start]),
                !.queryErrors = IF status = "ok" THEN @
                                ELSE Append(@, [name |-> v.name, kind |-> errorKind(e)])]

LogQueryEnd(p, x, e) ==
    IF "query.log" \notin DOMAIN x THEN p
    ELSE LET v     == x["query.log"]
             level == IF e # "nil" /\ e # "ErrNoRows" THEN "ERROR"
                      ELSE IF now - v.start >= SlowThreshold THEN "WARN"
                      ELSE "DEBUG"
         IN  [p EXCEPT !.lines = Append(@, [name |-> v.name, level |-> level])]

SpanQueryEnd(p, x, e) ==
    EndSpan(p, x, "query.span", IF e \in {"nil", "ErrNoRows"} THEN "Unset" ELSE "Error")

DBAcquireStart(x)   == WithValue(x, "acquire.metrics", now)
SpanAcquireStart(x) == StartSpan(x, "acquire.span", "db.acquire")

\* mutant: a failed acquisition is counted and not timed
DBAcquireEndOkOnly(p, x, e) ==
    IF "acquire.metrics" \notin DOMAIN x THEN p
    ELSE IF e = "nil" THEN [p EXCEPT !.waits = Append(@, now - x["acquire.metrics"])]
    ELSE [p EXCEPT !.acquireErrors = @ + 1]

DBAcquireEnd(p, x, e) ==
    IF "acquire.metrics" \notin DOMAIN x THEN p
    ELSE [p EXCEPT !.waits = Append(@, now - x["acquire.metrics"]),
                   !.acquireErrors = IF e = "nil" THEN @ ELSE @ + 1]

SpanAcquireEnd(p, x, e) ==
    EndSpan(p, x, "acquire.span", IF e = "nil" THEN "Unset" ELSE "Error")
-----------------------------------------------------------------------------
(* store.MultiTracer{dbMetrics, queryLogger, queryTracer} *)

\* mutant: every tracer is given the original context, the last result is kept
TraceQueryStartUnchained(x, s) == SpanQueryStart(x, s)

\* Each tracer derives from the context of the one before.
TraceQueryStart(x, s) == SpanQueryStart(LogQueryStart(DBQueryStart(x, s), s), s)

TraceQueryEnd(p, x, e) == SpanQueryEnd(LogQueryEnd(DBQueryEnd(p, x, e), x, e), x, e)

\* Forwarded to the two that implement AcquireTracer; the query logger does not.
TraceAcquireStart(x) == SpanAcquireStart(DBAcquireStart(x))

TraceAcquireEnd(p, x, e) == SpanAcquireEnd(DBAcquireEnd(p, x, e), x, e)
-----------------------------------------------------------------------------
(* Acquiring a connection. *)

\* A store method calls the pool, which calls TraceAcquireStart and queues.
Call(c) ==
    /\ pc[c] = "uncalled"
    /\ ctx' = [ctx EXCEPT ![c] = TraceAcquireStart(Background)]
    /\ queue' = Append(queue, c)
    /\ at' = [at EXCEPT ![c].asked = now]
    /\ Go(c, "queued")
    /\ UNCHANGED <<now, stmt, ended, err, slots, idle, orphans, seen>>

AtHead(c) == pc[c] = "queued" /\ Head(queue) = c /\ slots > 0

\* The first in the queue takes a slot and the connection in it, if there is one.
\* A connection that turns out to be dead is destroyed, and the call asks again.
Grant(c) ==
    /\ AtHead(c)
    /\ \/ /\ slots' = slots - 1 /\ queue' = Tail(queue)
          /\ IF idle > 0 THEN idle' = idle - 1 /\ Go(c, "granted")
                         ELSE UNCHANGED idle /\ Go(c, "building")
       \/ /\ idle > 0 /\ idle' = idle - 1
          /\ queue' = Append(Tail(queue), c)
          /\ UNCHANGED <<pc, slots>>
    /\ UNCHANGED <<now, stmt, ended, err, ctx, orphans, seen, at>>

Build(c) ==
    /\ pc[c] = "building"
    /\ \/ Go(c, "granted") /\ UNCHANGED <<err, slots>>
       \/ Go(c, "refused") /\ err' = [err EXCEPT ![c] = "other"] /\ slots' = slots + 1
    /\ UNCHANGED <<now, stmt, ended, ctx, queue, idle, orphans, seen, at>>

\* The caller's context ended while it waited.  A connection under construction is
\* finished without it.
GiveUp(c) ==
    /\ pc[c] \in {"queued", "building"} /\ ended[c] # "no"
    /\ err' = [err EXCEPT ![c] = ended[c]]
    /\ queue' = SelectSeq(queue, LAMBDA d : d # c)
    /\ orphans' = IF pc[c] = "building" THEN orphans + 1 ELSE orphans
    /\ Go(c, "refused")
    /\ UNCHANGED <<now, stmt, ended, ctx, slots, idle, seen, at>>

\* Such a connection joins the idle ones, or its construction fails.
Built ==
    /\ orphans > 0
    /\ orphans' = orphans - 1 /\ slots' = slots + 1
    /\ idle' \in {idle, idle + 1}
    /\ UNCHANGED <<now, pc, stmt, ended, err, ctx, queue, seen, at>>

\* Acquire returns an error, and the store method with it.
Refused(c) ==
    /\ pc[c] = "refused"
    /\ seen' = [seen EXCEPT ![c] = TraceAcquireEnd(@, ctx[c], err[c])]
    /\ at' = [at EXCEPT ![c].got = now, ![c].done = now]
    /\ Go(c, "failed")
    /\ UNCHANGED <<now, stmt, ended, err, ctx, poolVars>>
-----------------------------------------------------------------------------
(* The statement. *)

\* Acquire returns a connection, and the statement is sent under the context the
\* caller passed, not the one TraceAcquireStart made.  A ping is not traced.
Send(c) ==
    /\ pc[c] = "granted"
    /\ seen' = [seen EXCEPT ![c] = TraceAcquireEnd(@, ctx[c], "nil")]
    /\ ctx' = [ctx EXCEPT ![c] = IF stmt[c].how = "ping" THEN Background
                                 ELSE TraceQueryStart(Background, stmt[c])]
    /\ at' = [at EXCEPT ![c].got = now]
    /\ Go(c, "running")
    /\ UNCHANGED <<now, stmt, ended, err, poolVars>>

\* What a statement may end with when its context does not.
Answers(how) ==
    {"sqlstate", "other"} \cup
        CASE how = "row"  -> {"nil", "ErrNoRows"}
          [] how = "rows" -> {}
          [] OTHER        -> {"nil"}

\* Postgres answers an Exec, a QueryRow or a ping, or fails it; or the rows of a
\* Query come in.
Answer(c) ==
    /\ pc[c] = "running"
    /\ \/ \E e \in Answers(stmt[c].how) :
            err' = [err EXCEPT ![c] = e] /\ Go(c, "answered")
       \/ stmt[c].how = "rows" /\ Go(c, "reading") /\ UNCHANGED err
    /\ UNCHANGED <<now, stmt, ended, ctx, poolVars, seen, at>>

\* rows.Next and scanOrder to the last row or to the one that does not scan; the
\* deferred rows.Close ends the query in either case.
Read(c) ==
    /\ pc[c] = "reading"
    /\ \E e \in {"nil", "other"} : err' = [err EXCEPT ![c] = e]
    /\ Go(c, "answered")
    /\ UNCHANGED <<now, stmt, ended, ctx, poolVars, seen, at>>

\* The context ends in the middle of the statement.
Interrupt(c) ==
    /\ pc[c] \in {"running", "reading"} /\ ended[c] # "no"
    /\ err' = [err EXCEPT ![c] = ended[c]]
    /\ Go(c, "answered")
    /\ UNCHANGED <<now, stmt, ended, ctx, poolVars, seen, at>>

\* TraceQueryEnd, from Exec or from rows.Close.
End(c) ==
    /\ pc[c] = "answered"
    /\ seen' = IF stmt[c].how = "ping" THEN seen
               ELSE [seen EXCEPT ![c] = TraceQueryEnd(@, ctx[c], err[c])]
    /\ at' = [at EXCEPT ![c].done = now]
    /\ Go(c, "ended")
    /\ UNCHANGED <<now, stmt, ended, err, ctx, poolVars>>

\* mutant: a row that does not scan returns from the loop and leaves the rows open
ReleaseUnlessScanFails(c) ==
    /\ pc[c] = "ended"
    /\ IF stmt[c].how = "rows" /\ err[c] = "other" THEN UNCHANGED <<slots, idle>>
       ELSE slots' = slots + 1 /\ idle' = idle + 1
    /\ Go(c, "returned")
    /\ UNCHANGED <<now, stmt, ended, err, ctx, queue, orphans, seen, at>>

\* conn.Release, and the store method returns.  An interrupted connection is closed,
\* a failed one may be.
Release(c) ==
    /\ pc[c] = "ended"
    /\ slots' = slots + 1
    /\ idle' \in CASE err[c] \in {"canceled", "timeout"} -> {idle}
                   [] err[c] = "other"                   -> {idle, idle + 1}
                   [] OTHER                              -> {idle + 1}
    /\ Go(c, "returned")
    /\ UNCHANGED <<now, stmt, ended, err, ctx, queue, orphans, seen, at>>
-----------------------------------------------------------------------------
\* The client hangs up, the process is told to stop, or a deadline passes.
Cancel(c) ==
    /\ pc[c] \in {"queued", "building", "running", "reading"} /\ ended[c] = "no"
    /\ \E how \in {"canceled", "timeout"} : ended' = [ended EXCEPT ![c] = how]
    /\ UNCHANGED <<now, pc, stmt, err, ctx, poolVars, seen, at>>

\* poolCollector.Collect, from one pool.Stat().  pgxpool counts no connections of
\* its own: a slot that is taken is acquired unless a connection is being built.
Collect ==
    LET constructing == orphans + Cardinality({c \in Calls : pc[c] = "building"})
    IN  [acquired |-> MaxConns - slots - constructing, idle |-> idle,
         constructing |-> constructing, max |-> MaxConns]

Waiting(c) ==
    \/ pc[c] \in {"uncalled", "failed", "returned"}
    \/ pc[c] \in {"queued", "building", "running", "reading"} /\ ended[c] = "no" /\ ~AtHead(c)

Tick ==
    /\ now < MaxTime
    /\ \A c \in Calls : Waiting(c)
    /\ now' = now + 1
    /\ UNCHANGED <<pc, stmt, ended, err, ctx, poolVars, seen, at>>

\* Acquire and query tracing of the goroutine that made the call.
Own(c) == Grant(c) \/ GiveUp(c) \/ Refused(c) \/ Send(c) \/ Interrupt(c) \/ End(c) \/ Release(c)

Postgres(c) == Build(c) \/ Answer(c) \/ Read(c)

Nothing ==
    [waits |-> <<>>, acquireErrors |-> 0, samples |-> <<>>, queryErrors |-> <<>>,
     lines |-> <<>>, spans |-> <<>>]

Init ==
    /\ now = 0
    /\ pc = [c \in Calls |-> "uncalled"]
    /\ stmt \in [Calls -> Statements]
    /\ ended = [c \in Calls |-> "no"]
    /\ err = [c \in Calls |-> "nil"]
    /\ ctx = [c \in Calls |-> Background]
    /\ queue = <<>> /\ slots = MaxConns /\ idle = 1 /\ orphans = 0
    /\ seen = [c \in Calls |-> Nothing]
    /\ at = [c \in Calls |-> [asked |-> 0, got |-> 0, done |-> 0]]

Next ==
    \/ \E c \in Calls : Call(c) \/ Own(c) \/ Postgres(c) \/ Cancel(c)
    \/ Built
    \/ Tick

\* A goroutine that can go on does.
Fairness == \A c \in Calls : WF_vars(Own(c))

Spec == Init /\ [][Next]_vars /\ Fairness

\* Postgres accepts or refuses connections and answers statements.
PostgresFairness == WF_vars(Built) /\ \A c \in Calls : WF_vars(Postgres(c))
-----------------------------------------------------------------------------
(* Properties *)

Failed(c) == pc[c] = "failed"
Traced(c) == pc[c] \in {"ended", "returned"} /\ stmt[c].how # "ping"

(* metrics.DB, QueryLogger and QueryTracer tell one story of every query:     *)
(* one sample, one line and one span, under the name QueryNames gives it, in  *)
(* agreement on whether it failed and was slow, in series that existed from   *)
(* the start; a failed call is counted once, as a failed acquisition or as a  *)
(* failed query of the kind that befell it.                                   *)
QueryPillarsAgree ==
    \A c \in Calls :
      LET p == seen[c] IN
      /\ Traced(c) =>
           /\ Len(p.samples) = 1 /\ Len(p.lines) = 1 /\ Len(p.spans) = 2
           /\ LET s == p.samples[1]  l == p.lines[1]  q == p.spans[2]
                  failed == s.status = "error"
              IN  /\ s.name = l.name /\ s.name = q.span.name
                  /\ stmt[c].sql \in DOMAIN QueryNames => s.name = QueryNames[stmt[c].sql]
                  /\ <<s.name, s.status>> \in preInit
                  /\ failed <=> l.level = "ERROR"
                  /\ failed <=> q.code = "Error"
                  /\ l.level = "WARN" <=> ~failed /\ s.secs >= SlowThreshold
                  /\ p.queryErrors = IF ~failed THEN <<>>
                                     ELSE <<[name |-> s.name, kind |-> err[c]]>>
           /\ err[c] = ended[c] => p.samples[1].status = "error"
           /\ p.acquireErrors = 0
      /\ Failed(c) => p.acquireErrors = 1 /\ p.samples = <<>> /\ p.queryErrors = <<>>

(* NewDB's comment on acquire_wait: waiting for a connection and waiting for  *)
(* Postgres are told apart.  Both histograms and both spans split the time of *)
(* a call at the moment it had its connection, whether or not it got one, and *)
(* the spans are siblings under the span of the caller.                       *)
WaitAttributed ==
    \A c \in Calls :
      LET p == seen[c]
          Spans(n, from, to) == /\ p.spans[n].span.parent = Background["active"]
                                /\ p.spans[n].span.start = from /\ p.spans[n].end = to
      IN  /\ Traced(c) \/ Failed(c) =>
               p.waits = <<at[c].got - at[c].asked>> /\ Spans(1, at[c].asked, at[c].got)
          /\ Traced(c) =>
               p.samples[1].secs = at[c].done - at[c].got /\ Spans(2, at[c].got, at[c].done)

(* What a scrape reads from the pool: the acquired connections are those of   *)
(* calls that have not returned, so none leaks whatever a statement or its    *)
(* caller comes to, and the pool never exceeds its limit.                     *)
ScrapeIsTrue ==
    LET s == Collect
        Holds(c) == pc[c] \in {"granted", "running", "reading", "answered", "ended"}
    IN  /\ s.acquired = Cardinality({c \in Calls : Holds(c)})
        /\ s.acquired + s.idle + s.constructing <= s.max

(* A call whose context has ended returns even if Postgres never answers, and *)
(* while Postgres answers every call returns: no connection is kept from the  *)
(* calls that queue for it.                                                   *)
EveryCallReturns ==
    \A c \in Calls :
        LET Returned == pc[c] \in {"failed", "returned"} IN
        /\ ended[c] # "no" ~> Returned
        /\ PostgresFairness => (pc[c] = "queued" ~> Returned)
=============================================================================
